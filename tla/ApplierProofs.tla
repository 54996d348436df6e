--------------------------- MODULE ApplierProofs ---------------------------
(***************************************************************************)
(* Proofs about the DDL applier: the effect of each of its steps, that the *)
(* types are kept, and that a finished migration is never written again.   *)
(* The last rests on the terms alone: every term belongs to one process,   *)
(* and once a pass of the newest term has finished the row every pass      *)
(* still working carries an older one.                                     *)
(***************************************************************************)
EXTENDS Applier, TLAPS

----------------------------------------------------------------------------
(* Types *)

Quiet == {"idle", "tick", "sweep"}
Attempting == {"mark", "check", "exec", "after", "sleep"}
Failing == {"revert", "failed"}
Driving == Attempting \cup Failing \cup {"record", "next", "finish", "columns", "settle", "phase", "probe"}
Labels == Quiet \cup Driving \cup {"drive", "start"}

Entry == [state: {"pending", "running", "retrying", "applied", "skipped", "failed"}, step: Nat, ran: BOOLEAN]
Rows == [state: {"none", "queued", "running", "complete", "failed"},
         per: [{} -> Entry] \cup [Keys -> Entry], set: Nat, settled: BOOLEAN, degraded: BOOLEAN]
Errors == {"none", "skip", "hard", "dial", "save", "lock", "conn"}
Places == [key: Nat, phase: Nat, tries: Nat, resumed: BOOLEAN, err: Errors, left: SUBSET Shards]
Budgets == [kind: Statements, crash: Nat, lost: Nat, fault: Nat, flip: Nat]

Waiting == {"none", "queued"}
Planned(r) == r \in Rows /\ r.set \in 1 .. serving /\ r.per \in [Keys -> Entry]
Unplanned(r) == r.set = 0 /\ r.per \in [{} -> Entry]

LeaderTypes ==
    /\ term \in Nat
    /\ published \in [Controllers -> Nat] /\ pass \in [Controllers -> Nat]
    /\ pc \in [Controllers -> Labels]

DataTypes ==
    /\ kind \in Statements /\ row \in Rows
    /\ budget \in Budgets /\ serving \in Nat \ {0} /\ serving + budget.flip <= 1 + MaxFlips
    /\ obj \in [Sets -> [1 .. catalogKey -> Objects]]
    /\ tab \in [Sets -> [Shards -> Tables]]
    /\ mem \in [Controllers -> Rows] /\ loc \in [Controllers -> Places]

RowTypes ==
    /\ row.state \in Waiting => Unplanned(row)
    /\ row.state \in {"running", "complete"} => Planned(row)

(* What a pass holds at each of its steps. *)
PassTypes(c) ==
    /\ pc[c] \in {"idle", "tick", "drive", "start", "columns", "settle"} => loc[c] = Idle
    /\ pc[c] = "sweep" => loc[c].key \in Shards
    /\ pc[c] = "drive" =>
         /\ row.state # "none"
         /\ \/ mem[c].state = "queued" /\ Unplanned(mem[c])
            \/ mem[c].state = "running" /\ Planned(mem[c]) /\ row.state \notin Waiting
    /\ pc[c] = "start" =>
         /\ Planned(mem[c]) /\ mem[c].per = [k \in Keys |-> Pending] /\ mem[c].state = "running"
         /\ row.state # "none"
    /\ pc[c] \in Driving =>
         /\ Planned(mem[c]) /\ row.state \notin Waiting
         /\ mem[c].state = IF pc[c] \in Failing THEN "failed" ELSE "running"
    /\ pc[c] \in Attempting \cup {"record"} =>
         loc[c].key \in Keys /\ (kind = "rewrite" => loc[c].phase <= rewriteValidate)
    /\ pc[c] \in Failing \cup {"columns", "settle", "phase", "probe"} => kind = "rewrite"
    /\ pc[c] = "next" => kind # "rewrite"

Types == LeaderTypes /\ DataTypes /\ RowTypes /\ \A c \in Controllers : PassTypes(c)

----------------------------------------------------------------------------
(* Terms *)

(* No term is taken before it is given out, and none is given to two.      *)
TermsApart ==
    /\ \A c \in Controllers : published[c] <= term /\ pass[c] <= term
    /\ \A c, d \in Controllers : c # d =>
         /\ pass[c] # 0 => pass[c] # pass[d] /\ pass[c] # published[d]
         /\ published[c] # 0 => published[c] # published[d]

(* A pass without a term is an unstamped one. *)
Stamped == handover # "unstamped" => \A c \in Controllers : pc[c] \in {"idle", "tick"} \/ pass[c] # 0

(* The passes still at work on a finished migration are refused. *)
OthersFenced ==
    row.state \in Final /\ handover # "unstamped" =>
        \A c \in Controllers : pc[c] \in Quiet \/ Fenced(c)

TermInv == TermsApart /\ Stamped /\ OthersFenced

----------------------------------------------------------------------------
(* What is recorded *)

Kept == {"applied", "skipped"}

(* What a recorded step says of a shard's table: from the backfill on the   *)
(* trigger guards a hidden column, from the cutover on its rows are         *)
(* converted, and before the cutover the old column is there.               *)
StepTrue(step, t) ==
    /\ step >= rewriteBackfill /\ t.col = "both" => t.trig
    /\ step >= rewriteCutover /\ t.col = "both" => t.full
    /\ step < rewriteCutover => t.col # "new"

(* The place in the loops has not passed this shard's next phase. *)
Ahead(step, k, l) == step > l.phase \/ (step = l.phase /\ k >= l.key)

----------------------------------------------------------------------------
(* Facts about the operators of the model *)

LEMMA KeySets ==
    /\ Keys \subseteq 1 .. catalogKey /\ Shards \subseteq Keys /\ Keys \subseteq Nat
    /\ catalogKey \in Nat /\ 1 \in Shards /\ NumShards \in Shards
    /\ kind = "rewrite" => Keys = Shards
  BY ApplierConstants, SMTT(30) DEF Keys, Shards, catalogKey

LEMMA ServingSet == ASSUME DataTypes PROVE serving \in Sets /\ 1 .. serving \subseteq Sets
  BY ApplierConstants, SMTT(30) DEF DataTypes, Budgets, Sets

(* The same row but for the entry of one key, which keeps its step.         *)
EntryOnly(r, q, k) ==
    /\ Planned(q) /\ q.state = r.state /\ q.set = r.set /\ q.settled = r.settled /\ q.degraded = r.degraded
    /\ q.per[k].step = r.per[k].step
    /\ \A j \in Keys : j # k => q.per[j] = r.per[j]

LEMMA WithStateOnly ==
    ASSUME NEW r, Planned(r), NEW k \in Keys,
           NEW s \in {"pending", "running", "retrying", "applied", "skipped", "failed"}
    PROVE  EntryOnly(r, WithState(r, k, s), k) /\ WithState(r, k, s).per[k].state = s
  <1> DEFINE e == [r.per[k] EXCEPT !.state = s]
             per == [r.per EXCEPT ![k] = e]
             q == [r EXCEPT !.per = per]
  <1>1. r.per[k] \in Entry
      BY ZenonT(30) DEF Planned
  <1>2. e \in Entry /\ e.state = s /\ e.step = r.per[k].step
      BY <1>1, ZenonT(30) DEF Entry
  <1>3. WithState(r, k, s) = q
      BY ZenonT(30) DEF WithState
  <1> HIDE DEF e
  <1>4. per \in [Keys -> Entry] /\ per[k] = e /\ \A j \in Keys : j # k => per[j] = r.per[j]
      BY <1>2, ZenonT(30) DEF Planned
  <1> HIDE DEF per
  <1>5. q \in Rows /\ q.per = per /\ q.state = r.state /\ q.set = r.set /\ q.settled = r.settled /\ q.degraded = r.degraded
      BY <1>4, ZenonT(30) DEF Planned, Rows
  <1> HIDE DEF q
  <1> QED
      BY <1>2, <1>3, <1>4, <1>5, ZenonT(30) DEF EntryOnly, Planned

(* A write leaves the row or puts the pass's row there, settled as it was.  *)
LEMMA SavedRow ==
    ASSUME NEW c, NEW r \in Rows, row \in Rows
    PROVE  \/ Saved(c, r) = row
           \/ /\ ~Fenced(c) /\ ~Held(r) /\ Saved(c, r) \in Rows
              /\ Saved(c, r).state = r.state /\ Saved(c, r).per = r.per /\ Saved(c, r).set = r.set
              /\ Saved(c, r).degraded = r.degraded /\ Saved(c, r).settled = row.settled
  BY ZenonT(30) DEF Saved, Rows

LEMMA SavedFenced == ASSUME NEW c, NEW r, Fenced(c) PROVE Saved(c, r) = row
  BY ZenonT(30) DEF Saved

LEMMA FaultTypes ==
    ASSUME budget \in Budgets, NEW f \in {"crash", "lost", "fault", "flip"}, Fault(f)
    PROVE  /\ budget' \in Budgets
           /\ f # "flip" => budget'.flip = budget.flip
           /\ f = "flip" => budget'.flip = budget.flip - 1
  BY SMTT(30) DEF Fault, Budgets

LEMMA ObjPut ==
    ASSUME DataTypes, NEW s \in Sets, NEW k \in 1 .. catalogKey, NEW o \in Objects, obj' = [obj EXCEPT ![s][k] = o]
    PROVE  /\ obj' \in [Sets -> [1 .. catalogKey -> Objects]] /\ obj'[s][k] = o
           /\ \A z \in Sets, j \in 1 .. catalogKey : z # s \/ j # k => obj'[z][j] = obj[z][j]
  BY ZenonT(30) DEF DataTypes

LEMMA TabPut ==
    ASSUME DataTypes, NEW s \in Sets, NEW k \in Shards, NEW t \in Tables, tab' = [tab EXCEPT ![s][k] = t]
    PROVE  /\ tab' \in [Sets -> [Shards -> Tables]] /\ tab'[s][k] = t
           /\ \A z \in Sets, j \in Shards : z # s \/ j # k => tab'[z][j] = tab[z][j]
  BY ZenonT(30) DEF DataTypes

LEMMA SweptTable ==
    ASSUME NEW t \in Tables
    PROVE  /\ Swept(t) \in Tables
           /\ t.col = "new" => Swept(t).col = "new" /\ Swept(t).full = t.full
           /\ t.col # "new" => Swept(t).col = "old"
  BY ZenonT(30) DEF Swept, Tables, Untouched

LEMMA Blank == NoRow \in Rows /\ Idle \in Places /\ Pending \in Entry /\ NoRow.state = "none" /\ NoRow.set = 0
  <1>1. Pending \in Entry
      BY ZenonT(30) DEF Pending, Entry
  <1>2. [k \in {} |-> Pending] \in [{} -> Entry]
      BY ZenonT(30)
  <1>3. NoRow \in Rows /\ NoRow.state = "none" /\ NoRow.set = 0
      BY <1>2, ZenonT(30) DEF NoRow, Rows
  <1>4. Idle \in Places
      BY ZenonT(30) DEF Idle, Places, Errors, rewriteAdd
  <1> QED
      BY <1>1, <1>3, <1>4, ZenonT(30)

----------------------------------------------------------------------------
(* What the steps of a pass do *)

(* Only this pass moves. *)
Alone(c) ==
    /\ pc' = [pc EXCEPT ![c] = pc'[c]] /\ mem' = [mem EXCEPT ![c] = mem'[c]] /\ loc' = [loc EXCEPT ![c] = loc'[c]]
    /\ UNCHANGED <<kind, gate, serving, term, lock, published>>
    /\ budget' \in Budgets /\ budget'.flip = budget.flip

OverNow(c) == pc'[c] = "idle" /\ mem'[c] = NoRow /\ loc'[c] = Idle

LEMMA PassEnds == ASSUME Types, NEW c \in Controllers, EndPass(c) PROVE OverNow(c)
  BY ZenonT(30) DEF EndPass, Goto, SetLoc, SetMem, Types, LeaderTypes, DataTypes, OverNow

LEMMA WorkAlone ==
    ASSUME Types, NEW c \in Controllers, Work(c) \/ Abandon(c) \/ SaveFails(c)
    PROVE  Alone(c)
  <1> DEFINE Own(v) == v' = v \/ \E x : v' = [v EXCEPT ![c] = x]
  <1>t. /\ pc \in [Controllers -> Labels] /\ mem \in [Controllers -> Rows] /\ loc \in [Controllers -> Places]
        /\ budget \in Budgets
      BY ZenonT(30) DEF Types, LeaderTypes, DataTypes
  <1>e. EndPass(c) => (\E x : pc' = [pc EXCEPT ![c] = x]) /\ (\E x : mem' = [mem EXCEPT ![c] = x]) /\ (\E x : loc' = [loc EXCEPT ![c] = x])
      BY ZenonT(30) DEF EndPass, Goto, SetLoc, SetMem
  <1>1. pc' = pc \/ \E x : pc' = [pc EXCEPT ![c] = x]
      BY <1>e, ZenonT(30) DEF Work, Abandon, SaveFails, Tick, RunOnce, SweepRewriteArtifacts, drive, Start, NextKey, NextPhase, Mark, Check,
         Exec, rewritePhase, After, Wake, Record, Finish, recordRewriteColumns, settleColumns, failRewrite,
         revertRewrite, FailSave, Goto, Return
  <1>2. mem' = mem \/ \E x : mem' = [mem EXCEPT ![c] = x]
      BY <1>e, ZenonT(30) DEF Work, Abandon, SaveFails, Tick, RunOnce, SweepRewriteArtifacts, drive, Start, NextKey, NextPhase, Mark, Check,
         Exec, rewritePhase, After, Wake, Record, Finish, recordRewriteColumns, settleColumns, failRewrite,
         revertRewrite, FailSave, SetMem, Return
  <1>3. loc' = loc \/ \E x : loc' = [loc EXCEPT ![c] = x]
      BY <1>e, ZenonT(30) DEF Work, Abandon, SaveFails, Tick, RunOnce, SweepRewriteArtifacts, drive, Start, NextKey, NextPhase, Mark, Check,
         Exec, rewritePhase, After, Wake, Record, Finish, recordRewriteColumns, settleColumns, failRewrite,
         revertRewrite, FailSave, SetLoc, Return
  <1>4. budget' = budget \/ Fault("fault")
      BY ZenonT(30) DEF Work, Abandon, SaveFails, Tick, RunOnce, SweepRewriteArtifacts, drive, Start, NextKey, NextPhase, Mark, Check,
         Exec, rewritePhase, After, Wake, Record, Finish, recordRewriteColumns, settleColumns, failRewrite,
         revertRewrite, FailSave, Return
  <1>5. UNCHANGED <<kind, gate, serving, term, lock, published>>
      BY ZenonT(30) DEF Work, Abandon, SaveFails, Tick, RunOnce, SweepRewriteArtifacts, drive, Start, NextKey, NextPhase, Mark, Check,
         Exec, rewritePhase, After, Wake, Record, Finish, recordRewriteColumns, settleColumns, failRewrite,
         revertRewrite, FailSave, catalogVars
  <1>6. budget' \in Budgets /\ budget'.flip = budget.flip
      BY <1>4, <1>t, SMTT(30) DEF Fault, Budgets
  <1> QED
      BY <1>1, <1>2, <1>3, <1>5, <1>6, <1>t, ZenonT(30) DEF Alone

LEMMA AloneOthers ==
    ASSUME Types, NEW c \in Controllers, Alone(c), NEW d \in Controllers, d # c
    PROVE  pc'[d] = pc[d] /\ mem'[d] = mem[d] /\ loc'[d] = loc[d]
  BY ZenonT(30) DEF Alone, Types, LeaderTypes, DataTypes

LEMMA Own ==
    ASSUME Types, NEW c \in Controllers
    PROVE  /\ pc[c] \in Labels /\ mem[c] \in Rows /\ loc[c] \in Places /\ PassTypes(c)
           /\ \A l : Goto(c, l) => pc'[c] = l
           /\ \A r : SetMem(c, r) => mem'[c] = r
           /\ \A l : SetLoc(c, l) => loc'[c] = l
  BY ZenonT(30) DEF Types, LeaderTypes, DataTypes, Goto, SetMem, SetLoc

(* The same place in the loops, in another attempt. *)
SamePlace(l, m) == m \in Places /\ m.key = l.key /\ m.phase = l.phase

LEMMA MarkDoes ==
    ASSUME Types, NEW c \in Controllers, Mark(c)
    PROVE  /\ pc[c] = "mark" /\ obj' = obj /\ tab' = tab /\ pass' = pass /\ handover' = handover
           /\ \/ Fenced(c) /\ pc'[c] = "record" /\ mem'[c] = mem[c] /\ loc'[c] = loc[c] /\ row' = row
              \/ /\ EntryOnly(mem[c], mem'[c], loc[c].key) /\ mem'[c].per[loc[c].key].state = "running"
                 /\ SamePlace(loc[c], loc'[c])
                 /\ \/ pc'[c] = "check" /\ row' = Saved(c, mem'[c]) /\ ~Fenced(c)
                    \/ pc'[c] = "after" /\ row' = row /\ loc'[c].err = "save"
  <1> DEFINE r == WithState(mem[c], loc[c].key, "running")
  <1>1. pc[c] = "mark" /\ obj' = obj /\ tab' = tab /\ pass' = pass /\ handover' = handover
      BY ZenonT(30) DEF Mark
  <1>2. Planned(mem[c]) /\ loc[c].key \in Keys /\ loc[c] \in Places
      BY <1>1, Own, ZenonT(30) DEF PassTypes, Driving, Attempting
  <1>3. EntryOnly(mem[c], r, loc[c].key) /\ r.per[loc[c].key].state = "running"
      BY <1>2, WithStateOnly, ZenonT(30)
  <1>4. [loc[c] EXCEPT !.err = "save"] \in Places /\ SamePlace(loc[c], [loc[c] EXCEPT !.err = "save"])
        /\ [loc[c] EXCEPT !.err = "save"].err = "save" /\ SamePlace(loc[c], loc[c])
      BY <1>2, ZenonT(30) DEF Places, SamePlace, Errors
  <1> HIDE DEF r
  <1>5. \/ Fenced(c) /\ Goto(c, "record") /\ UNCHANGED <<row, mem, loc>>
        \/ ~Fenced(c) /\ row' = Saved(c, r) /\ SetMem(c, r) /\ Goto(c, "check") /\ UNCHANGED loc
        \/ ~Fenced(c) /\ SetMem(c, r) /\ SetLoc(c, [loc[c] EXCEPT !.err = "save"]) /\ Goto(c, "after") /\ UNCHANGED row
      BY ZenonT(30) DEF Mark, r
  <1> QED
      BY <1>1, <1>3, <1>4, <1>5, Own, ZenonT(30)

LEMMA CheckDoes ==
    ASSUME Types, NEW c \in Controllers, Check(c)
    PROVE  LET o == obj[mem[c].set][loc[c].key] IN
           /\ pc[c] = "check" /\ row' = row /\ tab' = tab /\ mem'[c] = mem[c] /\ pass' = pass /\ handover' = handover
           /\ SamePlace(loc[c], loc'[c])
           /\ \/ pc'[c] = "after" /\ obj' = obj /\ loc'[c].err = "dial"
              \/ /\ pc'[c] = "after" /\ obj' = obj /\ AlreadyDone(c)
                 /\ loc'[c].err = IF kind = "existing" THEN "skip" ELSE "none"
              \/ /\ pc'[c] = "exec"
                 /\ obj' = obj \/ (obj' = [obj EXCEPT ![mem[c].set][loc[c].key] = "no"] /\ kind = "index")
  <1>1. pc[c] = "check" /\ row' = row /\ tab' = tab /\ mem' = mem /\ pass' = pass /\ handover' = handover
      BY ZenonT(30) DEF Check
  <1>2. loc[c] \in Places
      BY Own, ZenonT(30)
  <1>3. \A e \in Errors : SamePlace(loc[c], [loc[c] EXCEPT !.err = e]) /\ [loc[c] EXCEPT !.err = e].err = e
      BY <1>2, ZenonT(30) DEF Places, SamePlace
  <1>4. SamePlace(loc[c], loc[c]) /\ {"dial", "skip", "none"} \subseteq Errors
      BY <1>2, ZenonT(30) DEF SamePlace, Errors
  <1>5. \/ SetLoc(c, [loc[c] EXCEPT !.err = "dial"]) /\ Goto(c, "after") /\ UNCHANGED obj
        \/ /\ AlreadyDone(c) /\ SetLoc(c, [loc[c] EXCEPT !.err = IF kind = "existing" THEN "skip" ELSE "none"])
           /\ Goto(c, "after") /\ UNCHANGED obj
        \/ /\ Goto(c, "exec") /\ UNCHANGED loc
           /\ obj' = obj \/ (obj' = [obj EXCEPT ![mem[c].set][loc[c].key] = "no"] /\ kind = "index")
      BY ZenonT(30) DEF Check, SetHere
  <1>6. CASE SetLoc(c, [loc[c] EXCEPT !.err = "dial"]) /\ Goto(c, "after") /\ UNCHANGED obj
      BY <1>1, <1>3, <1>4, <1>6, Own, ZenonT(30)
  <1>7. CASE /\ AlreadyDone(c) /\ SetLoc(c, [loc[c] EXCEPT !.err = IF kind = "existing" THEN "skip" ELSE "none"])
             /\ Goto(c, "after") /\ UNCHANGED obj
      BY <1>1, <1>3, <1>4, <1>7, Own, ZenonT(30)
  <1>8. CASE /\ Goto(c, "exec") /\ UNCHANGED loc
             /\ obj' = obj \/ (obj' = [obj EXCEPT ![mem[c].set][loc[c].key] = "no"] /\ kind = "index")
      BY <1>1, <1>3, <1>4, <1>8, Own, ZenonT(30)
  <1> QED
      BY <1>5, <1>6, <1>7, <1>8, ZenonT(30)

LEMMA ExecDoes ==
    ASSUME Types, NEW c \in Controllers, Exec(c)
    PROVE  /\ pc[c] = "exec" /\ kind # "rewrite" /\ row' = row /\ tab' = tab /\ mem'[c] = mem[c]
           /\ pass' = pass /\ handover' = handover /\ pc'[c] = "after"
           /\ \E a \in {Answer(c)} \cup Faulty(c) :
                /\ obj' = [obj EXCEPT ![mem[c].set][loc[c].key] = a[1]]
                /\ loc'[c] = [loc[c] EXCEPT !.err = a[2]]
  BY Own, ZenonT(30) DEF Exec, SetHere

(* What a statement can answer, and what it leaves behind then. *)
LEMMA Answers ==
    ASSUME kind \in Statements \ {"rewrite"}, NEW c, Here(c) \in Objects, NEW a \in {Answer(c)} \cup Faulty(c)
    PROVE  /\ a[1] \in Objects /\ a[2] \in Errors
           /\ kind \in PlainKinds /\ a[2] \in {"none", "skip"} /\ (kind \in DropKinds => Here(c) # "bad") => a[1] = Goal
           /\ kind \in DropKinds /\ Here(c) # "bad" => a[1] # "bad"
  <1> DEFINE o == Here(c)
  <1>k. kind \in {"create", "drop", "existing", "alter", "role", "index", "multistep"}
      BY ZenonT(30) DEF Statements
  <1>o. o \in {"no", "bad", "yes"}
      BY ZenonT(30) DEF Objects
  <1> HIDE DEF o
  <1>1. CASE kind \in {"drop", "existing"}
    <2>1. Answer(c) \in {<<"no", "none">>, <<o, "skip">>, <<o, "none">>, <<o, "hard">>}
        BY <1>1, <1>o, ZenonT(30) DEF Answer, DropKinds, o
    <2>2. Answer(c) = <<o, "none">> \/ Answer(c) = <<o, "skip">> => o # "yes"
        BY <1>1, <1>o, <2>1, ZenonT(30) DEF Answer, DropKinds, o
    <2>3. Answer(c)[1] \in {"no", o} /\ (Answer(c)[1] = "yes" => Answer(c)[2] = "hard") /\ Answer(c)[2] \in {"none", "skip", "hard"}
        BY <2>1, <2>2, <1>o, SMTT(30)
    <2>4. Faulty(c) = {<<o, "lock">>, <<o, "hard">>, <<o, "conn">>, <<Answer(c)[1], "conn">>}
        BY <1>1, ZenonT(30) DEF Faulty, o
    <2> QED
        BY <1>1, <1>o, <2>3, <2>4, SMTT(30) DEF Goal, DropKinds, Errors, Objects, o
  <1>2. CASE kind = "multistep"
    <2>1. Answer(c) \in {<<"bad", "none">>, <<"yes", "none">>, <<o, "hard">>, <<o, "none">>}
        BY <1>2, <1>o, ZenonT(30) DEF Answer, DropKinds, o
    <2>2. Faulty(c) \subseteq {<<o, "lock">>, <<o, "hard">>, <<o, "conn">>, <<"yes", "conn">>, <<"no", "hard">>, <<Answer(c)[1], "conn">>}
        BY <1>2, ZenonT(30) DEF Faulty, o
    <2>3. Answer(c)[1] \in Objects
        BY <2>1, <1>o, SMTT(30) DEF Objects
    <2> QED
        BY <1>2, <1>o, <2>1, <2>2, <2>3, SMTT(30) DEF PlainKinds, DropKinds, Errors, Objects
  <1>3. CASE kind = "index"
    <2>1. Answer(c) \in {<<"yes", "none">>, <<o, "hard">>}
        BY <1>3, <1>o, ZenonT(30) DEF Answer, DropKinds, o
    <2>2. Faulty(c) \subseteq ({o} \X {"lock", "conn"}) \cup ({"no", "bad"} \X {"hard", "lock"}) \cup (Objects \X {"conn"})
        BY <1>3, SMTT(30) DEF Faulty, o
    <2> QED
        BY <1>3, <1>o, <2>1, <2>2, SMTT(30) DEF Goal, DropKinds, Errors, Objects
  <1>4. CASE kind \in {"create", "alter", "role"}
    <2>1. Answer(c) \in {<<"yes", "none">>, <<o, "hard">>}
        BY <1>4, <1>o, ZenonT(30) DEF Answer, DropKinds, o
    <2>2. Faulty(c) = {<<o, "lock">>, <<o, "hard">>, <<o, "conn">>, <<Answer(c)[1], "conn">>}
        BY <1>4, ZenonT(30) DEF Faulty, o
    <2>3. Answer(c)[1] \in Objects
        BY <2>1, <1>o, SMTT(30) DEF Objects
    <2> QED
        BY <1>4, <1>o, <2>1, <2>2, <2>3, SMTT(30) DEF Goal, DropKinds, Errors, Objects
  <1> QED
      BY <1>k, <1>1, <1>2, <1>3, <1>4, ZenonT(30)

LEMMA RewriteDoes ==
    ASSUME Types, NEW c \in Controllers, rewritePhase(c)
    PROVE  LET t == tab[mem[c].set][loc[c].key] IN
           /\ pc[c] = "exec" /\ kind = "rewrite" /\ row' = row /\ obj' = obj /\ mem'[c] = mem[c]
           /\ pass' = pass /\ handover' = handover /\ pc'[c] = "after"
           /\ \E a \in {PhaseAnswer(t, loc[c].phase)} \cup PhaseFaulty(t, loc[c].phase) :
                /\ tab' = [tab EXCEPT ![mem[c].set][loc[c].key] = a[1]]
                /\ loc'[c] = [loc[c] EXCEPT !.err = a[2]]
  BY Own, ZenonT(30) DEF rewritePhase

(* What a phase leaves of a table of which the steps before it are true. *)
LEMMA Phases ==
    ASSUME NEW t \in Tables, NEW p \in rewriteAdd .. rewriteValidate, NEW a \in {PhaseAnswer(t, p)} \cup PhaseFaulty(t, p)
    PROVE  /\ a[1] \in Tables /\ a[2] \in Errors /\ a[2] # "skip"
           /\ StepTrue(p, t) => StepTrue(p, a[1])
           /\ StepTrue(p, t) /\ a[2] = "none" => StepTrue(p + 1, a[1])
           /\ StepTrue(p, t) /\ (t.col = "new" => t.full) /\ a[1].col = "new" => a[1].full
  <1> USE DEF rewriteAdd, rewriteTrigger, rewriteBackfill, rewriteCutover, rewriteValidate
  <1> DEFINE added == [t EXCEPT !.col = "both"]
             guarded == [t EXCEPT !.trig = TRUE]
             filled == [t EXCEPT !.full = TRUE]
             cut == [t EXCEPT !.col = "new", !.trig = FALSE]
             bare == [t EXCEPT !.trig = FALSE]
             g == PhaseAnswer(t, p)
  <1>p. p \in {0, 1, 2, 3, 4}
      OBVIOUS
  <1>t. {added, guarded, filled, cut, bare} \subseteq Tables
      BY ZenonT(30) DEF Tables
  <1>u. /\ added.col = "both"
        /\ guarded.col = t.col /\ guarded.trig /\ (guarded.full <=> t.full)
        /\ filled.col = t.col /\ (filled.trig <=> t.trig) /\ filled.full
        /\ cut.col = "new" /\ (cut.full <=> t.full)
        /\ bare.col = t.col /\ (bare.full <=> t.full)
      BY ZenonT(30) DEF Tables
  <1>v. /\ p = 0 => g = <<added, "none">>
        /\ p = 1 => g[1] = guarded /\ g[2] = "none"
        /\ p = 2 => g = IF t.col = "both" THEN <<filled, "none">> ELSE <<t, "hard">>
        /\ p = 3 => g = IF t.col = "both" THEN <<cut, "none">> ELSE <<t, "none">>
        /\ p = 4 => g = <<t, "none">>
    <2> HIDE DEF added, guarded, filled, cut
    <2>0. PhaseAnswer(t, 0) = <<added, "none">>
        BY SMTT(30) DEF PhaseAnswer, added
    <2>1. PhaseAnswer(t, 1)[1] = guarded /\ PhaseAnswer(t, 1)[2] = "none"
        BY SMTT(30) DEF PhaseAnswer, guarded
    <2>2. /\ PhaseAnswer(t, 2) = IF t.col = "both" THEN <<filled, "none">> ELSE <<t, "hard">>
          /\ PhaseAnswer(t, 3) = IF t.col = "both" THEN <<cut, "none">> ELSE <<t, "none">>
        BY SMTT(30) DEF PhaseAnswer, filled, cut
    <2>4. PhaseAnswer(t, 4) = <<t, "none">>
        BY SMTT(30) DEF PhaseAnswer
    <2> QED
        BY <2>0, <2>1, <2>2, <2>4, SMTT(30)
  <1>f. \/ a = g
        \/ a \in {<<t, "lock">>, <<t, "hard">>, <<t, "conn">>, <<g[1], "conn">>}
        \/ p = 1 /\ \E e \in {"lock", "hard", "conn"} : a = <<bare, e>>
    <2> HIDE DEF g, bare
    <2>1. PhaseFaulty(t, p) = {<<t, "lock">>, <<t, "hard">>, <<t, "conn">>, <<g[1], "conn">>}
                                 \cup IF p = 1 THEN {<<bare, e>> : e \in {"lock", "hard", "conn"}} ELSE {}
        BY ZenonT(30) DEF PhaseFaulty, g, bare
    <2>2. CASE p = 1
        BY <2>1, <2>2, ZenonT(30) DEF g
    <2>3. CASE p # 1
        BY <2>1, <2>3, ZenonT(30) DEF g
    <2> QED
        BY <2>2, <2>3, ZenonT(30)
  <1> HIDE DEF added, guarded, filled, cut, bare, g
  <1>g. g[1] \in Tables /\ g[2] \in {"none", "hard"}
      BY <1>p, <1>t, <1>v, SMTT(30)
  <1>1. a[1] \in Tables /\ a[2] \in Errors /\ a[2] # "skip"
      BY <1>f, <1>g, <1>t, SMTT(30) DEF Errors
  <1>2. StepTrue(p, t) => StepTrue(p, g[1]) /\ (g[2] = "none" => StepTrue(p + 1, g[1]))
    <2>1. CASE p = 0
        BY <2>1, <1>v, <1>u, SMTT(30) DEF StepTrue
    <2>2. CASE p = 1
        BY <2>2, <1>v, <1>u, SMTT(30) DEF StepTrue
    <2>3. CASE p = 2
        BY <2>3, <1>v, <1>u, SMTT(30) DEF StepTrue
    <2>4. CASE p \in {3, 4}
        BY <2>4, <1>v, <1>u, SMTT(30) DEF StepTrue
    <2> QED
        BY <1>p, <2>1, <2>2, <2>3, <2>4, ZenonT(30)
  <1>3. p = 1 /\ StepTrue(p, t) => StepTrue(p, bare)
      BY <1>u, SMTT(30) DEF StepTrue
  <1>4. StepTrue(p, t) /\ (t.col = "new" => t.full) => (g[1].col = "new" => g[1].full)
    <2>1. CASE p = 0
        BY <2>1, <1>v, <1>u, SMTT(30)
    <2>2. CASE p \in {1, 2, 4}
        BY <2>2, <1>v, <1>u, SMTT(30)
    <2>3. CASE p = 3
        BY <2>3, <1>v, <1>u, SMTT(30) DEF StepTrue
    <2> QED
        BY <1>p, <2>1, <2>2, <2>3, ZenonT(30)
  <1>5. StepTrue(p, t) => StepTrue(p, a[1]) /\ (a[2] = "none" => StepTrue(p + 1, a[1]))
      BY <1>2, <1>3, <1>f, SMTT(30)
  <1>6. StepTrue(p, t) /\ (t.col = "new" => t.full) => (a[1].col = "new" => a[1].full)
      BY <1>4, <1>f, <1>u, SMTT(30)
  <1> QED
      BY <1>1, <1>5, <1>6, ZenonT(30)

LEMMA EntryOnlyTwice ==
    ASSUME NEW r, NEW q, NEW p, NEW k, EntryOnly(r, q, k), EntryOnly(q, p, k)
    PROVE  EntryOnly(r, p, k)
  BY ZenonT(30) DEF EntryOnly

LEMMA RanOnly ==
    ASSUME NEW r, Planned(r), NEW k \in Keys, NEW b \in BOOLEAN
    PROVE  EntryOnly(r, [r EXCEPT !.per[k].ran = @ \/ b], k)
  <1> DEFINE e == [r.per[k] EXCEPT !.ran = @ \/ b]
             per == [r.per EXCEPT ![k] = e]
             q == [r EXCEPT !.per = per]
  <1>1. r.per[k] \in Entry
      BY ZenonT(30) DEF Planned
  <1>2. e \in Entry /\ e.step = r.per[k].step
      BY <1>1, ZenonT(30) DEF Entry
  <1>3. [r EXCEPT !.per[k].ran = @ \/ b] = q
      BY ZenonT(30)
  <1> HIDE DEF e
  <1>4. per \in [Keys -> Entry] /\ per[k] = e /\ \A j \in Keys : j # k => per[j] = r.per[j]
      BY <1>2, ZenonT(30) DEF Planned
  <1> HIDE DEF per
  <1>5. q \in Rows /\ q.per = per /\ q.state = r.state /\ q.set = r.set /\ q.settled = r.settled /\ q.degraded = r.degraded
      BY <1>4, ZenonT(30) DEF Planned, Rows
  <1> HIDE DEF q
  <1> QED
      BY <1>2, <1>3, <1>4, <1>5, ZenonT(30) DEF EntryOnly, Planned

LEMMA AfterDoes ==
    ASSUME Types, NEW c \in Controllers, After(c)
    PROVE  LET k == loc[c].key
               err == loc[c].err
               to == mem'[c].per[k].state
           IN /\ pc[c] = "after" /\ obj' = obj /\ tab' = tab /\ pass' = pass /\ handover' = handover
              /\ EntryOnly(mem[c], mem'[c], k) /\ SamePlace(loc[c], loc'[c])
              /\ \/ /\ pc'[c] = "record" /\ row' = row
                    /\ \/ err = "none" /\ to = "applied"
                       \/ err = "skip" /\ to = "skipped"
                       \/ err \notin {"none", "skip"} /\ to = "failed"
                 \/ /\ to = "retrying" /\ err \notin {"none", "skip"}
                    /\ pc'[c] = IF Fenced(c) THEN "record" ELSE "sleep"
                    /\ row' = row \/ row' = Saved(c, mem'[c])
  <1> DEFINE k == loc[c].key
             err == loc[c].err
             b == err # "none" /\ mayHaveRun(err)
             ran == [mem[c] EXCEPT !.per[k].ran = @ \/ b]
             place == [loc[c] EXCEPT !.tries = @ + 1, !.err = "none", !.resumed = @ \/ mayHaveRun(err)]
  <1>1. pc[c] = "after" /\ obj' = obj /\ tab' = tab /\ pass' = pass /\ handover' = handover
      BY ZenonT(30) DEF After
  <1>2. Planned(mem[c]) /\ k \in Keys /\ loc[c] \in Places
      BY <1>1, Own, ZenonT(30) DEF PassTypes, Driving, Attempting
  <1>3. EntryOnly(mem[c], ran, k)
    <2>1. b \in BOOLEAN
        BY ZenonT(30)
    <2> HIDE DEF b
    <2> QED
        BY <1>2, <2>1, RanOnly, ZenonT(30)
  <1>4. \A s \in {"applied", "skipped", "failed", "retrying"} :
           EntryOnly(mem[c], WithState(ran, k, s), k) /\ WithState(ran, k, s).per[k].state = s
    <2>1. Planned(ran)
        BY <1>3, ZenonT(30) DEF EntryOnly
    <2> HIDE DEF ran
    <2>2. \A s \in {"applied", "skipped", "failed", "retrying"} :
             EntryOnly(ran, WithState(ran, k, s), k) /\ WithState(ran, k, s).per[k].state = s
        BY <2>1, <1>2, WithStateOnly, SMTT(30)
    <2> QED
        BY <2>2, <1>3, EntryOnlyTwice, ZenonT(30)
  <1>5. SamePlace(loc[c], place) /\ SamePlace(loc[c], loc[c])
    <2>1. mayHaveRun(err) \in BOOLEAN
        BY ZenonT(30) DEF mayHaveRun
    <2> DEFINE y == loc[c].resumed \/ mayHaveRun(err)
               q == [loc[c] EXCEPT !.tries = @ + 1, !.err = "none", !.resumed = y]
    <2>2. y \in BOOLEAN
        BY <2>1, ZenonT(30)
    <2>3. place = q
        BY ZenonT(30)
    <2> HIDE DEF y, place
    <2>4. q \in Places /\ q.key = loc[c].key /\ q.phase = loc[c].phase
      <3> DEFINE q1 == [loc[c] EXCEPT !.tries = @ + 1]
                 q2 == [q1 EXCEPT !.err = "none"]
                 q3 == [q2 EXCEPT !.resumed = y]
      <3>1. q1 \in Places /\ q1.key = loc[c].key /\ q1.phase = loc[c].phase
          BY <1>2, SMTT(30) DEF Places
      <3>2. q2 \in Places /\ q2.key = q1.key /\ q2.phase = q1.phase
        <4> HIDE DEF q1
        <4> QED
            BY <3>1, ZenonT(30) DEF Places, Errors
      <3>3. q3 \in Places /\ q3.key = q2.key /\ q3.phase = q2.phase
        <4> HIDE DEF q2
        <4> QED
            BY <3>2, <2>2, ZenonT(30) DEF Places
      <3>4. q = q3
          BY ZenonT(30)
      <3> HIDE DEF q, q1, q2, q3
      <3> QED
          BY <3>1, <3>2, <3>3, <3>4, ZenonT(30)
    <2> QED
        BY <2>3, <2>4, <1>2, ZenonT(30) DEF SamePlace
  <1>6. \/ err = "none" /\ Return(c, WithState(ran, k, "applied"))
        \/ err = "skip" /\ Return(c, WithState(ran, k, "skipped"))
        \/ (err = "hard" \/ transient(err)) /\ Return(c, WithState(ran, k, "failed"))
        \/ /\ transient(err) /\ SetMem(c, WithState(ran, k, "retrying"))
           /\ row' = Saved(c, WithState(ran, k, "retrying")) \/ UNCHANGED row
           /\ Goto(c, IF Fenced(c) THEN "record" ELSE "sleep")
           /\ SetLoc(c, place)
      BY ZenonT(30) DEF After
  <1> HIDE DEF ran, place
  <1>7. transient(err) => err \notin {"none", "skip"}
      BY ZenonT(30) DEF transient
  <1> HIDE DEF b, k, err
  <1>8. CASE err = "none" /\ Return(c, WithState(ran, k, "applied"))
      BY <1>1, <1>4, <1>5, <1>8, Own, ZenonT(30) DEF Return, k, err
  <1>9. CASE err = "skip" /\ Return(c, WithState(ran, k, "skipped"))
      BY <1>1, <1>4, <1>5, <1>9, Own, ZenonT(30) DEF Return, k, err
  <1>10. CASE (err = "hard" \/ transient(err)) /\ Return(c, WithState(ran, k, "failed"))
      BY <1>1, <1>4, <1>5, <1>7, <1>10, Own, ZenonT(30) DEF Return, k, err
  <1>11. CASE /\ transient(err) /\ SetMem(c, WithState(ran, k, "retrying"))
              /\ row' = Saved(c, WithState(ran, k, "retrying")) \/ UNCHANGED row
              /\ Goto(c, IF Fenced(c) THEN "record" ELSE "sleep")
              /\ SetLoc(c, place)
      BY <1>1, <1>4, <1>5, <1>7, <1>11, Own, ZenonT(30) DEF k, err
  <1> QED
      BY <1>6, <1>8, <1>9, <1>10, <1>11, ZenonT(30)

(* The entry that the write after a step holds. *)
NextEntry(c, e) ==
    LET was == mem[c].per[loc[c].key] IN
    /\ e.state = IF kind = "rewrite" /\ was.state = "applied" /\ loc[c].phase < rewriteValidate
                 THEN "running" ELSE was.state
    /\ kind = "rewrite" => e.step = IF was.state = "failed" THEN was.step ELSE loc[c].phase + 1

LEMMA RecordDoes ==
    ASSUME Types, NEW c \in Controllers, Record(c)
    PROVE  /\ pc[c] = "record" /\ obj' = obj /\ tab' = tab /\ pass' = pass /\ handover' = handover
           /\ \E r :
                /\ Planned(r) /\ r.state = mem[c].state /\ r.set = mem[c].set
                /\ \A j \in Keys : j # loc[c].key => r.per[j] = mem[c].per[j]
                /\ NextEntry(c, r.per[loc[c].key])
                /\ row' = Saved(c, r) \/ (StepsLeft(c) /\ row' = row)
                /\ Fenced(c) => OverNow(c)
                /\ ~Fenced(c) =>
                     /\ mem'[c] = r
                     /\ kind = "rewrite" =>
                          /\ pc'[c] = IF mem[c].per[loc[c].key].state = "failed" THEN "probe" ELSE "phase"
                          /\ loc'[c] \in Places
                          /\ IF loc[c].key < NumShards
                             THEN loc'[c].key = loc[c].key + 1 /\ loc'[c].phase = loc[c].phase
                             ELSE loc'[c].key = 1 /\ loc'[c].phase = loc[c].phase + 1
                     /\ kind # "rewrite" /\ StepsLeft(c) => pc'[c] = "mark" /\ loc'[c] = [Idle EXCEPT !.key = loc[c].key]
                     /\ kind # "rewrite" /\ ~StepsLeft(c) => pc'[c] = "next" /\ loc'[c] = [Idle EXCEPT !.key = loc[c].key + 1]
  <1> DEFINE k == loc[c].key
             e == mem[c].per[k]
             turned == [e EXCEPT !.state = IF @ = "applied" /\ loc[c].phase < rewriteValidate THEN "running" ELSE @,
                                 !.step = IF e.state = "failed" THEN @ ELSE loc[c].phase + 1]
             counted == [e EXCEPT !.step = IF kind = "multistep" /\ e.state = "applied" THEN @ + 1 ELSE @]
             next == IF kind = "rewrite" THEN turned ELSE counted
             r == [mem[c] EXCEPT !.per[k] = next]
  <1>1. pc[c] = "record" /\ obj' = obj /\ tab' = tab /\ pass' = pass /\ handover' = handover
      BY ZenonT(30) DEF Record
  <1>2. Planned(mem[c]) /\ k \in Keys /\ loc[c] \in Places
      BY <1>1, Own, ZenonT(30) DEF PassTypes, Driving
  <1>3. e \in Entry /\ loc[c].phase \in Nat
      BY <1>2, ZenonT(30) DEF Planned, Places
  <1>4. turned \in Entry /\ counted \in Entry /\ counted.state = e.state
        /\ turned.state = (IF e.state = "applied" /\ loc[c].phase < rewriteValidate THEN "running" ELSE e.state)
        /\ turned.step = (IF e.state = "failed" THEN e.step ELSE loc[c].phase + 1)
    <2> HIDE DEF e
    <2>1. counted \in Entry /\ counted.state = e.state
        BY <1>3, SMTT(30) DEF Entry
    <2> DEFINE one == [e EXCEPT !.state = IF @ = "applied" /\ loc[c].phase < rewriteValidate THEN "running" ELSE @]
               two == [one EXCEPT !.step = IF e.state = "failed" THEN e.step ELSE loc[c].phase + 1]
    <2>2. one \in Entry /\ one.state = (IF e.state = "applied" /\ loc[c].phase < rewriteValidate THEN "running" ELSE e.state)
        BY <1>3, ZenonT(30) DEF Entry
    <2>3. two \in Entry /\ two.state = one.state /\ two.step = (IF e.state = "failed" THEN e.step ELSE loc[c].phase + 1)
      <3> HIDE DEF one
      <3> QED
          BY <2>2, <1>3, SMTT(30) DEF Entry
    <2>4. turned = two
        BY <1>3, ZenonT(30) DEF Entry
    <2> HIDE DEF turned, two, one, counted
    <2> QED
        BY <2>1, <2>2, <2>3, <2>4, ZenonT(30)
  <1>5. next \in Entry /\ NextEntry(c, next)
    <2> HIDE DEF turned, counted
    <2> QED
        BY <1>4, ZenonT(30) DEF NextEntry
  <1> HIDE DEF next, turned, counted
  <1>6. Planned(r) /\ r.state = mem[c].state /\ r.set = mem[c].set /\ r.per[k] = next
        /\ \A j \in Keys : j # k => r.per[j] = mem[c].per[j]
    <2> DEFINE per == [mem[c].per EXCEPT ![k] = next]
    <2>1. per \in [Keys -> Entry] /\ per[k] = next /\ \A j \in Keys : j # k => per[j] = mem[c].per[j]
        BY <1>2, <1>5, ZenonT(30) DEF Planned
    <2>2. r = [mem[c] EXCEPT !.per = per]
        BY ZenonT(30)
    <2> HIDE DEF per, r
    <2>3. r \in Rows /\ r.state = mem[c].state /\ r.set = mem[c].set /\ r.per = per
        BY <2>1, <2>2, <1>2, ZenonT(30) DEF Planned, Rows
    <2> QED
        BY <2>1, <2>3, <1>2, ZenonT(30) DEF Planned
  <1>7. /\ row' = Saved(c, r) \/ (StepsLeft(c) /\ row' = row)
        /\ Fenced(c) => EndPass(c)
        /\ ~Fenced(c) =>
             /\ SetMem(c, r)
             /\ kind = "rewrite" =>
                  /\ Goto(c, IF e.state = "failed" THEN "probe" ELSE "phase")
                  /\ SetLoc(c, IF k < NumShards THEN [loc[c] EXCEPT !.key = k + 1]
                               ELSE [loc[c] EXCEPT !.key = 1, !.phase = @ + 1])
             /\ kind # "rewrite" /\ StepsLeft(c) => Goto(c, "mark") /\ SetLoc(c, [Idle EXCEPT !.key = k])
             /\ kind # "rewrite" /\ ~StepsLeft(c) => Goto(c, "next") /\ SetLoc(c, [Idle EXCEPT !.key = k + 1])
      BY ZenonT(30) DEF Record, next, turned, counted
  <1>8. /\ [loc[c] EXCEPT !.key = k + 1] \in Places
        /\ [loc[c] EXCEPT !.key = k + 1].key = k + 1 /\ [loc[c] EXCEPT !.key = k + 1].phase = loc[c].phase
        /\ [loc[c] EXCEPT !.key = 1, !.phase = @ + 1] \in Places
        /\ [loc[c] EXCEPT !.key = 1, !.phase = @ + 1].key = 1
        /\ [loc[c] EXCEPT !.key = 1, !.phase = @ + 1].phase = loc[c].phase + 1
    <2>1. /\ [loc[c] EXCEPT !.key = k + 1] \in Places
          /\ [loc[c] EXCEPT !.key = k + 1].key = k + 1 /\ [loc[c] EXCEPT !.key = k + 1].phase = loc[c].phase
        BY <1>2, SMTT(30) DEF Places
    <2> DEFINE one == [loc[c] EXCEPT !.key = 1]
               two == [one EXCEPT !.phase = loc[c].phase + 1]
    <2>2. one \in Places /\ one.key = 1 /\ one.phase = loc[c].phase
        BY <1>2, ZenonT(30) DEF Places
    <2>3. two \in Places /\ two.key = 1 /\ two.phase = loc[c].phase + 1
      <3> HIDE DEF one
      <3> QED
          BY <2>2, <1>3, SMTT(30) DEF Places
    <2>4. [loc[c] EXCEPT !.key = 1, !.phase = @ + 1] = two
        BY ZenonT(30)
    <2> HIDE DEF one, two
    <2> QED
        BY <2>1, <2>3, <2>4, ZenonT(30)
  <1> HIDE DEF r, k, e
  <1>9. Fenced(c) => OverNow(c)
      BY <1>7, PassEnds, ZenonT(30)
  <1>10. ~Fenced(c) =>
            /\ mem'[c] = r
            /\ kind = "rewrite" =>
                 /\ pc'[c] = IF e.state = "failed" THEN "probe" ELSE "phase"
                 /\ loc'[c] = IF k < NumShards THEN [loc[c] EXCEPT !.key = k + 1] ELSE [loc[c] EXCEPT !.key = 1, !.phase = @ + 1]
            /\ kind # "rewrite" /\ StepsLeft(c) => pc'[c] = "mark" /\ loc'[c] = [Idle EXCEPT !.key = k]
            /\ kind # "rewrite" /\ ~StepsLeft(c) => pc'[c] = "next" /\ loc'[c] = [Idle EXCEPT !.key = k + 1]
      BY <1>7, Own, ZenonT(30)
  <1>11. ~Fenced(c) /\ kind = "rewrite" =>
            /\ loc'[c] \in Places
            /\ IF k < NumShards THEN loc'[c].key = k + 1 /\ loc'[c].phase = loc[c].phase
               ELSE loc'[c].key = 1 /\ loc'[c].phase = loc[c].phase + 1
      BY <1>8, <1>10, ZenonT(30)
  <1> QED
      BY <1>1, <1>5, <1>6, <1>7, <1>9, <1>10, <1>11, ZenonT(30) DEF k, e

LEMMA TickDoes ==
    ASSUME Types, NEW c \in Controllers, Tick(c)
    PROVE  /\ pc[c] = "idle" /\ published[c] # 0 /\ pc'[c] = "tick" /\ mem'[c] = mem[c] /\ loc'[c] = loc[c]
           /\ row' = row /\ obj' = obj /\ tab' = tab /\ pass' = pass /\ handover' = handover
  BY Own, ZenonT(30) DEF Tick

LEMMA RunOnceDoes ==
    ASSUME Types, NEW c \in Controllers, RunOnce(c)
    PROVE  /\ pc[c] = "tick" /\ loc'[c] = loc[c] /\ row' = row /\ obj' = obj /\ tab' = tab
           /\ pass' = [pass EXCEPT ![c] = published[c]]
           /\ handover' = IF published[c] = 0 THEN "unstamped" ELSE handover
           /\ \/ row.state \in {"queued", "running"} /\ mem'[c] = row /\ pc'[c] = "drive"
              \/ row.state \notin {"queued", "running"} /\ mem'[c] = mem[c] /\ pc'[c] = "sweep"
  BY Own, ZenonT(30) DEF RunOnce

LEMMA SweepDoes ==
    ASSUME Types, NEW c \in Controllers, SweepRewriteArtifacts(c)
    PROVE  /\ pc[c] = "sweep" /\ loc[c].key \in Shards
           /\ row' = row /\ obj' = obj /\ pass' = pass /\ handover' = handover
           /\ tab' = tab \/ tab' = [tab EXCEPT ![serving][loc[c].key] = Swept(tab[serving][loc[c].key])]
           /\ \/ OverNow(c)
              \/ pc'[c] = "sweep" /\ mem'[c] = mem[c] /\ loc'[c] \in Places /\ loc'[c].key \in Shards
  <1> DEFINE k == loc[c].key
             l == [loc[c] EXCEPT !.key = k + 1]
  <1>1. pc[c] = "sweep" /\ row' = row /\ obj' = obj /\ pass' = pass /\ handover' = handover
      BY ZenonT(30) DEF SweepRewriteArtifacts
  <1>2. k \in Shards /\ loc[c] \in Places
      BY <1>1, Own, ZenonT(30) DEF PassTypes
  <1>3. k # NumShards => l \in Places /\ l.key \in Shards
    <2>1. l \in Places /\ l.key = k + 1
        BY <1>2, SMTT(30) DEF Places
    <2> QED
        BY <1>2, <2>1, ApplierConstants, SMTT(30) DEF Shards
  <1>4. /\ tab' = tab \/ tab' = [tab EXCEPT ![serving][k] = Swept(tab[serving][k])]
        /\ EndPass(c) \/ (k # NumShards /\ SetLoc(c, l) /\ UNCHANGED <<pc, mem>>)
      BY ZenonT(30) DEF SweepRewriteArtifacts
  <1> HIDE DEF k, l
  <1>5. OverNow(c) \/ (k # NumShards /\ loc'[c] = l /\ pc'[c] = pc[c] /\ mem'[c] = mem[c])
      BY <1>4, PassEnds, Own, ZenonT(30)
  <1> QED
      BY <1>1, <1>2, <1>3, <1>4, <1>5, ZenonT(30) DEF k

(* The row of a migration planned afresh over the serving set. *)
Fresh(r) ==
    /\ Planned(r) /\ r.per = [k \in Keys |-> Pending] /\ r.state = "running" /\ r.set = serving

LEMMA DriveDoes ==
    ASSUME Types, NEW c \in Controllers, drive(c)
    PROVE  LET m == mem[c]
               straddled == m.state = "running" /\ m.set # serving
           IN /\ pc[c] = "drive" /\ obj' = obj /\ tab' = tab /\ pass' = pass /\ handover' = handover
              /\ \/ /\ OverNow(c) /\ (m.state = "queued" \/ straddled)
                    /\ \E r \in Rows : /\ r.state = "failed" /\ r.set = m.set /\ r.per = m.per /\ (r.degraded <=> straddled)
                                       /\ row' = Saved(c, r)
                 \/ /\ m.state = "queued" \/ straddled
                    /\ row' = row /\ pc'[c] = "start" /\ loc'[c] = Idle /\ Fresh(mem'[c])
                 \/ /\ m.state = "running" /\ m.set = serving
                    /\ row' = row /\ mem'[c] = m /\ loc'[c] = Idle
                    /\ pc'[c] = IF kind = "rewrite" THEN "columns" ELSE "next"
  <1> DEFINE m == mem[c]
             straddled == m.state = "running" /\ m.set # serving
             r == [m EXCEPT !.state = "failed", !.degraded = straddled]
             per == [k \in Keys |-> Pending]
             q == [m EXCEPT !.state = "running", !.set = serving, !.per = per]
  <1>1. pc[c] = "drive" /\ obj' = obj /\ tab' = tab /\ pass' = pass /\ handover' = handover
      BY ZenonT(30) DEF drive
  <1>2. m \in Rows /\ loc[c] = Idle /\ m.state \in {"queued", "running"}
      BY <1>1, Own, ZenonT(30) DEF PassTypes
  <1>3. r \in Rows /\ r.state = "failed" /\ r.set = m.set /\ r.per = m.per /\ (r.degraded <=> straddled)
    <2> DEFINE r1 == [m EXCEPT !.state = "failed"]
               r2 == [r1 EXCEPT !.degraded = straddled]
    <2>1. r1 \in Rows /\ r1.state = "failed" /\ r1.set = m.set /\ r1.per = m.per
        BY <1>2, ZenonT(30) DEF Rows
    <2>2. straddled \in BOOLEAN
        BY ZenonT(30)
    <2>3. r = r2
        BY ZenonT(30)
    <2> HIDE DEF straddled, r1, m
    <2>4. r2 \in Rows /\ r2.state = r1.state /\ r2.set = r1.set /\ r2.per = r1.per /\ (r2.degraded <=> straddled)
        BY <2>1, <2>2, ZenonT(30) DEF Rows
    <2> HIDE DEF r, r2
    <2> QED
        BY <2>1, <2>3, <2>4, ZenonT(30)
  <1>4. Fresh(q)
    <2>1. per \in [Keys -> Entry] /\ serving \in Nat \ {0}
        BY Blank, ZenonT(30) DEF Types, DataTypes
    <2> HIDE DEF per, m
    <2> DEFINE q1 == [m EXCEPT !.state = "running"]
               q2 == [q1 EXCEPT !.set = serving]
               q3 == [q2 EXCEPT !.per = per]
    <2>2. q1 \in Rows /\ q1.state = "running"
        BY <1>2, ZenonT(30) DEF Rows
    <2>3. q2 \in Rows /\ q2.state = "running" /\ q2.set = serving
      <3> HIDE DEF q1
      <3> QED
          BY <2>1, <2>2, ZenonT(30) DEF Rows
    <2>4. q3 \in Rows /\ q3.state = "running" /\ q3.set = serving /\ q3.per = per
      <3> HIDE DEF q2
      <3> QED
          BY <2>1, <2>3, ZenonT(30) DEF Rows
    <2>5. q = q3
        BY ZenonT(30)
    <2> HIDE DEF q, q1, q2, q3
    <2> QED
        BY <2>1, <2>4, <2>5, SMTT(30) DEF Fresh, Planned, per
  <1>5. \/ (m.state = "queued" \/ straddled) /\ row' = Saved(c, r) /\ EndPass(c)
        \/ (m.state = "queued" \/ straddled) /\ SetMem(c, q) /\ Goto(c, "start") /\ UNCHANGED <<row, loc>>
        \/ /\ ~(m.state = "queued" \/ straddled) /\ Goto(c, IF kind = "rewrite" THEN "columns" ELSE "next")
           /\ UNCHANGED <<row, loc, mem>>
      BY ZenonT(30) DEF drive
  <1> HIDE DEF r, q, per
  <1>6. CASE (m.state = "queued" \/ straddled) /\ row' = Saved(c, r) /\ EndPass(c)
      BY <1>1, <1>3, <1>6, PassEnds, ZenonT(30)
  <1>7. CASE (m.state = "queued" \/ straddled) /\ SetMem(c, q) /\ Goto(c, "start") /\ UNCHANGED <<row, loc>>
    <2>1. mem'[c] = q /\ pc'[c] = "start" /\ row' = row /\ loc'[c] = Idle
        BY <1>2, <1>7, Own, ZenonT(30)
    <2> QED
        BY <1>1, <1>4, <1>7, <2>1, ZenonT(30)
  <1>8. CASE /\ ~(m.state = "queued" \/ straddled) /\ Goto(c, IF kind = "rewrite" THEN "columns" ELSE "next")
             /\ UNCHANGED <<row, loc, mem>>
      BY <1>1, <1>2, <1>8, Own, ZenonT(30)
  <1> QED
      BY <1>5, <1>6, <1>7, <1>8, ZenonT(30)

LEMMA StartDoes ==
    ASSUME Types, NEW c \in Controllers, Start(c)
    PROVE  /\ pc[c] = "start" /\ obj' = obj /\ tab' = tab /\ pass' = pass /\ handover' = handover
           /\ \/ OverNow(c) /\ row' = row
              \/ /\ ~Fenced(c) /\ ~Held(mem[c]) /\ row' = Saved(c, mem[c]) /\ mem'[c] = mem[c] /\ loc'[c] = Idle
                 /\ pc'[c] = IF kind = "rewrite" THEN "columns" ELSE "next"
  <1>1. pc[c] = "start" /\ obj' = obj /\ tab' = tab /\ pass' = pass /\ handover' = handover
      BY ZenonT(30) DEF Start
  <1>2. loc[c] = Idle
      BY <1>1, Own, ZenonT(30) DEF PassTypes
  <1>3. CASE Fenced(c) \/ Held(mem[c])
      BY <1>1, <1>3, PassEnds, ZenonT(30) DEF Start, Saved
  <1>4. CASE ~(Fenced(c) \/ Held(mem[c]))
      BY <1>1, <1>2, <1>4, Own, ZenonT(30) DEF Start
  <1> QED
      BY <1>3, <1>4, ZenonT(30)

LEMMA NextKeyDoes ==
    ASSUME Types, NEW c \in Controllers, NextKey(c)
    PROVE  LET per == mem[c].per
               at == loc'[c].key
           IN /\ pc[c] = "next" /\ kind # "rewrite"
              /\ row' = row /\ obj' = obj /\ tab' = tab /\ pass' = pass /\ handover' = handover
              /\ \/ OverNow(c)
                 \/ /\ pc'[c] = "finish" /\ mem'[c] = mem[c] /\ loc'[c] = loc[c]
                    /\ \A k \in Keys : k >= loc[c].key => per[k].state \in Ended
                 \/ /\ pc'[c] = "finish" /\ loc'[c] = loc[c]
                    /\ catalogKey \in Keys /\ EntryOnly(mem[c], mem'[c], catalogKey)
                    /\ mem'[c].per[catalogKey].state = "failed" /\ per[catalogKey].state \notin Ended
                    /\ \A k \in Keys : k >= loc[c].key /\ k # catalogKey => per[k].state \in Ended
                 \/ /\ pc'[c] = "mark" /\ mem'[c] = mem[c] /\ loc'[c] \in Places
                    /\ at \in Keys /\ at >= loc[c].key /\ per[at].state \notin Ended
                    /\ \A k \in Keys : k >= loc[c].key /\ k < at => per[k].state \in Ended
  <1> DEFINE ahead == {k \in Keys : k >= loc[c].key /\ mem[c].per[k].state \notin Ended}
             resumed(m) == mem[c].per[m].state = "running" \/ (mem[c].per[m].state = "retrying" /\ mem[c].per[m].ran)
             place(m) == [Idle EXCEPT !.key = m, !.resumed = resumed(m)]
             failed(m) == WithState(mem[c], m, "failed")
             First(m) == m \in ahead /\ \A j \in ahead : m <= j
  <1>1. /\ pc[c] = "next"
        /\ row' = row /\ obj' = obj /\ tab' = tab /\ pass' = pass /\ handover' = handover
      BY ZenonT(30) DEF NextKey
  <1>2. Planned(mem[c]) /\ kind # "rewrite" /\ loc[c] \in Places
      BY <1>1, Own, ZenonT(30) DEF PassTypes, Driving
  <1>3. ASSUME NEW m, First(m)
        PROVE  /\ m \in Keys /\ m >= loc[c].key /\ mem[c].per[m].state \notin Ended
               /\ \A k \in Keys : k >= loc[c].key /\ mem[c].per[k].state \notin Ended => m <= k
      BY <1>3, ZenonT(30)
  <1>4. ASSUME NEW m \in Keys PROVE place(m) \in Places /\ place(m).key = m
    <2> DEFINE one == [Idle EXCEPT !.key = m]
               two == [one EXCEPT !.resumed = resumed(m)]
    <2>1. one \in Places /\ one.key = m
        BY Blank, KeySets, ZenonT(30) DEF Idle, Places
    <2>2. resumed(m) \in BOOLEAN
      <3>1. mem[c].per[m] \in Entry
          BY <1>2, ZenonT(30) DEF Planned
      <3> QED
          BY ZenonT(30)
    <2> HIDE DEF resumed, one
    <2>3. two \in Places /\ two.key = m
        BY <2>1, <2>2, ZenonT(30) DEF Places
    <2>4. place(m) = two
        BY ZenonT(30) DEF one
    <2> QED
        BY <2>3, <2>4, ZenonT(30)
  <1>5. \/ ahead = {} /\ Goto(c, "finish") /\ UNCHANGED <<mem, loc>>
        \/ \E m : First(m) /\ m = catalogKey /\ SetMem(c, failed(m)) /\ Goto(c, "finish") /\ UNCHANGED loc
        \/ EndPass(c)
        \/ \E m : First(m) /\ SetLoc(c, place(m)) /\ Goto(c, "mark") /\ UNCHANGED mem
      BY ZenonT(30) DEF NextKey
  <1>6. ASSUME NEW m \in Keys PROVE EntryOnly(mem[c], failed(m), m) /\ failed(m).per[m].state = "failed"
      BY <1>2, WithStateOnly, ZenonT(30)
  <1> HIDE DEF place, failed
  <1>7. CASE ahead = {} /\ Goto(c, "finish") /\ UNCHANGED <<mem, loc>>
      BY <1>1, <1>2, <1>7, Own, ZenonT(30)
  <1>8. CASE \E m : First(m) /\ m = catalogKey /\ SetMem(c, failed(m)) /\ Goto(c, "finish") /\ UNCHANGED loc
    <2> PICK m : First(m) /\ m = catalogKey /\ SetMem(c, failed(m)) /\ Goto(c, "finish") /\ UNCHANGED loc
        BY <1>8, Zenon
    <2>1. /\ m \in Keys /\ m = catalogKey /\ mem[c].per[m].state \notin Ended
          /\ \A k \in Keys : k >= loc[c].key /\ mem[c].per[k].state \notin Ended => m <= k
        BY <1>3, ZenonT(30)
    <2>2. pc'[c] = "finish" /\ mem'[c] = failed(m) /\ loc'[c] = loc[c]
        BY Own, ZenonT(30)
    <2> HIDE DEF ahead, First
    <2>3. \A k \in Keys : k >= loc[c].key /\ k # catalogKey => mem[c].per[k].state \in Ended
        BY <2>1, KeySets, SMTT(30)
    <2> QED
        BY <1>1, <1>2, <1>6, <2>1, <2>2, <2>3, ZenonT(30)
  <1>9. CASE EndPass(c)
      BY <1>1, <1>2, <1>9, PassEnds, ZenonT(30)
  <1>10. CASE \E m : First(m) /\ SetLoc(c, place(m)) /\ Goto(c, "mark") /\ UNCHANGED mem
    <2> PICK m : First(m) /\ SetLoc(c, place(m)) /\ Goto(c, "mark") /\ UNCHANGED mem
        BY <1>10, Zenon
    <2>1. /\ m \in Keys /\ m >= loc[c].key /\ mem[c].per[m].state \notin Ended
          /\ \A k \in Keys : k >= loc[c].key /\ mem[c].per[k].state \notin Ended => m <= k
        BY <1>3, ZenonT(30)
    <2>2. pc'[c] = "mark" /\ mem'[c] = mem[c] /\ loc'[c] = place(m)
        BY Own, ZenonT(30)
    <2> HIDE DEF ahead, First
    <2>3. \A k \in Keys : k >= loc[c].key /\ k < m => mem[c].per[k].state \in Ended
        BY <2>1, KeySets, SMTT(30)
    <2> QED
        BY <1>1, <1>2, <1>4, <2>1, <2>2, <2>3, ZenonT(30)
  <1> HIDE DEF ahead, First
  <1> QED
      BY <1>5, <1>7, <1>8, <1>9, <1>10, ZenonT(30)

LEMMA NextPhaseDoes ==
    ASSUME Types, NEW c \in Controllers, NextPhase(c)
    PROVE  LET per == mem[c].per
               l == loc'[c]
           IN /\ pc[c] = "phase" /\ kind = "rewrite"
              /\ row' = row /\ obj' = obj /\ tab' = tab /\ pass' = pass /\ handover' = handover
              /\ \/ OverNow(c)
                 \/ pc'[c] = "finish" /\ mem'[c] = mem[c] /\ loc'[c] = loc[c]
                 \/ /\ pc'[c] = "mark" /\ mem'[c] = mem[c] /\ l \in Places
                    /\ l.key \in Shards /\ l.phase <= rewriteValidate
                    /\ per[l.key].state # "failed" /\ per[l.key].step <= l.phase
                    /\ Ahead(l.phase, l.key, loc[c])
                    /\ \A p \in rewriteAdd .. rewriteValidate, k \in Shards :
                         Ahead(p, k, loc[c]) /\ per[k].state # "failed" /\ per[k].step <= p => Ahead(p, k, l)
  <1> DEFINE Todo == {w \in (rewriteAdd .. rewriteValidate) \X Shards :
                        /\ w[1] > loc[c].phase \/ (w[1] = loc[c].phase /\ w[2] >= loc[c].key)
                        /\ mem[c].per[w[2]].state # "failed"
                        /\ mem[c].per[w[2]].step <= w[1]}
             First(w) == w \in Todo /\ \A y \in Todo : w[1] < y[1] \/ (w[1] = y[1] /\ w[2] <= y[2])
             place(w) == [Idle EXCEPT !.phase = w[1], !.key = w[2]]
  <1>1. /\ pc[c] = "phase"
        /\ row' = row /\ obj' = obj /\ tab' = tab /\ pass' = pass /\ handover' = handover
      BY ZenonT(30) DEF NextPhase
  <1>2. Planned(mem[c]) /\ kind = "rewrite" /\ loc[c] \in Places
      BY <1>1, Own, ZenonT(30) DEF PassTypes, Driving
  <1>4. \/ Goto(c, "finish") /\ UNCHANGED <<mem, loc>>
        \/ EndPass(c)
        \/ \E w : First(w) /\ SetLoc(c, place(w)) /\ Goto(c, "mark") /\ UNCHANGED mem
      BY Zenon DEF NextPhase
  <1>5. CASE Goto(c, "finish") /\ UNCHANGED <<mem, loc>>
      BY <1>1, <1>2, <1>5, Own, ZenonT(30)
  <1>6. CASE EndPass(c)
      BY <1>1, <1>2, <1>6, PassEnds, ZenonT(30)
  <1>7. CASE \E w : First(w) /\ SetLoc(c, place(w)) /\ Goto(c, "mark") /\ UNCHANGED mem
    <2>0. PICK w : First(w) /\ SetLoc(c, place(w)) /\ Goto(c, "mark") /\ UNCHANGED mem
        BY <1>7, Zenon
    <2>1. /\ w[1] \in rewriteAdd .. rewriteValidate /\ w[2] \in Shards
          /\ w[1] > loc[c].phase \/ (w[1] = loc[c].phase /\ w[2] >= loc[c].key)
          /\ mem[c].per[w[2]].state # "failed" /\ mem[c].per[w[2]].step <= w[1]
        BY <2>0, ZenonT(30)
    <2>n. Shards \subseteq Nat /\ rewriteAdd .. rewriteValidate \subseteq Nat
        BY KeySets, SMTT(30) DEF rewriteAdd, rewriteValidate
    <2>2. ASSUME NEW p \in rewriteAdd .. rewriteValidate, NEW k \in Shards,
                 Ahead(p, k, loc[c]), mem[c].per[k].state # "failed", mem[c].per[k].step <= p
          PROVE  p > w[1] \/ (p = w[1] /\ k >= w[2])
      <3>1. <<p, k>> \in Todo
        <4>1. /\ <<p, k>> \in (rewriteAdd .. rewriteValidate) \X Shards
              /\ <<p, k>>[1] = p /\ <<p, k>>[2] = k
            BY ZenonT(30)
        <4>2. p > loc[c].phase \/ (p = loc[c].phase /\ k >= loc[c].key)
            BY <2>2, ZenonT(30) DEF Ahead
        <4> QED
            BY <4>1, <4>2, <2>2, Zenon
      <3>2. w[1] < p \/ (w[1] = p /\ w[2] <= k)
          BY <3>1, <2>0, ZenonT(30)
      <3>3. w[1] \in Nat /\ w[2] \in Nat /\ p \in Nat /\ k \in Nat
          BY <2>1, <2>n, ZenonT(30)
      <3> HIDE DEF Todo, First, place
      <3> QED
          BY <3>2, <3>3, ZenonT(30)
    <2> HIDE DEF Todo, First
    <2>3. place(w) \in Places /\ place(w).phase = w[1] /\ place(w).key = w[2]
      <3> DEFINE one == [Idle EXCEPT !.phase = w[1]]
                 two == [one EXCEPT !.key = w[2]]
      <3>0. w[1] \in Nat /\ w[2] \in Nat
          BY <2>1, <2>n, ZenonT(30)
      <3>1. one \in Places /\ one.phase = w[1]
          BY <3>0, Blank, ZenonT(30) DEF Places
      <3>2. two \in Places /\ two.phase = w[1] /\ two.key = w[2]
        <4> HIDE DEF one
        <4> QED
            BY <3>0, <3>1, ZenonT(30) DEF Places
      <3>3. place(w) = two
          BY ZenonT(30)
      <3> HIDE DEF place, two
      <3> QED
          BY <3>2, <3>3, ZenonT(30)
    <2> HIDE DEF place
    <2>4. pc'[c] = "mark" /\ mem'[c] = mem[c] /\ loc'[c] = place(w)
        BY <2>0, Own, ZenonT(30)
    <2>5. /\ loc'[c] \in Places /\ loc'[c].phase = w[1] /\ loc'[c].key = w[2] /\ w[1] <= rewriteValidate
          /\ Ahead(w[1], w[2], loc[c])
        BY <2>1, <2>3, <2>4, SMTT(30) DEF Ahead, rewriteAdd, rewriteValidate
    <2>6. ASSUME NEW p \in rewriteAdd .. rewriteValidate, NEW k \in Shards,
                 Ahead(p, k, loc[c]), mem[c].per[k].state # "failed", mem[c].per[k].step <= p
          PROVE  Ahead(p, k, loc'[c])
        BY <2>2, <2>5, <2>6, ZenonT(30) DEF Ahead
    <2> QED
        BY <1>1, <1>2, <2>1, <2>4, <2>5, <2>6, ZenonT(30)
  <1> HIDE DEF Todo, First, place
  <1> QED
      BY <1>4, <1>5, <1>6, <1>7, ZenonT(30)

LEMMA WakeDoes ==
    ASSUME Types, NEW c \in Controllers, Wake(c)
    PROVE  /\ pc[c] = "sleep" /\ mem'[c] = mem[c] /\ loc'[c] = loc[c]
           /\ row' = row /\ obj' = obj /\ tab' = tab /\ pass' = pass /\ handover' = handover
           /\ pc'[c] = IF lostLeadership(c) THEN "record" ELSE "mark"
  BY Own, ZenonT(30) DEF Wake

LEMMA FinishDoes ==
    ASSUME Types, NEW c \in Controllers, Finish(c)
    PROVE  /\ pc[c] = "finish" /\ OverNow(c)
           /\ obj' = obj /\ tab' = tab /\ pass' = pass /\ handover' = handover
           /\ \E r : /\ Planned(r) /\ r.state \in Final /\ r.per = mem[c].per /\ r.set = mem[c].set
                     /\ kind # "rewrite" /\ r.state = "complete" => ~anyFailed(r.per)
                     /\ kind = "rewrite" => r.state = "complete"
                     /\ row' = Saved(c, r)
  <1> DEFINE failed == \/ kind # "rewrite" /\ anyFailed(mem[c].per)
                       \/ kind # "rewrite" /\ \A k \in Keys : mem[c].per[k].state # "applied"
             to == IF failed THEN "failed" ELSE "complete"
             r == [mem[c] EXCEPT !.state = to]
  <1>1. pc[c] = "finish" /\ obj' = obj /\ tab' = tab /\ pass' = pass /\ handover' = handover
        /\ EndPass(c) /\ row' = Saved(c, r)
      BY ZenonT(30) DEF Finish
  <1>2. OverNow(c)
      BY <1>1, PassEnds, ZenonT(30)
  <1>3. Planned(mem[c])
      BY <1>1, Own, ZenonT(30) DEF PassTypes, Driving
  <1>4. /\ to \in Final /\ (kind = "rewrite" => to = "complete")
        /\ kind # "rewrite" /\ to = "complete" => ~anyFailed(mem[c].per)
      BY ZenonT(30) DEF Final
  <1> HIDE DEF to
  <1>5. Planned(r) /\ r.state = to /\ r.per = mem[c].per /\ r.set = mem[c].set
      BY <1>3, <1>4, ZenonT(30) DEF Planned, Rows, Final
  <1> HIDE DEF r
  <1> QED
      BY <1>1, <1>2, <1>4, <1>5, ZenonT(30)

LEMMA ColumnsDoes ==
    ASSUME Types, NEW c \in Controllers, recordRewriteColumns(c)
    PROVE  /\ pc[c] = "columns" /\ pc'[c] \in {"phase", "settle", "probe"} /\ mem'[c] = mem[c] /\ loc'[c] = loc[c]
           /\ row' = row /\ obj' = obj /\ tab' = tab /\ pass' = pass /\ handover' = handover
  BY Own, ZenonT(30) DEF recordRewriteColumns

LEMMA SettleDoes ==
    ASSUME Types, NEW c \in Controllers, settleColumns(c)
    PROVE  /\ pc[c] = "settle" /\ loc'[c] = loc[c]
           /\ obj' = obj /\ tab' = tab /\ pass' = pass /\ handover' = handover
           /\ \/ Fenced(c) /\ pc'[c] = "probe" /\ row' = row /\ mem'[c] = mem[c]
              \/ /\ ~Fenced(c) /\ pc'[c] = "phase"
                 /\ row' \in Rows /\ row'.state = row.state /\ row'.per = row.per /\ row'.degraded = row.degraded
                 /\ row'.set = mem[c].set
                 /\ Planned(mem'[c]) /\ mem'[c].state = mem[c].state /\ mem'[c].per = mem[c].per
                 /\ mem'[c].set = mem[c].set /\ mem'[c].degraded = mem[c].degraded
  <1> DEFINE q == [row EXCEPT !.settled = TRUE, !.set = mem[c].set]
             m == [mem[c] EXCEPT !.settled = TRUE]
  <1>1. pc[c] = "settle" /\ loc' = loc /\ obj' = obj /\ tab' = tab /\ pass' = pass /\ handover' = handover
      BY ZenonT(30) DEF settleColumns
  <1>2. Planned(mem[c]) /\ row \in Rows
      BY <1>1, Own, ZenonT(30) DEF PassTypes, Driving, Types, DataTypes
  <1>3. Planned(m) /\ m.state = mem[c].state /\ m.per = mem[c].per /\ m.set = mem[c].set /\ m.degraded = mem[c].degraded
      BY <1>2, ZenonT(30) DEF Planned, Rows
  <1>4. q \in Rows /\ q.state = row.state /\ q.per = row.per /\ q.degraded = row.degraded /\ q.set = mem[c].set
    <2> DEFINE one == [row EXCEPT !.settled = TRUE]
               two == [one EXCEPT !.set = mem[c].set]
    <2>1. one \in Rows /\ one.state = row.state /\ one.per = row.per /\ one.degraded = row.degraded
        BY <1>2, ZenonT(30) DEF Rows
    <2>2. mem[c].set \in Nat
        BY <1>2, ZenonT(30) DEF Planned, Rows
    <2>3. q = two
        BY ZenonT(30)
    <2> HIDE DEF one
    <2>4. two \in Rows /\ two.state = one.state /\ two.per = one.per /\ two.degraded = one.degraded /\ two.set = mem[c].set
        BY <2>1, <2>2, ZenonT(30) DEF Rows
    <2> HIDE DEF q, two
    <2> QED
        BY <2>1, <2>3, <2>4, ZenonT(30)
  <1>5. \/ Fenced(c) /\ Goto(c, "probe") /\ UNCHANGED <<row, mem>>
        \/ ~Fenced(c) /\ row' = q /\ SetMem(c, m) /\ Goto(c, "phase")
      BY ZenonT(30) DEF settleColumns
  <1> HIDE DEF q, m
  <1> QED
      BY <1>1, <1>3, <1>4, <1>5, Own, ZenonT(30)

LEMMA FailRewriteDoes ==
    ASSUME Types, NEW c \in Controllers, failRewrite(c)
    PROVE  /\ pc[c] = "probe" /\ pc'[c] = "revert" /\ kind = "rewrite"
           /\ row' = row /\ obj' = obj /\ tab' = tab /\ pass' = pass /\ handover' = handover
           /\ loc'[c] \in Places
           /\ Planned(mem'[c]) /\ mem'[c].state = "failed" /\ mem'[c].set = mem[c].set
           /\ \A k \in Shards : mem'[c].per[k].step = mem[c].per[k].step
           /\ ~mem'[c].degraded => cutOverShards(c) = {}
  <1>1. pc[c] = "probe" /\ row' = row /\ obj' = obj /\ tab' = tab /\ pass' = pass /\ handover' = handover
      BY ZenonT(30) DEF failRewrite
  <1>2. Planned(mem[c]) /\ kind = "rewrite"
      BY <1>1, Own, ZenonT(30) DEF PassTypes, Driving
  <1>3. PICK unknown \in SUBSET Shards :
           LET left == cutOverShards(c) \cup unknown IN
           /\ SetMem(c, [mem[c] EXCEPT !.state = "failed", !.degraded = left # {},
                                       !.per = [k \in Shards |-> [@[k] EXCEPT !.state = "failed"]]])
           /\ SetLoc(c, [Idle EXCEPT !.left = left])
           /\ Goto(c, "revert")
      BY ZenonT(30) DEF failRewrite
  <1> DEFINE left == cutOverShards(c) \cup unknown
             deg == left # {}
             per == [k \in Shards |-> [mem[c].per[k] EXCEPT !.state = "failed"]]
             r == [mem[c] EXCEPT !.state = "failed", !.degraded = deg, !.per = per]
             place == [Idle EXCEPT !.left = left]
  <1>4. mem'[c] = r /\ loc'[c] = place /\ pc'[c] = "revert"
      BY <1>3, Own, ZenonT(30)
  <1>5. left \subseteq Shards /\ deg \in BOOLEAN /\ (~deg => cutOverShards(c) = {})
      BY ZenonT(30) DEF cutOverShards
  <1> HIDE DEF left, deg
  <1>6. place \in Places
      BY <1>5, Blank, ZenonT(30) DEF Places
  <1>7. per \in [Keys -> Entry] /\ \A k \in Shards : per[k].step = mem[c].per[k].step
    <2>1. \A k \in Shards : mem[c].per[k] \in Entry
        BY <1>2, KeySets, ZenonT(30) DEF Planned
    <2>2. \A e \in Entry : [e EXCEPT !.state = "failed"] \in Entry /\ [e EXCEPT !.state = "failed"].step = e.step
        BY ZenonT(30) DEF Entry
    <2>3. Keys = Shards
        BY <1>2, KeySets, ZenonT(30)
    <2> QED
        BY <2>1, <2>2, <2>3, ZenonT(30)
  <1> HIDE DEF per
  <1>8. r \in Rows /\ r.state = "failed" /\ r.set = mem[c].set /\ r.per = per /\ (r.degraded <=> deg)
    <2> DEFINE one == [mem[c] EXCEPT !.state = "failed"]
               two == [one EXCEPT !.degraded = deg]
               three == [two EXCEPT !.per = per]
    <2>1. one \in Rows /\ one.state = "failed" /\ one.set = mem[c].set
        BY <1>2, ZenonT(30) DEF Planned, Rows
    <2>2. two \in Rows /\ two.state = "failed" /\ two.set = mem[c].set /\ (two.degraded <=> deg)
      <3> HIDE DEF one
      <3> QED
          BY <1>5, <2>1, ZenonT(30) DEF Rows
    <2>3. three \in Rows /\ three.state = "failed" /\ three.set = mem[c].set /\ (three.degraded <=> two.degraded)
          /\ three.per = per
      <3> HIDE DEF two
      <3> QED
          BY <1>7, <2>2, ZenonT(30) DEF Rows
    <2>4. r = three
        BY ZenonT(30)
    <2> HIDE DEF r, one, two, three
    <2> QED
        BY <2>2, <2>3, <2>4, ZenonT(30)
  <1> HIDE DEF r, place
  <1>9. Planned(r)
      BY <1>2, <1>7, <1>8, ZenonT(30) DEF Planned
  <1> QED
      BY <1>1, <1>2, <1>4, <1>5, <1>6, <1>7, <1>8, <1>9, ZenonT(30)

LEMMA RevertDoes ==
    ASSUME Types, NEW c \in Controllers, revertRewrite(c)
    PROVE  /\ pc[c] = "revert" /\ pc'[c] \in {"revert", "failed"} /\ mem'[c] = mem[c] /\ loc'[c] \in Places
           /\ row' = row /\ obj' = obj /\ pass' = pass /\ handover' = handover
           /\ \/ tab' = tab
              \/ /\ loc[c].key \in Shards
                 /\ tab' = [tab EXCEPT ![mem[c].set][loc[c].key] = Swept(tab[mem[c].set][loc[c].key])]
  <1> DEFINE l == [loc[c] EXCEPT !.key = loc[c].key + 1]
  <1>1. /\ pc[c] = "revert" /\ row' = row /\ obj' = obj /\ pass' = pass /\ handover' = handover /\ mem' = mem
        /\ SetLoc(c, l) \/ loc' = loc
        /\ pc' = pc \/ Goto(c, "failed")
        /\ \/ tab' = tab
           \/ /\ loc[c].key \in Shards
              /\ tab' = [tab EXCEPT ![mem[c].set][loc[c].key] = Swept(tab[mem[c].set][loc[c].key])]
      BY ZenonT(30) DEF revertRewrite
  <1>2. l \in Places
      BY Own, SMTT(30) DEF Places
  <1> HIDE DEF l
  <1> QED
      BY <1>1, <1>2, Own, ZenonT(30)

LEMMA FailSaveDoes ==
    ASSUME Types, NEW c \in Controllers, FailSave(c)
    PROVE  /\ pc[c] = "failed" /\ OverNow(c) /\ row' = Saved(c, mem[c])
           /\ obj' = obj /\ tab' = tab /\ pass' = pass /\ handover' = handover
  BY PassEnds, ZenonT(30) DEF FailSave

LEMMA SaveFailsDoes ==
    ASSUME Types, NEW c \in Controllers, SaveFails(c)
    PROVE  /\ OverNow(c) /\ row' = row /\ obj' = obj /\ tab' = tab /\ pass' = pass /\ handover' = handover
  BY PassEnds, ZenonT(30) DEF SaveFails

LEMMA AbandonDoes ==
    ASSUME Types, NEW c \in Controllers, Abandon(c)
    PROVE  /\ lostLeadership(c) /\ pc[c] # "idle"
           /\ row' = row /\ obj' = obj /\ tab' = tab /\ pass' = pass /\ handover' = handover
           /\ \/ OverNow(c)
              \/ pc[c] \in {"columns", "settle"} /\ pc'[c] = "probe" /\ mem'[c] = mem[c] /\ loc'[c] = loc[c]
  BY PassEnds, Own, ZenonT(30) DEF Abandon

----------------------------------------------------------------------------
(* The types are kept *)

(* What a step of one pass has to leave for the types to hold after it. *)
RowLeft == row' \in Rows /\ RowTypes' /\ (row' = row \/ row'.state \notin Waiting)
ShardsLeft == obj' \in [Sets -> [1 .. catalogKey -> Objects]] /\ tab' \in [Sets -> [Shards -> Tables]]
PassLeft(c) ==
    /\ pass' \in [Controllers -> Nat]
    /\ pc'[c] \in Labels /\ mem'[c] \in Rows /\ loc'[c] \in Places /\ PassTypes(c)'

LEMMA TypesMove ==
    ASSUME Types, NEW c \in Controllers, Alone(c), RowLeft, ShardsLeft, PassLeft(c)
    PROVE  Types'
  <1>k. Keys' = Keys
      BY ZenonT(30) DEF Alone, Keys
  <1>1. LeaderTypes'
    <2>1. pc' \in [Controllers -> Labels]
        BY ZenonT(30) DEF Types, LeaderTypes, Alone, PassLeft
    <2> QED
        BY <2>1, ZenonT(30) DEF Types, LeaderTypes, Alone, PassLeft
  <1>2. DataTypes'
    <2>1. mem' \in [Controllers -> Rows] /\ loc' \in [Controllers -> Places]
        BY ZenonT(30) DEF Types, DataTypes, Alone, PassLeft
    <2>2. Rows' = Rows
        BY <1>k, ZenonT(30) DEF Rows
    <2> QED
        BY <2>1, <2>2, ZenonT(30) DEF Types, DataTypes, Alone, RowLeft, ShardsLeft
  <1>3. ASSUME NEW d \in Controllers PROVE PassTypes(d)'
    <2>1. CASE d = c
        BY <2>1, ZenonT(30) DEF PassLeft
    <2>2. CASE d # c
      <3>1. pc'[d] = pc[d] /\ mem'[d] = mem[d] /\ loc'[d] = loc[d] /\ PassTypes(d)
          BY <2>2, AloneOthers, ZenonT(30) DEF Types
      <3>2. /\ row.state \notin Waiting => row'.state \notin Waiting
            /\ row.state # "none" => row'.state # "none"
          BY ZenonT(30) DEF RowLeft, Waiting
      <3>3. kind' = kind /\ serving' = serving /\ Rows' = Rows
          BY <1>k, ZenonT(30) DEF Alone, Rows
      <3> QED
          BY <1>k, <3>1, <3>2, <3>3, ZenonT(30) DEF PassTypes, Planned, Unplanned
    <2> QED
        BY <2>1, <2>2, ZenonT(30)
  <1> QED
      BY <1>1, <1>2, <1>3, ZenonT(30) DEF Types, RowLeft

LEMMA RowKept == ASSUME Types, NEW c, Alone(c), row' = row PROVE RowLeft
  <1>1. Keys' = Keys /\ Rows' = Rows /\ serving' = serving
      BY ZenonT(30) DEF Alone, Keys, Rows
  <1> QED
      BY <1>1, ZenonT(30) DEF Types, DataTypes, RowTypes, RowLeft, Planned, Unplanned

LEMMA RowSaved ==
    ASSUME Types, NEW c, Alone(c), NEW r \in Rows, r.state \in {"running", "complete", "failed"},
           r.state # "failed" => Planned(r), row' = Saved(c, r)
    PROVE  RowLeft
  <1>1. Keys' = Keys /\ Rows' = Rows /\ serving' = serving
      BY ZenonT(30) DEF Alone, Keys, Rows
  <1>2. CASE row' = row
      BY <1>2, RowKept, ZenonT(30)
  <1>3. CASE row' # row
    <2>1. row' \in Rows /\ row'.state = r.state /\ row'.per = r.per /\ row'.set = r.set
        BY <1>3, SavedRow, ZenonT(30) DEF Types, DataTypes
    <2> QED
        BY <1>1, <2>1, ZenonT(30) DEF RowTypes, RowLeft, Planned, Waiting
  <1> QED
      BY <1>2, <1>3, ZenonT(30)

LEMMA ShardsKept == ASSUME Types, obj' = obj, tab' = tab PROVE ShardsLeft
  BY ZenonT(30) DEF Types, DataTypes, ShardsLeft

LEMMA PassOver == ASSUME Types, NEW c \in Controllers, OverNow(c), pass' = pass PROVE PassLeft(c)
  BY Blank, ZenonT(30) DEF Types, LeaderTypes, OverNow, PassLeft, PassTypes, Labels, Quiet, Driving, Attempting, Failing

(* A pass between its start and its last write. *)
LEMMA PassDrives ==
    ASSUME Types, NEW c \in Controllers, Alone(c), pass' = pass, RowLeft, row.state \notin Waiting \/ row'.state \notin Waiting,
           pc'[c] \in Driving, Planned(mem'[c]), loc'[c] \in Places,
           mem'[c].state = IF pc'[c] \in Failing THEN "failed" ELSE "running",
           pc'[c] \in {"columns", "settle"} => loc'[c] = Idle,
           pc'[c] \in Attempting \cup {"record"} =>
             loc'[c].key \in Keys /\ (kind = "rewrite" => loc'[c].phase <= rewriteValidate),
           pc'[c] \in Failing \cup {"columns", "settle", "phase", "probe"} => kind = "rewrite",
           pc'[c] = "next" => kind # "rewrite"
    PROVE  PassLeft(c)
  <1>1. Keys' = Keys /\ Rows' = Rows /\ serving' = serving /\ kind' = kind
      BY ZenonT(30) DEF Alone, Keys, Rows
  <1>2. Planned(mem[c])' /\ mem'[c] \in Rows
      BY <1>1, ZenonT(30) DEF Planned
  <1>3. row'.state \notin Waiting
      BY ZenonT(30) DEF RowLeft
  <1>4. pc'[c] \in Labels /\ pc'[c] \notin {"idle", "tick", "sweep", "drive", "start"}
      BY ZenonT(30) DEF Labels, Driving, Attempting, Failing
  <1>5. PassTypes(c)'
      BY <1>1, <1>2, <1>3, <1>4, ZenonT(30) DEF PassTypes
  <1> QED
      BY <1>2, <1>4, <1>5, ZenonT(30) DEF PassLeft, Types, LeaderTypes

LEMMA PassTypesWork ==
    ASSUME Types, NEW c \in Controllers, Work(c) \/ Abandon(c) \/ SaveFails(c)
    PROVE  Types'
  <1> DEFINE Done == Types'
  <1> SUFFICES Done
      BY ZenonT(30)
  <1>a. Alone(c)
      BY WorkAlone, ZenonT(30)
  <1>m. RowLeft /\ ShardsLeft /\ PassLeft(c) => Done
      BY <1>a, TypesMove, ZenonT(30)
  <1> HIDE DEF Done
  <1>p. /\ mem[c] \in Rows /\ loc[c] \in Places /\ PassTypes(c) /\ row \in Rows
        /\ pass \in [Controllers -> Nat] /\ published \in [Controllers -> Nat] /\ RowTypes
      BY Own, ZenonT(30) DEF Types, DataTypes, LeaderTypes
  <1>k. Keys' = Keys /\ Rows' = Rows /\ serving' = serving /\ kind' = kind
      BY <1>a, ZenonT(30) DEF Alone, Keys, Rows
  <1>s. obj' = obj /\ tab' = tab => ShardsLeft
      BY ShardsKept, ZenonT(30)
  <1>r. row' = row => RowLeft
      BY <1>a, RowKept, ZenonT(30)
  <1>o. OverNow(c) /\ pass' = pass => PassLeft(c)
      BY PassOver, ZenonT(30)
  <1>1. CASE Tick(c)
    <2>1. PassLeft(c)
        BY <1>1, <1>p, TickDoes, ZenonT(30) DEF PassLeft, PassTypes, Labels, Quiet, Driving, Attempting, Failing
    <2> QED
        BY <1>1, <2>1, <1>m, <1>r, <1>s, TickDoes, ZenonT(30)
  <1>2. CASE RunOnce(c)
    <2>1. row' = row /\ obj' = obj /\ tab' = tab /\ loc'[c] = Idle /\ pass' \in [Controllers -> Nat]
        BY <1>2, <1>p, RunOnceDoes, ZenonT(30) DEF PassTypes
    <2>2. CASE row.state \in {"queued", "running"} /\ mem'[c] = row /\ pc'[c] = "drive"
      <3>1. \/ mem'[c].state = "queued" /\ Unplanned(mem[c])'
            \/ mem'[c].state = "running" /\ Planned(mem[c])' /\ row'.state \notin Waiting
          BY <2>1, <2>2, <1>k, <1>p, ZenonT(30) DEF RowTypes, Waiting, Planned, Unplanned
      <3> QED
          BY <2>1, <2>2, <3>1, <1>m, <1>p, <1>r, <1>s, Blank, ZenonT(30)
             DEF PassLeft, PassTypes, Labels, Quiet, Driving, Attempting, Failing
    <2>3. CASE mem'[c] = mem[c] /\ pc'[c] = "sweep"
      <3>1. Idle.key \in Shards
          BY KeySets, ZenonT(30) DEF Idle
      <3> QED
          BY <2>1, <2>3, <3>1, <1>m, <1>p, <1>r, <1>s, Blank, ZenonT(30)
             DEF PassLeft, PassTypes, Labels, Quiet, Driving, Attempting, Failing
    <2> QED
        BY <1>2, <2>2, <2>3, RunOnceDoes, ZenonT(30)
  <1>3. CASE SweepRewriteArtifacts(c)
    <2>1. ShardsLeft
      <3>1. serving \in Sets /\ loc[c].key \in Shards
          BY <1>3, SweepDoes, ServingSet, ZenonT(30) DEF Types
      <3>2. Swept(tab[serving][loc[c].key]) \in Tables
          BY <3>1, SweptTable, SMTT(30) DEF Types, DataTypes
      <3>3. tab' \in [Sets -> [Shards -> Tables]]
          BY <1>3, <3>1, <3>2, SweepDoes, TabPut, SMTT(30) DEF Types, DataTypes
      <3> QED
          BY <1>3, <3>3, SweepDoes, ZenonT(30) DEF ShardsLeft, Types, DataTypes
    <2>2. CASE pc'[c] = "sweep" /\ mem'[c] = mem[c] /\ loc'[c] \in Places /\ loc'[c].key \in Shards
        BY <1>3, <2>1, <2>2, <1>m, <1>p, <1>r, SweepDoes, ZenonT(30) DEF PassLeft, PassTypes, Labels, Quiet, Driving, Attempting, Failing
    <2> QED
        BY <1>3, <2>1, <2>2, <1>m, <1>o, <1>r, SweepDoes, ZenonT(30)
  <1>4. CASE drive(c)
    <2>0. pc[c] = "drive" /\ obj' = obj /\ tab' = tab /\ pass' = pass
        BY <1>4, DriveDoes, ZenonT(30)
    <2>d. mem[c].state = "running" => Planned(mem[c]) /\ row.state \notin Waiting
        BY <2>0, <1>p, ZenonT(30) DEF PassTypes
    <2>1. CASE OverNow(c) /\ \E r \in Rows : r.state = "failed" /\ row' = Saved(c, r)
      <3>1. PICK r \in Rows : r.state = "failed" /\ row' = Saved(c, r)
          BY <2>1, ZenonT(30)
      <3>2. RowLeft
          BY <3>1, <1>a, RowSaved, ZenonT(30)
      <3> QED
          BY <2>0, <2>1, <3>2, <1>m, <1>s, <1>o, ZenonT(30)
    <2>2. CASE row' = row /\ pc'[c] = "start" /\ loc'[c] = Idle /\ Fresh(mem'[c])
      <3>1. row.state # "none"
          BY <2>0, <1>p, ZenonT(30) DEF PassTypes
      <3>2. PassTypes(c)'
          BY <2>2, <3>1, <1>k, ZenonT(30) DEF PassTypes, Fresh, Planned, Labels, Quiet, Driving, Attempting, Failing
      <3>3. PassLeft(c)
          BY <2>0, <2>2, <3>2, <1>p, Blank, ZenonT(30) DEF PassLeft, Fresh, Planned, Labels
      <3> QED
          BY <2>0, <2>2, <3>3, <1>m, <1>s, <1>r, ZenonT(30)
    <2>3. CASE /\ mem[c].state = "running" /\ row' = row /\ mem'[c] = mem[c] /\ loc'[c] = Idle
               /\ pc'[c] = IF kind = "rewrite" THEN "columns" ELSE "next"
      <3>1. PassLeft(c)
        <4>1. pc'[c] \in {"columns", "next"} /\ (pc'[c] = "columns" <=> kind = "rewrite")
            BY <2>3, ZenonT(30)
        <4>2. RowLeft /\ Planned(mem'[c]) /\ mem'[c].state = "running" /\ row.state \notin Waiting
            BY <2>3, <2>d, <1>r, ZenonT(30)
        <4> QED
            BY <2>0, <2>3, <4>1, <4>2, <1>a, PassDrives, Blank, ZenonT(30) DEF Driving, Attempting, Failing
      <3> QED
          BY <2>0, <2>3, <3>1, <1>m, <1>s, <1>r, ZenonT(30)
    <2>4. \/ OverNow(c) /\ \E r \in Rows : r.state = "failed" /\ row' = Saved(c, r)
          \/ row' = row /\ pc'[c] = "start" /\ loc'[c] = Idle /\ Fresh(mem'[c])
          \/ /\ mem[c].state = "running" /\ row' = row /\ mem'[c] = mem[c] /\ loc'[c] = Idle
             /\ pc'[c] = IF kind = "rewrite" THEN "columns" ELSE "next"
        BY <1>4, DriveDoes, Zenon
    <2> QED
        BY <2>1, <2>2, <2>3, <2>4, ZenonT(30)
  <1>5. CASE Start(c)
    <2>0. pc[c] = "start" /\ obj' = obj /\ tab' = tab /\ pass' = pass
        BY <1>5, StartDoes, ZenonT(30)
    <2>1. Planned(mem[c]) /\ mem[c].state = "running" /\ row.state # "none"
        BY <2>0, <1>p, ZenonT(30) DEF PassTypes
    <2>2. CASE OverNow(c) /\ row' = row
        BY <2>0, <2>2, <1>m, <1>s, <1>o, <1>r, ZenonT(30)
    <2>3. CASE /\ ~Fenced(c) /\ ~Held(mem[c]) /\ row' = Saved(c, mem[c]) /\ mem'[c] = mem[c] /\ loc'[c] = Idle
               /\ pc'[c] = IF kind = "rewrite" THEN "columns" ELSE "next"
      <3>1. RowLeft
          BY <2>1, <2>3, <1>a, <1>p, RowSaved, ZenonT(30)
      <3>2. row'.state \notin Waiting
        <4>1. row'.state = mem[c].state
            BY <2>3, <1>p, ZenonT(30) DEF Saved, Rows
        <4> QED
            BY <2>1, <4>1, ZenonT(30) DEF Waiting
      <3>3. PassLeft(c)
        <4>1. pc'[c] \in {"columns", "next"} /\ (pc'[c] = "columns" <=> kind = "rewrite")
            BY <2>3, ZenonT(30)
        <4> QED
            BY <2>0, <2>1, <2>3, <3>1, <3>2, <4>1, <1>a, PassDrives, Blank, ZenonT(30) DEF Driving, Attempting, Failing
      <3> QED
          BY <2>0, <3>1, <3>3, <1>m, <1>s, ZenonT(30)
    <2> QED
        BY <1>5, <2>2, <2>3, StartDoes, ZenonT(30)
  <1>d. ASSUME pc[c] \in Driving
        PROVE  /\ Planned(mem[c]) /\ row.state \notin Waiting
               /\ mem[c].state = IF pc[c] \in Failing THEN "failed" ELSE "running"
      BY <1>d, <1>p, ZenonT(30) DEF PassTypes
  <1>6. CASE NextKey(c)
    <2>0. pc[c] = "next" /\ kind # "rewrite" /\ row' = row /\ obj' = obj /\ tab' = tab /\ pass' = pass
        BY <1>6, NextKeyDoes, ZenonT(30)
    <2>1. Planned(mem[c]) /\ row.state \notin Waiting /\ mem[c].state = "running" /\ RowLeft /\ ShardsLeft
        BY <2>0, <1>d, <1>r, <1>s, ZenonT(30) DEF Driving, Failing
    <2>2. \/ OverNow(c)
          \/ /\ pc'[c] \in {"finish", "mark"} /\ loc'[c] \in Places /\ Planned(mem'[c]) /\ mem'[c].state = "running"
             /\ pc'[c] = "mark" => loc'[c].key \in Keys
        BY <1>6, <2>1, <1>p, NextKeyDoes, ZenonT(30) DEF EntryOnly
    <2>3. PassLeft(c)
        BY <2>0, <2>1, <2>2, <1>a, <1>o, PassDrives, ZenonT(30) DEF Driving, Attempting, Failing
    <2> QED
        BY <2>1, <2>3, <1>m, ZenonT(30)
  <1>7. CASE NextPhase(c)
    <2>0. pc[c] = "phase" /\ kind = "rewrite" /\ row' = row /\ obj' = obj /\ tab' = tab /\ pass' = pass
        BY <1>7, NextPhaseDoes, ZenonT(30)
    <2>1. Planned(mem[c]) /\ row.state \notin Waiting /\ mem[c].state = "running" /\ RowLeft /\ ShardsLeft
        BY <2>0, <1>d, <1>r, <1>s, ZenonT(30) DEF Driving, Failing
    <2>2. \/ OverNow(c)
          \/ /\ pc'[c] \in {"finish", "mark"} /\ loc'[c] \in Places /\ mem'[c] = mem[c]
             /\ pc'[c] = "mark" => loc'[c].key \in Keys /\ loc'[c].phase <= rewriteValidate
        BY <1>7, <1>p, NextPhaseDoes, KeySets, ZenonT(30)
    <2>3. PassLeft(c)
        BY <2>0, <2>1, <2>2, <1>a, <1>o, PassDrives, ZenonT(30) DEF Driving, Attempting, Failing
    <2> QED
        BY <2>1, <2>3, <1>m, ZenonT(30)
  <1>h. ASSUME pc[c] \in Attempting \cup {"record"}
        PROVE  /\ Planned(mem[c]) /\ row.state \notin Waiting /\ mem[c].state = "running" /\ loc[c].key \in Keys
               /\ mem[c].set \in Sets /\ loc[c].key \in 1 .. catalogKey
               /\ kind = "rewrite" => loc[c].phase \in rewriteAdd .. rewriteValidate /\ loc[c].phase <= rewriteValidate
    <2>1. /\ Planned(mem[c]) /\ row.state \notin Waiting /\ mem[c].state = "running" /\ loc[c].key \in Keys
          /\ kind = "rewrite" => loc[c].phase <= rewriteValidate
        BY <1>h, <1>d, <1>p, ZenonT(30) DEF PassTypes, Driving, Failing, Attempting
    <2>2. loc[c].phase \in Nat
        BY <1>p, ZenonT(30) DEF Places
    <2>3. kind = "rewrite" => loc[c].phase \in rewriteAdd .. rewriteValidate
        BY <2>1, <2>2, SMTT(30) DEF rewriteAdd, rewriteValidate
    <2>4. mem[c].set \in Sets /\ loc[c].key \in 1 .. catalogKey
        BY <2>1, KeySets, ServingSet, ZenonT(30) DEF Planned, Types
    <2> QED
        BY <2>1, <2>3, <2>4, ZenonT(30)
  <1>w. ASSUME row' = row \/ row' = Saved(c, mem'[c]), Planned(mem'[c]), mem'[c].state \in {"running", "failed"}
        PROVE  RowLeft
    <2>1. mem'[c] \in Rows
        BY <1>w, ZenonT(30) DEF Planned
    <2>2. CASE row' = Saved(c, mem'[c])
        BY <1>a, <1>w, <2>1, <2>2, RowSaved, ZenonT(30)
    <2> QED
        BY <1>w, <2>2, <1>r, ZenonT(30)
  <1>8. CASE Mark(c)
    <2>0. pc[c] = "mark" /\ obj' = obj /\ tab' = tab /\ pass' = pass
        BY <1>8, MarkDoes, ZenonT(30)
    <2>1. /\ Planned(mem[c]) /\ row.state \notin Waiting /\ mem[c].state = "running" /\ loc[c].key \in Keys
          /\ kind = "rewrite" => loc[c].phase <= rewriteValidate
        BY <2>0, <1>h, ZenonT(30) DEF Attempting
    <2>2. /\ pc'[c] \in {"record", "check", "after"} /\ (row' = row \/ row' = Saved(c, mem'[c]))
          /\ Planned(mem'[c]) /\ mem'[c].state = "running"
          /\ loc'[c] \in Places /\ loc'[c].key = loc[c].key /\ loc'[c].phase = loc[c].phase
        BY <1>8, <2>1, <1>p, MarkDoes, ZenonT(30) DEF EntryOnly, SamePlace
    <2>3. RowLeft
        BY <2>2, <1>w, ZenonT(30)
    <2>4. PassLeft(c)
        BY <2>0, <2>1, <2>2, <2>3, <1>a, PassDrives, ZenonT(30) DEF Driving, Attempting, Failing
    <2> QED
        BY <2>0, <2>3, <2>4, <1>s, <1>m, ZenonT(30)
  <1>9. CASE Check(c)
    <2>0. pc[c] = "check" /\ row' = row /\ tab' = tab /\ pass' = pass /\ mem'[c] = mem[c] /\ SamePlace(loc[c], loc'[c])
        BY <1>9, CheckDoes, ZenonT(30)
    <2>1. /\ Planned(mem[c]) /\ row.state \notin Waiting /\ mem[c].state = "running" /\ loc[c].key \in Keys
          /\ mem[c].set \in Sets /\ loc[c].key \in 1 .. catalogKey
          /\ kind = "rewrite" => loc[c].phase <= rewriteValidate
        BY <2>0, <1>h, ZenonT(30) DEF Attempting
    <2>2. pc'[c] \in {"after", "exec"} /\ (obj' = obj \/ obj' = [obj EXCEPT ![mem[c].set][loc[c].key] = "no"])
        BY <1>9, CheckDoes, ZenonT(30)
    <2>3. ShardsLeft
        BY <2>0, <2>1, <2>2, ObjPut, ZenonT(30) DEF ShardsLeft, Types, DataTypes, Objects
    <2>4. PassLeft(c)
        BY <2>0, <2>1, <2>2, <1>a, <1>r, PassDrives, ZenonT(30) DEF Driving, Attempting, Failing, SamePlace
    <2> QED
        BY <2>0, <2>3, <2>4, <1>r, <1>m, ZenonT(30)
  <1>10. CASE Exec(c)
    <2>0. /\ pc[c] = "exec" /\ row' = row /\ tab' = tab /\ pass' = pass /\ mem'[c] = mem[c] /\ pc'[c] = "after"
          /\ kind \in Statements \ {"rewrite"}
        BY <1>10, ExecDoes, ZenonT(30) DEF Types, DataTypes
    <2>1. /\ Planned(mem[c]) /\ row.state \notin Waiting /\ mem[c].state = "running" /\ loc[c].key \in Keys
          /\ mem[c].set \in Sets /\ loc[c].key \in 1 .. catalogKey
          /\ kind = "rewrite" => loc[c].phase <= rewriteValidate
        BY <2>0, <1>h, ZenonT(30) DEF Attempting
    <2>2. PICK a \in {Answer(c)} \cup Faulty(c) :
             obj' = [obj EXCEPT ![mem[c].set][loc[c].key] = a[1]] /\ loc'[c] = [loc[c] EXCEPT !.err = a[2]]
        BY <1>10, ExecDoes, ZenonT(30)
    <2>3. a[1] \in Objects /\ a[2] \in Errors
      <3>1. Here(c) \in Objects
          BY <2>1, ZenonT(30) DEF Here, Types, DataTypes
      <3> QED
          BY <2>0, <3>1, Answers, ZenonT(30)
    <2>4. ShardsLeft
        BY <2>0, <2>1, <2>2, <2>3, ObjPut, ZenonT(30) DEF ShardsLeft, Types, DataTypes
    <2>5. loc'[c] \in Places /\ loc'[c].key = loc[c].key /\ loc'[c].phase = loc[c].phase
        BY <2>2, <2>3, <1>p, ZenonT(30) DEF Places
    <2>6. PassLeft(c)
        BY <2>0, <2>1, <2>5, <1>a, <1>r, PassDrives, ZenonT(30) DEF Driving, Attempting, Failing
    <2> QED
        BY <2>0, <2>4, <2>6, <1>r, <1>m, ZenonT(30)
  <1>11. CASE rewritePhase(c)
    <2>0. /\ pc[c] = "exec" /\ row' = row /\ obj' = obj /\ pass' = pass /\ mem'[c] = mem[c] /\ pc'[c] = "after"
          /\ kind = "rewrite"
        BY <1>11, RewriteDoes, ZenonT(30)
    <2>1. /\ Planned(mem[c]) /\ row.state \notin Waiting /\ mem[c].state = "running" /\ loc[c].key \in Keys
          /\ mem[c].set \in Sets /\ loc[c].key \in Shards /\ loc[c].phase <= rewriteValidate
        BY <2>0, <1>h, KeySets, ZenonT(30) DEF Attempting
    <2> DEFINE t == tab[mem[c].set][loc[c].key]
    <2>2. PICK a \in {PhaseAnswer(t, loc[c].phase)} \cup PhaseFaulty(t, loc[c].phase) :
             tab' = [tab EXCEPT ![mem[c].set][loc[c].key] = a[1]] /\ loc'[c] = [loc[c] EXCEPT !.err = a[2]]
        BY <1>11, RewriteDoes, ZenonT(30)
    <2>3. a[1] \in Tables /\ a[2] \in Errors
      <3>1. t \in Tables
          BY <2>1, ZenonT(30) DEF Types, DataTypes
      <3>2. loc[c].phase \in rewriteAdd .. rewriteValidate
          BY <2>0, <1>h, ZenonT(30) DEF Attempting
      <3> QED
          BY <3>1, <3>2, Phases, ZenonT(30)
    <2>4. ShardsLeft
        BY <2>0, <2>1, <2>2, <2>3, TabPut, ZenonT(30) DEF ShardsLeft, Types, DataTypes
    <2>5. loc'[c] \in Places /\ loc'[c].key = loc[c].key /\ loc'[c].phase = loc[c].phase
        BY <2>2, <2>3, <1>p, ZenonT(30) DEF Places
    <2>6. PassLeft(c)
        BY <2>0, <2>1, <2>5, <1>a, <1>r, PassDrives, ZenonT(30) DEF Driving, Attempting, Failing
    <2> QED
        BY <2>0, <2>4, <2>6, <1>r, <1>m, ZenonT(30)
  <1>12. CASE After(c)
    <2>0. pc[c] = "after" /\ obj' = obj /\ tab' = tab /\ pass' = pass
        BY <1>12, AfterDoes, ZenonT(30)
    <2>1. /\ Planned(mem[c]) /\ row.state \notin Waiting /\ mem[c].state = "running" /\ loc[c].key \in Keys
          /\ kind = "rewrite" => loc[c].phase <= rewriteValidate
        BY <2>0, <1>h, ZenonT(30) DEF Attempting
    <2>2. pc'[c] \in {"record", "sleep"} /\ (row' = row \/ row' = Saved(c, mem'[c]))
        BY <1>12, AfterDoes, ZenonT(30)
    <2>3. /\ Planned(mem'[c]) /\ mem'[c].state = "running"
          /\ loc'[c] \in Places /\ loc'[c].key = loc[c].key /\ loc'[c].phase = loc[c].phase
        BY <1>12, <2>1, AfterDoes, ZenonT(30) DEF EntryOnly, SamePlace
    <2>4. RowLeft
        BY <2>2, <2>3, <1>w, ZenonT(30)
    <2>5. PassLeft(c)
        BY <2>0, <2>1, <2>2, <2>3, <2>4, <1>a, PassDrives, ZenonT(30) DEF Driving, Attempting, Failing
    <2> QED
        BY <2>0, <2>4, <2>5, <1>s, <1>m, ZenonT(30)
  <1>13. CASE Wake(c)
    <2>0. /\ pc[c] = "sleep" /\ row' = row /\ obj' = obj /\ tab' = tab /\ pass' = pass
          /\ mem'[c] = mem[c] /\ loc'[c] = loc[c] /\ pc'[c] \in {"record", "mark"}
        BY <1>13, WakeDoes, ZenonT(30)
    <2>1. /\ Planned(mem[c]) /\ row.state \notin Waiting /\ mem[c].state = "running" /\ loc[c].key \in Keys
          /\ kind = "rewrite" => loc[c].phase <= rewriteValidate
        BY <2>0, <1>h, ZenonT(30) DEF Attempting
    <2>2. PassLeft(c)
        BY <2>0, <2>1, <1>a, <1>p, <1>r, PassDrives, ZenonT(30) DEF Driving, Attempting, Failing
    <2> QED
        BY <2>0, <2>2, <1>r, <1>s, <1>m, ZenonT(30)
  <1>14. CASE Record(c)
    <2>0. pc[c] = "record" /\ obj' = obj /\ tab' = tab /\ pass' = pass
        BY <1>14, RecordDoes, ZenonT(30)
    <2>1. Planned(mem[c]) /\ row.state \notin Waiting /\ mem[c].state = "running" /\ loc[c].key \in Keys
        BY <2>0, <1>h, ZenonT(30)
    <2>2. PICK r : /\ Planned(r) /\ r.state = mem[c].state /\ (row' = Saved(c, r) \/ row' = row)
                   /\ Fenced(c) => OverNow(c)
                   /\ ~Fenced(c) =>
                        /\ mem'[c] = r
                        /\ kind = "rewrite" => pc'[c] \in {"probe", "phase"} /\ loc'[c] \in Places
                        /\ kind # "rewrite" /\ StepsLeft(c) => pc'[c] = "mark" /\ loc'[c] = [Idle EXCEPT !.key = loc[c].key]
                        /\ kind # "rewrite" /\ ~StepsLeft(c) => pc'[c] = "next" /\ loc'[c] = [Idle EXCEPT !.key = loc[c].key + 1]
        BY <1>14, RecordDoes, SMTT(30)
    <2>3. RowLeft
      <3>1. CASE row' = Saved(c, r)
        <4>1. r \in Rows
            BY <2>2, ZenonT(30) DEF Planned
        <4> QED
            BY <2>1, <2>2, <3>1, <4>1, <1>a, RowSaved, ZenonT(30)
      <3> QED
          BY <2>2, <3>1, <1>r, ZenonT(30)
    <2>4. PassLeft(c)
      <3>1. CASE Fenced(c)
          BY <3>1, <2>0, <2>2, <1>o, ZenonT(30)
      <3>2. CASE ~Fenced(c) /\ kind = "rewrite"
          BY <3>2, <2>0, <2>1, <2>2, <2>3, <1>a, PassDrives, ZenonT(30) DEF Driving, Attempting, Failing
      <3>3. CASE ~Fenced(c) /\ kind # "rewrite"
        <4>1. \A n \in Nat : [Idle EXCEPT !.key = n] \in Places /\ [Idle EXCEPT !.key = n].key = n
            BY Blank, ZenonT(30) DEF Places
        <4>k. loc[c].key \in Nat /\ loc[c].key + 1 \in Nat
            BY <1>p, SMTT(30) DEF Places
        <4>2. loc'[c] \in Places /\ (StepsLeft(c) => loc'[c].key \in Keys) /\ pc'[c] \in {"mark", "next"} /\ (pc'[c] = "mark" => StepsLeft(c))
            BY <3>3, <2>1, <2>2, <4>1, <4>k, ZenonT(30)
        <4> QED
            BY <3>3, <4>2, <2>0, <2>1, <2>2, <2>3, <1>a, PassDrives, ZenonT(30) DEF Driving, Attempting, Failing
      <3> QED
          BY <3>1, <3>2, <3>3, ZenonT(30)
    <2> QED
        BY <2>0, <2>3, <2>4, <1>s, <1>m, ZenonT(30)
  <1>15. CASE Finish(c)
    <2>0. OverNow(c) /\ obj' = obj /\ tab' = tab /\ pass' = pass
        BY <1>15, FinishDoes, ZenonT(30)
    <2>1. PICK r : Planned(r) /\ r.state \in Final /\ row' = Saved(c, r)
        BY <1>15, FinishDoes, ZenonT(30)
    <2>2. RowLeft
        BY <2>1, <1>a, RowSaved, ZenonT(30) DEF Planned, Final
    <2> QED
        BY <2>0, <2>2, <1>m, <1>o, <1>s, ZenonT(30)
  <1>16. CASE recordRewriteColumns(c)
    <2>0. /\ pc[c] = "columns" /\ row' = row /\ obj' = obj /\ tab' = tab /\ pass' = pass
          /\ mem'[c] = mem[c] /\ loc'[c] = loc[c] /\ pc'[c] \in {"phase", "settle", "probe"}
        BY <1>16, ColumnsDoes, ZenonT(30)
    <2>1. kind = "rewrite" /\ loc[c] = Idle /\ Planned(mem[c]) /\ row.state \notin Waiting /\ mem[c].state = "running"
        BY <2>0, <1>d, <1>p, ZenonT(30) DEF PassTypes, Driving, Failing
    <2>2. PassLeft(c)
        BY <2>0, <2>1, <1>a, <1>p, <1>r, PassDrives, ZenonT(30) DEF Driving, Attempting, Failing
    <2> QED
        BY <2>0, <2>2, <1>r, <1>s, <1>m, ZenonT(30)
  <1>17. CASE settleColumns(c)
    <2>0. /\ pc[c] = "settle" /\ loc'[c] = loc[c] /\ obj' = obj /\ tab' = tab /\ pass' = pass
        BY <1>17, SettleDoes, ZenonT(30)
    <2>1. kind = "rewrite" /\ loc[c] = Idle /\ Planned(mem[c]) /\ row.state \notin Waiting /\ mem[c].state = "running"
        BY <2>0, <1>d, <1>p, ZenonT(30) DEF PassTypes, Driving, Failing
    <2>2. RowLeft
      <3>1. CASE /\ row' \in Rows /\ row'.state = row.state /\ row'.per = row.per /\ row'.set = mem[c].set
          BY <3>1, <2>1, <1>k, <1>p, ZenonT(30) DEF RowLeft, RowTypes, Planned
      <3> QED
          BY <3>1, <1>17, <1>r, SettleDoes, ZenonT(30)
    <2>3. pc'[c] \in {"probe", "phase"} /\ Planned(mem'[c]) /\ mem'[c].state = "running"
        BY <2>1, <1>17, SettleDoes, ZenonT(30)
    <2>4. PassLeft(c)
        BY <2>0, <2>1, <2>2, <2>3, <1>a, <1>p, PassDrives, ZenonT(30) DEF Driving, Attempting, Failing
    <2> QED
        BY <2>0, <2>2, <2>4, <1>s, <1>m, ZenonT(30)
  <1>18. CASE failRewrite(c)
    <2>0. /\ pc[c] = "probe" /\ pc'[c] = "revert" /\ kind = "rewrite" /\ loc'[c] \in Places
          /\ row' = row /\ obj' = obj /\ tab' = tab /\ pass' = pass
          /\ Planned(mem'[c]) /\ mem'[c].state = "failed"
        BY <1>18, FailRewriteDoes, ZenonT(30)
    <2>1. row.state \notin Waiting
        BY <2>0, <1>d, ZenonT(30) DEF Driving
    <2>2. PassLeft(c)
        BY <2>0, <2>1, <1>a, <1>r, PassDrives, ZenonT(30) DEF Driving, Attempting, Failing
    <2> QED
        BY <2>0, <2>2, <1>r, <1>s, <1>m, ZenonT(30)
  <1>19. CASE revertRewrite(c)
    <2>0. /\ pc[c] = "revert" /\ pc'[c] \in {"revert", "failed"} /\ mem'[c] = mem[c] /\ loc'[c] \in Places
          /\ row' = row /\ obj' = obj /\ pass' = pass
        BY <1>19, RevertDoes, ZenonT(30)
    <2>1. kind = "rewrite" /\ Planned(mem[c]) /\ row.state \notin Waiting /\ mem[c].state = "failed"
        BY <2>0, <1>d, <1>p, ZenonT(30) DEF PassTypes, Driving, Failing
    <2>2. ShardsLeft
      <3>1. mem[c].set \in Sets
          BY <2>1, ServingSet, ZenonT(30) DEF Planned, Types
      <3>2. CASE /\ loc[c].key \in Shards
                 /\ tab' = [tab EXCEPT ![mem[c].set][loc[c].key] = Swept(tab[mem[c].set][loc[c].key])]
        <4>1. Swept(tab[mem[c].set][loc[c].key]) \in Tables
            BY <3>1, <3>2, SweptTable, SMTT(30) DEF Types, DataTypes
        <4>2. tab' \in [Sets -> [Shards -> Tables]]
            BY <3>1, <3>2, <4>1, TabPut, ZenonT(30) DEF Types
        <4> QED
            BY <2>0, <4>2, ZenonT(30) DEF ShardsLeft, Types, DataTypes
      <3> QED
          BY <1>19, <2>0, <3>2, <1>s, RevertDoes, ZenonT(30)
    <2>3. PassLeft(c)
        BY <2>0, <2>1, <1>a, <1>r, PassDrives, ZenonT(30) DEF Driving, Attempting, Failing
    <2> QED
        BY <2>0, <2>2, <2>3, <1>r, <1>m, ZenonT(30)
  <1>20. CASE FailSave(c)
    <2>0. pc[c] = "failed" /\ OverNow(c) /\ row' = Saved(c, mem[c]) /\ obj' = obj /\ tab' = tab /\ pass' = pass
        BY <1>20, FailSaveDoes, ZenonT(30)
    <2>1. mem[c].state = "failed"
        BY <2>0, <1>d, ZenonT(30) DEF Driving, Failing
    <2>2. RowLeft
        BY <2>0, <2>1, <1>a, <1>p, RowSaved, ZenonT(30)
    <2> QED
        BY <2>0, <2>2, <1>m, <1>o, <1>s, ZenonT(30)
  <1>21. CASE SaveFails(c)
      BY <1>21, SaveFailsDoes, <1>m, <1>o, <1>s, <1>r, ZenonT(30)
  <1>22. CASE Abandon(c)
    <2>0. row' = row /\ obj' = obj /\ tab' = tab /\ pass' = pass
        BY <1>22, AbandonDoes, ZenonT(30)
    <2>1. CASE pc[c] \in {"columns", "settle"} /\ pc'[c] = "probe" /\ mem'[c] = mem[c] /\ loc'[c] = loc[c]
      <3>1. kind = "rewrite" /\ Planned(mem[c]) /\ row.state \notin Waiting /\ mem[c].state = "running"
          BY <2>1, <1>d, <1>p, ZenonT(30) DEF PassTypes, Driving, Failing
      <3>2. PassLeft(c)
          BY <2>0, <2>1, <3>1, <1>a, <1>p, <1>r, PassDrives, ZenonT(30) DEF Driving, Attempting, Failing
      <3> QED
          BY <2>0, <3>2, <1>r, <1>s, <1>m, ZenonT(30)
    <2> QED
        BY <1>22, <2>0, <2>1, AbandonDoes, <1>m, <1>o, <1>s, <1>r, ZenonT(30)
  <1> QED
      BY <1>1, <1>2, <1>3, <1>4, <1>5, <1>6, <1>7, <1>8, <1>9, <1>10, <1>11, <1>12, <1>13, <1>14, <1>15, <1>16, <1>17,
         <1>18, <1>19, <1>20, <1>21, <1>22, ZenonT(30) DEF Work

(* Steps that leave every pass, the shards and the row where they are. *)
Apart ==
    /\ UNCHANGED <<kind, obj, tab, mem, loc, pc, pass>>
    /\ term' \in Nat /\ published' \in [Controllers -> Nat] /\ row' \in Rows /\ budget' \in Budgets
    /\ serving' \in Nat /\ serving' >= serving /\ serving' + budget'.flip <= 1 + MaxFlips

LEMMA TypesApart ==
    ASSUME Types, Apart, row' = row \/ (row.state = "none" /\ row'.state = "queued" /\ Unplanned(row'))
    PROVE  Types'
  <1>k. Keys' = Keys /\ Rows' = Rows /\ kind' = kind
      BY ZenonT(30) DEF Apart, Keys, Rows
  <1>s. serving \in Nat \ {0} /\ serving' \in Nat \ {0} /\ \A n : n \in 1 .. serving => n \in 1 .. serving'
      BY SMTT(30) DEF Apart, Types, DataTypes
  <1>1. LeaderTypes'
      BY ZenonT(30) DEF Types, LeaderTypes, Apart
  <1>2. DataTypes'
      BY <1>k, <1>s, ZenonT(30) DEF Types, DataTypes, Apart
  <1>r. /\ row.state \notin Waiting => row'.state \notin Waiting
        /\ row.state # "none" => row'.state # "none"
      BY ZenonT(30) DEF Waiting
  <1>3. RowTypes'
      BY <1>k, <1>s, ZenonT(30) DEF Types, RowTypes, Waiting, Planned, Unplanned
  <1>4. ASSUME NEW d \in Controllers PROVE PassTypes(d)'
    <2>1. PassTypes(d) /\ pc' = pc /\ mem' = mem /\ loc' = loc
        BY ZenonT(30) DEF Types, Apart
    <2>2. \A r : Planned(r) => r \in Rows /\ r.set \in 1 .. serving' /\ r.per \in [Keys -> Entry]
        BY <1>s, ZenonT(30) DEF Planned
    <2>3. Planned(mem[d]) => Planned(mem[d])'
        BY <2>1, <2>2, <1>k, ZenonT(30) DEF Planned
    <2> QED
        BY <2>1, <2>3, <1>k, <1>r, ZenonT(30) DEF PassTypes, Unplanned
  <1> QED
      BY <1>1, <1>2, <1>3, <1>4, ZenonT(30) DEF Types

LEMMA TypesCrash == ASSUME Types, NEW c \in Controllers, Crash(c) PROVE Types'
  <1>1. OverNow(c) /\ pass' \in [Controllers -> Nat] /\ published' \in [Controllers -> Nat]
      BY PassEnds, ZenonT(30) DEF Crash, Types, LeaderTypes
  <1>2. /\ UNCHANGED <<kind, row, gate, serving, obj, tab, term>> /\ Fault("crash")
        /\ pc' = [pc EXCEPT ![c] = "idle"] /\ mem' = [mem EXCEPT ![c] = NoRow] /\ loc' = [loc EXCEPT ![c] = Idle]
      BY ZenonT(30) DEF Crash, EndPass, Goto, SetLoc, SetMem
  <1>3. budget' \in Budgets /\ budget'.flip = budget.flip
      BY <1>2, FaultTypes, ZenonT(30) DEF Types, DataTypes
  <1>k. Keys' = Keys /\ Rows' = Rows
      BY <1>2, ZenonT(30) DEF Keys, Rows
  <1>4. LeaderTypes'
      BY <1>1, <1>2, ZenonT(30) DEF Types, LeaderTypes, Labels, Quiet
  <1>5. DataTypes'
    <2>1. mem' \in [Controllers -> Rows] /\ loc' \in [Controllers -> Places]
        BY <1>2, Blank, ZenonT(30) DEF Types, DataTypes
    <2> QED
        BY <1>2, <1>3, <1>k, <2>1, ZenonT(30) DEF Types, DataTypes
  <1>6. RowTypes'
      BY <1>2, <1>k, ZenonT(30) DEF Types, RowTypes, Planned, Unplanned
  <1>7. ASSUME NEW d \in Controllers PROVE PassTypes(d)'
    <2>1. CASE d = c
        BY <2>1, <1>1, ZenonT(30) DEF OverNow, PassTypes, Labels, Quiet, Driving, Attempting, Failing
    <2>2. CASE d # c
      <3>1. pc'[d] = pc[d] /\ mem'[d] = mem[d] /\ loc'[d] = loc[d] /\ PassTypes(d)
          BY <2>2, <1>2, ZenonT(30) DEF Types, LeaderTypes, DataTypes
      <3> QED
          BY <1>k, <1>2, <3>1, SMTT(30) DEF PassTypes, Planned, Unplanned
    <2> QED
        BY <2>1, <2>2, ZenonT(30)
  <1> QED
      BY <1>4, <1>5, <1>6, <1>7, ZenonT(30) DEF Types

LEMMA ClientDoes ==
    ASSUME Types, NEW s \in Sets, NEW k \in Shards, ClientWrite(s, k)
    PROVE  /\ tab' \in [Sets -> [Shards -> Tables]] /\ tab[s][k].col = "both" /\ ~tab[s][k].trig
           /\ tab'[s][k].col = "both" /\ ~tab'[s][k].trig
           /\ \A z \in Sets, j \in Shards : z # s \/ j # k => tab'[z][j] = tab[z][j]
  <1> DEFINE u == [tab[s][k] EXCEPT !.full = FALSE]
  <1>1. tab[s][k] \in Tables /\ tab[s][k].col = "both" /\ ~tab[s][k].trig
      BY ZenonT(30) DEF ClientWrite, Types, DataTypes
  <1>2. u \in Tables /\ u.col = "both" /\ ~u.trig
      BY <1>1, ZenonT(30) DEF Tables
  <1>3. tab' = [tab EXCEPT ![s][k].full = FALSE] /\ tab \in [Sets -> [Shards -> Tables]]
      BY ZenonT(30) DEF ClientWrite, Types, DataTypes
  <1>4. tab'[s][k] = u
      BY <1>3, ZenonT(30)
  <1> HIDE DEF u
  <1>5. \A z \in Sets, j \in Shards : z # s \/ j # k => tab'[z][j] = tab[z][j]
      BY <1>3, ZenonT(30)
  <1>6. tab' \in [Sets -> [Shards -> Tables]]
    <2>1. tab' = [z \in Sets |-> tab'[z]] /\ \A z \in Sets : tab'[z] = [j \in Shards |-> tab'[z][j]]
        BY <1>3, ZenonT(30)
    <2> QED
        BY <2>1, <1>2, <1>3, <1>4, <1>5, ZenonT(30)
  <1> QED
      BY <1>1, <1>2, <1>4, <1>5, <1>6, ZenonT(30)

LEMMA TypesClient == ASSUME Types, NEW s \in Sets, NEW k \in Shards, ClientWrite(s, k) PROVE Types'
  <1>1. UNCHANGED <<kind, row, gate, serving, obj, processVars, budget>>
      BY ZenonT(30) DEF ClientWrite
  <1>2. tab' \in [Sets -> [Shards -> Tables]]
      BY ClientDoes, ZenonT(30)
  <1>k. Keys' = Keys /\ Rows' = Rows
      BY <1>1, ZenonT(30) DEF Keys, Rows
  <1>3. LeaderTypes' /\ RowTypes'
      BY <1>1, <1>k, ZenonT(30) DEF Types, LeaderTypes, RowTypes, processVars, Planned, Unplanned
  <1>4. DataTypes'
      BY <1>1, <1>2, <1>k, ZenonT(30) DEF Types, DataTypes, processVars
  <1>5. ASSUME NEW d \in Controllers PROVE PassTypes(d)'
      BY <1>1, <1>k, ZenonT(30) DEF Types, PassTypes, processVars, Planned, Unplanned
  <1> QED
      BY <1>3, <1>4, <1>5, ZenonT(30) DEF Types

LEMMA TypesInit == Init => Types
  <1> SUFFICES ASSUME Init PROVE Types
      BY ZenonT(30)
  <1>b. budget \in Budgets /\ budget.flip <= MaxFlips /\ MaxFlips \in Nat
      BY ApplierConstants, ZenonT(30) DEF Init, Budgets
  <1>1. LeaderTypes
      BY ZenonT(30) DEF Init, LeaderTypes, Labels, Quiet
  <1>2. DataTypes
    <2>1. mem \in [Controllers -> Rows] /\ loc \in [Controllers -> Places] /\ row \in Rows
        BY Blank, ZenonT(30) DEF Init
    <2>2. obj \in [Sets -> [1 .. catalogKey -> Objects]]
        BY SMTT(30) DEF Init, Objects
    <2>3. tab \in [Sets -> [Shards -> Tables]]
      <3>1. \A e \in BOOLEAN : [Untouched EXCEPT !.full = e] \in Tables
          BY ZenonT(30) DEF Untouched, Tables
      <3> QED
          BY <3>1, SMTT(30) DEF Init
    <2>4. kind \in Statements /\ serving = 1
        BY <1>b, ZenonT(30) DEF Init, Budgets
    <2>5. serving + budget.flip <= 1 + MaxFlips
        BY <1>b, <2>4, SMTT(30) DEF Budgets
    <2> QED
        BY <1>b, <2>1, <2>2, <2>3, <2>4, <2>5, SMTT(30) DEF DataTypes
  <1>3. RowTypes
    <2>1. NoRow.per \in [{} -> Entry] /\ NoRow.set = 0 /\ NoRow.state = "none"
        BY Blank, ZenonT(30) DEF NoRow
    <2> QED
        BY <2>1, ZenonT(30) DEF Init, RowTypes, Unplanned
  <1>4. \A c \in Controllers : PassTypes(c)
      BY ZenonT(30) DEF Init, PassTypes, Driving, Attempting, Failing
  <1> QED
      BY <1>1, <1>2, <1>3, <1>4, ZenonT(30) DEF Types

LEMMA TypesNext == Types /\ [Next]_vars => Types'
  <1> SUFFICES ASSUME Types, [Next]_vars PROVE Types'
      BY ZenonT(30)
  <1>t. /\ row \in Rows /\ budget \in Budgets /\ serving \in Nat \ {0} /\ serving + budget.flip <= 1 + MaxFlips
        /\ term \in Nat /\ published \in [Controllers -> Nat] /\ MaxFlips \in Nat /\ budget.flip \in Nat
      BY ApplierConstants, ZenonT(30) DEF Types, DataTypes, LeaderTypes, Budgets
  <1>1. ASSUME NEW c \in Controllers, Work(c) \/ Abandon(c) \/ SaveFails(c) PROVE Types'
      BY <1>1, PassTypesWork, ZenonT(30)
  <1>2. ASSUME NEW c \in Controllers, lead(c) PROVE Types'
    <2>1. Apart /\ row' = row
        BY <1>2, <1>t, SMTT(30) DEF lead, Apart
    <2> QED
        BY <2>1, TypesApart, ZenonT(30)
  <1>3. ASSUME NEW c \in Controllers, LoseLock(c) PROVE Types'
    <2>0. budget' \in Budgets /\ budget'.flip = budget.flip
        BY <1>3, <1>t, FaultTypes, ZenonT(30) DEF LoseLock
    <2>1. Apart /\ row' = row
        BY <1>3, <1>t, <2>0, SMTT(30) DEF LoseLock, Apart
    <2> QED
        BY <2>1, TypesApart, ZenonT(30)
  <1>4. ASSUME NEW c \in Controllers, Notice(c) PROVE Types'
    <2>1. Apart /\ row' = row
        BY <1>4, <1>t, SMTT(30) DEF Notice, Apart
    <2> QED
        BY <2>1, TypesApart, ZenonT(30)
  <1>5. CASE QueueMoves
    <2>1. Apart /\ row' = row
        BY <1>5, <1>t, SMTT(30) DEF QueueMoves, Apart, processVars
    <2> QED
        BY <2>1, TypesApart, ZenonT(30)
  <1>6. CASE Flip
    <2>0. budget' \in Budgets /\ budget'.flip = budget.flip - 1
        BY <1>6, <1>t, FaultTypes, ZenonT(30) DEF Flip
    <2>1. serving' = serving + 1 /\ row' = row /\ UNCHANGED <<kind, obj, tab, processVars>>
        BY <1>6, ZenonT(30) DEF Flip
    <2>2. Apart
        BY <1>t, <2>0, <2>1, SMTT(30) DEF Apart, processVars
    <2> QED
        BY <2>1, <2>2, TypesApart, ZenonT(30)
  <1>7. CASE Enqueue
    <2>1. row.state = "none" /\ row' = [NoRow EXCEPT !.state = "queued"] /\ UNCHANGED <<kind, serving, obj, tab, processVars, budget>>
        BY <1>7, ZenonT(30) DEF Enqueue
    <2>2. row' \in Rows /\ row'.state = "queued" /\ row'.set = 0 /\ row'.per = NoRow.per
        BY <2>1, Blank, ZenonT(30) DEF Rows
    <2>3. NoRow.per \in [{} -> Entry]
        BY Blank, ZenonT(30) DEF NoRow
    <2>4. Apart
        BY <1>t, <2>1, <2>2, SMTT(30) DEF Apart, processVars
    <2> QED
        BY <2>1, <2>2, <2>3, <2>4, TypesApart, ZenonT(30) DEF Unplanned
  <1>8. CASE UNCHANGED vars
    <2>1. Apart /\ row' = row
        BY <1>8, <1>t, SMTT(30) DEF vars, Apart
    <2> QED
        BY <2>1, TypesApart, ZenonT(30)
  <1> QED
      BY <1>1, <1>2, <1>3, <1>4, <1>5, <1>6, <1>7, <1>8, TypesCrash, TypesClient, ZenonT(30) DEF Next

----------------------------------------------------------------------------
(* A finished migration is not written again *)

(* What a step of a pass may do to the row, and where it may go from there. *)
Writes(c) ==
    /\ row' = row \/ (pc[c] \notin Quiet /\ ~Fenced(c))
    /\ row.state \in Final \/ row' = row \/ row'.state \notin Final \/ pc'[c] = "idle"
    /\ pc'[c] \in Quiet \/ pc[c] \notin Quiet \/ (pc[c] = "tick" /\ row.state \notin Final)
    /\ pc[c] = "idle" => published[c] # 0 /\ pc'[c] = "tick"
    /\ \/ pass' = pass /\ handover' = handover /\ (pc[c] \in {"idle", "tick"} => pc'[c] \in {"idle", "tick"})
       \/ /\ pc[c] = "tick" /\ pass' = [pass EXCEPT ![c] = published[c]]
          /\ handover' = IF published[c] = 0 THEN "unstamped" ELSE handover

LEMMA WorkWrites ==
    ASSUME Types, NEW c \in Controllers, Work(c) \/ Abandon(c) \/ SaveFails(c)
    PROVE  Writes(c)
  <1> DEFINE Done == Writes(c)
  <1> SUFFICES Done
      BY ZenonT(30)
  <1>p. mem[c] \in Rows /\ row \in Rows /\ PassTypes(c)
      BY Own, ZenonT(30) DEF Types, DataTypes
  <1>f. ASSUME NEW r, row' = Saved(c, r) PROVE row' = row \/ ~Fenced(c)
      BY <1>f, SavedFenced, ZenonT(30)
  <1>s. ASSUME NEW r \in Rows, row' = Saved(c, r) PROVE row' = row \/ row'.state = r.state
      BY <1>s, <1>p, SavedRow, ZenonT(30)
  <1>n. pc[c] \notin Quiet /\ pass' = pass /\ handover' = handover
        /\ (row' = row \/ ~Fenced(c)) /\ (row' = row \/ row'.state \in {row.state, "running"} \/ pc'[c] = "idle") => Done
      BY ZenonT(30) DEF Writes, Quiet, Final
  <1>q. pass' = pass /\ handover' = handover /\ row' = row /\ pc[c] \in Quiet /\ pc'[c] \in Quiet
        /\ (pc[c] = "idle" => published[c] # 0 /\ pc'[c] = "tick") /\ (pc[c] # "sweep" => pc'[c] \in {"idle", "tick"}) => Done
      BY ZenonT(30) DEF Writes, Quiet
  <1> HIDE DEF Done
  <1>r. pc[c] \in Driving => pc[c] \notin Quiet /\ (pc[c] \notin Failing => mem[c].state = "running") /\ Planned(mem[c])
      BY <1>p, ZenonT(30) DEF PassTypes, Driving, Attempting, Failing, Quiet
  <1>1. CASE Tick(c)
      BY <1>1, <1>q, TickDoes, ZenonT(30) DEF Quiet
  <1>2. CASE RunOnce(c)
      BY <1>2, RunOnceDoes, ZenonT(30) DEF Writes, Done, Quiet, Final
  <1>3. CASE SweepRewriteArtifacts(c)
      BY <1>3, <1>q, SweepDoes, ZenonT(30) DEF Quiet, OverNow
  <1>4. CASE drive(c)
    <2>1. pc[c] = "drive" /\ pass' = pass /\ handover' = handover
        BY <1>4, DriveDoes, ZenonT(30)
    <2>2. row' = row \/ (OverNow(c) /\ \E r \in Rows : row' = Saved(c, r))
        BY <1>4, DriveDoes, ZenonT(30)
    <2> QED
        BY <2>1, <2>2, <1>f, <1>n, ZenonT(30) DEF Quiet, OverNow
  <1>5. CASE Start(c)
    <2>1. pc[c] = "start" /\ pass' = pass /\ handover' = handover /\ (row' = row \/ (~Fenced(c) /\ row' = Saved(c, mem[c])))
        BY <1>5, StartDoes, ZenonT(30)
    <2>2. mem[c].state = "running"
        BY <2>1, <1>p, ZenonT(30) DEF PassTypes
    <2> QED
        BY <2>1, <2>2, <1>n, <1>s, <1>p, ZenonT(30) DEF Quiet
  <1>6. CASE NextKey(c)
      BY <1>6, <1>n, NextKeyDoes, ZenonT(30) DEF Quiet
  <1>7. CASE NextPhase(c)
      BY <1>7, <1>n, NextPhaseDoes, ZenonT(30) DEF Quiet
  <1>8. CASE Mark(c)
    <2>1. pc[c] = "mark" /\ pass' = pass /\ handover' = handover
        BY <1>8, MarkDoes, ZenonT(30)
    <2>2. mem[c].state = "running"
        BY <2>1, <1>r, ZenonT(30) DEF Driving, Attempting, Failing
    <2>3. row' = row \/ (row' = Saved(c, mem'[c]) /\ mem'[c] \in Rows /\ mem'[c].state = "running")
        BY <1>8, <2>2, MarkDoes, ZenonT(30) DEF EntryOnly, Planned
    <2>4. row' = row \/ (~Fenced(c) /\ row'.state = "running")
        BY <2>3, <1>f, <1>s, ZenonT(30)
    <2> QED
        BY <2>1, <2>4, <1>n, ZenonT(30) DEF Quiet
  <1>9. CASE Check(c)
      BY <1>9, <1>n, CheckDoes, ZenonT(30) DEF Quiet
  <1>10. CASE Exec(c)
      BY <1>10, <1>n, ExecDoes, ZenonT(30) DEF Quiet
  <1>11. CASE rewritePhase(c)
      BY <1>11, <1>n, RewriteDoes, ZenonT(30) DEF Quiet
  <1>12. CASE After(c)
    <2>1. pc[c] = "after" /\ pass' = pass /\ handover' = handover
        BY <1>12, AfterDoes, ZenonT(30)
    <2>2. mem[c].state = "running"
        BY <2>1, <1>r, ZenonT(30) DEF Driving, Attempting, Failing
    <2>3. row' = row \/ (row' = Saved(c, mem'[c]) /\ mem'[c] \in Rows /\ mem'[c].state = "running")
        BY <1>12, <2>2, AfterDoes, ZenonT(30) DEF EntryOnly, Planned
    <2>4. row' = row \/ (~Fenced(c) /\ row'.state = "running")
        BY <2>3, <1>f, <1>s, ZenonT(30)
    <2> QED
        BY <2>1, <2>4, <1>n, ZenonT(30) DEF Quiet
  <1>13. CASE Wake(c)
      BY <1>13, <1>n, WakeDoes, ZenonT(30) DEF Quiet
  <1>14. CASE Record(c)
    <2>1. pc[c] = "record" /\ pass' = pass /\ handover' = handover
        BY <1>14, RecordDoes, ZenonT(30)
    <2>2. mem[c].state = "running"
        BY <2>1, <1>r, ZenonT(30) DEF Driving, Attempting, Failing
    <2>3. \E r : Planned(r) /\ r.state = "running" /\ (row' = Saved(c, r) \/ row' = row)
        BY <1>14, <2>2, RecordDoes, ZenonT(30)
    <2>4. row' = row \/ (~Fenced(c) /\ row'.state = "running")
        BY <2>3, <1>f, <1>s, ZenonT(30) DEF Planned
    <2> QED
        BY <2>1, <2>4, <1>n, ZenonT(30) DEF Quiet
  <1>15. CASE Finish(c)
      BY <1>15, <1>f, <1>n, FinishDoes, ZenonT(30) DEF Quiet, OverNow
  <1>16. CASE recordRewriteColumns(c)
      BY <1>16, <1>n, ColumnsDoes, ZenonT(30) DEF Quiet
  <1>17. CASE settleColumns(c)
    <2>1. pc[c] = "settle" /\ pass' = pass /\ handover' = handover /\ (row' = row \/ ~Fenced(c))
        BY <1>17, SettleDoes, ZenonT(30)
    <2>2. row' = row \/ row'.state = row.state
        BY <1>17, SettleDoes, ZenonT(30)
    <2> QED
        BY <2>1, <2>2, <1>n, ZenonT(30) DEF Quiet
  <1>18. CASE failRewrite(c)
      BY <1>18, <1>n, FailRewriteDoes, ZenonT(30) DEF Quiet
  <1>19. CASE revertRewrite(c)
      BY <1>19, <1>n, RevertDoes, ZenonT(30) DEF Quiet
  <1>20. CASE FailSave(c)
      BY <1>20, <1>f, <1>n, FailSaveDoes, ZenonT(30) DEF Quiet, OverNow
  <1>21. CASE SaveFails(c)
      BY <1>21, <1>n, SaveFailsDoes, ZenonT(30) DEF SaveFails, Quiet
  <1>22. CASE Abandon(c)
    <2>1. pc[c] \notin {"idle", "tick"} /\ pass' = pass /\ handover' = handover /\ row' = row
        BY <1>22, AbandonDoes, ZenonT(30) DEF Abandon
    <2>2. pc'[c] \in {"idle", "probe"} /\ (pc[c] \notin {"columns", "settle"} => pc'[c] = "idle")
        BY <1>22, AbandonDoes, ZenonT(30) DEF OverNow
    <2> QED
        BY <2>1, <2>2, <1>n, <1>q, ZenonT(30) DEF Quiet
  <1> QED
      BY <1>1, <1>2, <1>3, <1>4, <1>5, <1>6, <1>7, <1>8, <1>9, <1>10, <1>11, <1>12, <1>13, <1>14, <1>15, <1>16, <1>17,
         <1>18, <1>19, <1>20, <1>21, <1>22, ZenonT(30) DEF Work

LEMMA TermStep ==
    ASSUME Types, TermInv, NEW c \in Controllers, Work(c) \/ Abandon(c) \/ SaveFails(c)
    PROVE  TermInv'
  <1>w. Writes(c) /\ Alone(c)
      BY WorkWrites, WorkAlone, ZenonT(30)
  <1>t. term \in Nat /\ published \in [Controllers -> Nat] /\ pass \in [Controllers -> Nat] /\ UNCHANGED <<term, published>>
      BY <1>w, ZenonT(30) DEF Types, LeaderTypes, Alone
  <1>o. \A d \in Controllers : d # c => pc'[d] = pc[d]
      BY <1>w, AloneOthers, ZenonT(30)
  <1>p. /\ \A d \in Controllers : d # c => pass'[d] = pass[d]
        /\ \/ pass'[c] = pass[c] /\ handover' = handover /\ (pc[c] \in {"idle", "tick"} => pc'[c] \in {"idle", "tick"})
           \/ /\ pass'[c] = published[c] /\ pc[c] = "tick" 
              /\ handover' = IF published[c] = 0 THEN "unstamped" ELSE handover
      BY <1>w, <1>t, ZenonT(30) DEF Writes
  <1>h. handover' # "unstamped" => handover # "unstamped" /\ (pass'[c] = published[c] \/ pass'[c] = pass[c])
      BY <1>p, ZenonT(30)
  <1>1. TermsApart'
      BY <1>p, <1>t, SMTT(30) DEF TermInv, TermsApart
  <1>2. Stamped'
      BY <1>o, <1>p, ZenonT(30) DEF TermInv, Stamped
  <1>3. OthersFenced'
    <2> SUFFICES ASSUME row'.state \in Final, handover' # "unstamped", NEW d \in Controllers, pc'[d] \notin Quiet PROVE Fenced(d)'
        BY ZenonT(30) DEF OthersFenced
    <2>1. pass'[d] # 0
        BY <1>2, ZenonT(30) DEF Stamped, Quiet
    <2>2. CASE row.state \in Final
      <3>1. pc[d] \notin Quiet
          BY <2>2, <1>o, <1>w, ZenonT(30) DEF Writes
      <3>2. Fenced(d)
          BY <2>2, <3>1, <1>h, ZenonT(30) DEF TermInv, OthersFenced
      <3>3. pass'[d] = pass[d]
          BY <3>1, <1>p, ZenonT(30) DEF Quiet
      <3> QED
          BY <3>2, <3>3, <1>t, ZenonT(30) DEF Fenced
    <2>3. CASE row.state \notin Final
      <3>1. row' # row /\ pc[c] \notin Quiet /\ ~Fenced(c) /\ pc'[c] = "idle"
          BY <2>3, <1>w, ZenonT(30) DEF Writes
      <3>2. d # c /\ pass'[d] = pass[d] /\ pass[c] # 0
          BY <3>1, <1>p, <1>h, ZenonT(30) DEF Quiet, TermInv, Stamped
      <3>3. pass[c] = term
          BY <3>1, <3>2, ZenonT(30) DEF Fenced
      <3> QED
          BY <2>1, <3>2, <3>3, <1>t, ZenonT(30) DEF Fenced, TermInv, TermsApart
    <2> QED
        BY <2>2, <2>3, ZenonT(30)
  <1> QED
      BY <1>1, <1>2, <1>3, ZenonT(30) DEF TermInv

LEMMA TermElsewhere ==
    ASSUME Types, TermInv, [Next]_vars, ~\E c \in Controllers : Work(c) \/ Abandon(c) \/ SaveFails(c)
    PROVE  TermInv'
  <1> DEFINE Done == TermInv'
  <1> SUFFICES Done
      BY ZenonT(30)
  <1>t. term \in Nat /\ published \in [Controllers -> Nat] /\ pass \in [Controllers -> Nat]
      BY ZenonT(30) DEF Types, LeaderTypes
  <1>u. UNCHANGED <<term, published, pass, pc>> /\ (handover' = "unstamped" => handover = "unstamped")
        /\ (row'.state \in Final => row.state \in Final) /\ (handover = "unstamped" => handover' = "unstamped") => Done
      BY ZenonT(30) DEF TermInv, TermsApart, Stamped, OthersFenced, Fenced
  <1> HIDE DEF Done
  <1>1. ASSUME NEW c \in Controllers, lead(c) PROVE Done
    <2>1. /\ term' = term + 1 /\ published' = [published EXCEPT ![c] = term + 1] /\ UNCHANGED <<row, pass, pc, handover>>
        BY <1>1, ZenonT(30) DEF lead
    <2>2. term' \in Nat /\ term' > term
        BY <2>1, <1>t, SMTT(30)
    <2>3. TermsApart'
      <3>1. \A d \in Controllers : published'[d] = IF d = c THEN term' ELSE published[d]
          BY <2>1, <1>t, ZenonT(30)
      <3>2. \A d \in Controllers : published[d] <= term /\ pass[d] <= term /\ pass'[d] = pass[d] /\ published[d] \in Nat /\ pass[d] \in Nat
          BY <2>1, <1>t, ZenonT(30) DEF TermInv, TermsApart
      <3>3. \A d \in Controllers : published'[d] <= term' /\ pass'[d] <= term'
          BY <3>1, <3>2, <2>2, <1>t, SMTT(30)
      <3>4. \A d \in Controllers : published[d] # term' /\ pass[d] # term'
          BY <3>2, <2>2, <1>t, SMTT(30)
      <3> QED
          BY <3>1, <3>2, <3>3, <3>4, SMTT(30) DEF TermInv, TermsApart
    <2>4. Stamped'
        BY <2>1, ZenonT(30) DEF TermInv, Stamped
    <2>5. OthersFenced'
      <3> SUFFICES ASSUME row'.state \in Final, handover' # "unstamped", NEW d \in Controllers, pc'[d] \notin Quiet PROVE Fenced(d)'
          BY ZenonT(30) DEF OthersFenced
      <3>1. pass'[d] # 0 /\ pass'[d] = pass[d]
          BY <2>1, <2>4, ZenonT(30) DEF Stamped, Quiet
      <3>2. pass[d] <= term /\ pass[d] \in Nat
          BY <1>t, ZenonT(30) DEF TermInv, TermsApart
      <3> QED
          BY <3>1, <3>2, <2>2, <1>t, SMTT(30) DEF Fenced
    <2> QED
        BY <2>3, <2>4, <2>5, ZenonT(30) DEF TermInv, Done
  <1>2. ASSUME NEW c \in Controllers, LoseLock(c) PROVE Done
      BY <1>2, <1>u, ZenonT(30) DEF LoseLock
  <1>3. ASSUME NEW c \in Controllers, Notice(c) PROVE Done
    <2>1. /\ published' = [published EXCEPT ![c] = 0] /\ UNCHANGED <<row, term, pass, pc, handover>>
        BY <1>3, ZenonT(30) DEF Notice
    <2>2. \A d \in Controllers : published'[d] \in {0, published[d]}
        BY <2>1, <1>t, ZenonT(30)
    <2> QED
        BY <2>1, <2>2, <1>t, SMTT(30) DEF Done, TermInv, TermsApart, Stamped, OthersFenced, Fenced
  <1>4. ASSUME NEW c \in Controllers, Crash(c) PROVE Done
    <2>1. /\ published' = [published EXCEPT ![c] = 0] /\ pass' = [pass EXCEPT ![c] = 0] /\ pc' = [pc EXCEPT ![c] = "idle"]
          /\ UNCHANGED <<row, term, handover>>
        BY <1>4, ZenonT(30) DEF Crash, EndPass, Goto
    <2>2. /\ \A d \in Controllers : published'[d] \in {0, published[d]} /\ pass'[d] \in {0, pass[d]}
          /\ \A d \in Controllers : d # c => pass'[d] = pass[d]
        BY <2>1, <1>t, ZenonT(30)
    <2>3. /\ pc'[c] = "idle"
          /\ \A d \in Controllers : d # c => pc'[d] = pc[d]
        BY <2>1, ZenonT(30) DEF Types, LeaderTypes
    <2>4. TermsApart'
        BY <2>1, <2>2, <1>t, SMTT(30) DEF TermInv, TermsApart
    <2>5. Stamped' /\ OthersFenced'
        BY <2>1, <2>2, <2>3, ZenonT(30) DEF TermInv, Stamped, OthersFenced, Fenced, Quiet
    <2> QED
        BY <2>4, <2>5, ZenonT(30) DEF Done, TermInv
  <1>5. CASE Enqueue
    <2>1. row' = [NoRow EXCEPT !.state = "queued"]
        BY <1>5, ZenonT(30) DEF Enqueue
    <2>2. row'.state = "queued"
        BY <2>1, ZenonT(30) DEF NoRow
    <2> QED
        BY <1>5, <2>2, <1>u, ZenonT(30) DEF Enqueue, processVars, Final
  <1>6. CASE QueueMoves
      BY <1>6, <1>u, ZenonT(30) DEF QueueMoves, processVars
  <1>7. CASE Flip
      BY <1>7, <1>u, ZenonT(30) DEF Flip, processVars
  <1>8. ASSUME NEW s \in Sets, NEW k \in Shards, ClientWrite(s, k) PROVE Done
      BY <1>8, <1>u, ZenonT(30) DEF ClientWrite, processVars
  <1>9. CASE UNCHANGED vars
      BY <1>9, <1>u, ZenonT(30) DEF vars
  <1> QED
      BY <1>1, <1>2, <1>3, <1>4, <1>5, <1>6, <1>7, <1>8, <1>9, ZenonT(30) DEF Next

(* A migration recorded complete or failed keeps that record, however many *)
(* controllers still drive it: a write that carries an older term is       *)
(* refused (Applier.save, the catalog's fence).                            *)
THEOREM FinishedKept == Spec => FinishedStays
  <1>1. Init => Types /\ TermInv
    <2>1. Init => TermInv
        BY SMTT(30) DEF Init, TermInv, TermsApart, Stamped, OthersFenced, Quiet
    <2> QED
        BY <2>1, TypesInit, ZenonT(30)
  <1>2. Types /\ TermInv /\ [Next]_vars => (Types /\ TermInv)'
      BY TypesNext, TermStep, TermElsewhere, ZenonT(30)
  <1>3. Types /\ TermInv /\ [Next]_vars => [row.state \in Final /\ handover # "unstamped" => row' = row]_vars
    <2> SUFFICES ASSUME Types, TermInv, Next, row.state \in Final, handover # "unstamped" PROVE row' = row
        BY ZenonT(30) DEF vars
    <2>1. ASSUME NEW c \in Controllers, Work(c) \/ Abandon(c) \/ SaveFails(c) PROVE row' = row
      <3>1. Writes(c)
          BY <2>1, WorkWrites, ZenonT(30)
      <3> QED
          BY <3>1, ZenonT(30) DEF Writes, TermInv, OthersFenced
    <2>2. ASSUME NEW c \in Controllers, lead(c) \/ LoseLock(c) \/ Notice(c) \/ Crash(c) PROVE row' = row
        BY <2>2, ZenonT(30) DEF lead, LoseLock, Notice, Crash
    <2>3. CASE QueueMoves \/ Flip \/ \E s \in Sets, k \in Shards : ClientWrite(s, k)
        BY <2>3, ZenonT(30) DEF QueueMoves, Flip, ClientWrite
    <2>4. ~Enqueue
        BY ZenonT(30) DEF Enqueue, Final
    <2> QED
        BY <2>1, <2>2, <2>3, <2>4, ZenonT(30) DEF Next
  <1> QED
      BY <1>1, <1>2, <1>3, PTL DEF Spec, FinishedStays
=============================================================================
