---------------------------- MODULE ApplierClean ----------------------------
(***************************************************************************)
(* What the DDL applier records is true, while leadership passes only when *)
(* its holder dies (NoZombie) and so one pass is made at a time.           *)
(*                                                                         *)
(* For a statement sent whole the invariant relates what the pass holds in *)
(* memory, the row in the catalog, and the shards it works on: an entry    *)
(* says done only of a shard that is.  For an online rewrite a shard's     *)
(* step says what its table has, and the pass never runs ahead of the      *)
(* step.  Together they give the theorems on what a finished migration     *)
(* leaves behind.                                                          *)
(***************************************************************************)
EXTENDS ApplierProofs

----------------------------------------------------------------------------
(* One pass at a time *)

(* Whoever works, or believes it leads, holds the lock and the newest term. *)
OneLeader ==
    \A c \in Controllers : pc[c] # "idle" \/ published[c] # 0 \/ lock = c =>
        /\ lock = c /\ published[c] = term /\ term # 0
        /\ pc[c] \in {"idle", "tick"} \/ pass[c] = term

(* Where the row stands while a pass is at a step. *)
PassRow(c) ==
    /\ pc[c] = "sweep" => row.state # "running"
    /\ pc[c] = "drive" => mem[c] = row
    /\ pc[c] = "start" => row.state \in {"queued", "running"} /\ row.set < mem[c].set
    /\ pc[c] \in Driving => row.state = "running" /\ mem[c].set = row.set

OnePass == OneLeader /\ \A c \in Controllers : PassRow(c)

----------------------------------------------------------------------------
(* Statements sent whole *)

(* What is recorded as done is done. *)
Sure(r) == \A k \in Keys : r.per[k].state \in Kept => obj[r.set][k] = Goal

StatementPass(c) ==
    /\ pc[c] \in Driving =>
         /\ Sure(mem[c])
         /\ \A k \in Keys : row.per[k].state \in Kept => mem[c].per[k].state \in Kept
    /\ pc[c] \in Attempting \cup {"record", "next"} =>
         \A k \in Keys : k < loc[c].key => mem[c].per[k].state \in Ended
    /\ pc[c] \in Attempting => mem[c].per[loc[c].key].state \notin Ended
    /\ pc[c] = "record" => mem[c].per[loc[c].key].state \in Ended
    /\ pc[c] = "after" /\ loc[c].err \in {"none", "skip"} => obj[mem[c].set][loc[c].key] = Goal
    /\ pc[c] = "finish" => \A k \in Keys : mem[c].per[k].state \in Ended

Statement ==
    kind \in PlainKinds =>
        /\ row.state \in {"running", "complete"} => Sure(row)
        /\ row.state = "complete" => \A k \in Keys : row.per[k].state \in Kept
        /\ kind \in DropKinds => \A s \in Sets, k \in 1 .. catalogKey : obj[s][k] # "bad"
        /\ \A c \in Controllers : StatementPass(c)

----------------------------------------------------------------------------
(* While leadership passes cleanly there is one pass at a time *)

LEMMA SavedFields ==
    ASSUME NEW c, NEW r \in Rows, row \in Rows, ~Fenced(c), ~Held(r)
    PROVE  /\ Saved(c, r) \in Rows /\ Saved(c, r).state = r.state /\ Saved(c, r).per = r.per
           /\ Saved(c, r).set = r.set /\ Saved(c, r).degraded = r.degraded
  BY ZenonT(30) DEF Saved, Rows

(* The one pass at work leads, and is not refused. *)
LEMMA Leads ==
    ASSUME OneLeader, NEW c \in Controllers, pc[c] # "idle"
    PROVE  /\ ~lostLeadership(c)
           /\ pc[c] # "tick" => ~Fenced(c)
           /\ \A d \in Controllers : d # c => pc[d] = "idle"
  BY ZenonT(30) DEF OneLeader, lostLeadership, Fenced

LEMMA LeaderStep ==
    ASSUME Types, OneLeader, NEW c \in Controllers, Work(c) \/ Abandon(c) \/ SaveFails(c)
    PROVE  OneLeader' /\ \A d \in Controllers : d # c => pc[d] = "idle" /\ pc'[d] = "idle"
  <1>w. Writes(c) /\ Alone(c)
      BY WorkWrites, WorkAlone, ZenonT(30)
  <1>1. UNCHANGED <<lock, published, term>> /\ \A d \in Controllers : d # c => pc'[d] = pc[d]
      BY <1>w, AloneOthers, ZenonT(30) DEF Alone
  <1>2. lock = c /\ published[c] = term /\ term # 0
      BY <1>w, ZenonT(30) DEF Writes, OneLeader
  <1>3. pc'[c] \in {"idle", "tick"} \/ pass'[c] = term
    <2>1. CASE pass' = pass /\ (pc[c] \in {"idle", "tick"} => pc'[c] \in {"idle", "tick"})
        BY <2>1, <1>2, ZenonT(30) DEF OneLeader
    <2>2. CASE pass' = [pass EXCEPT ![c] = published[c]]
        BY <2>2, <1>2, ZenonT(30) DEF Types, LeaderTypes
    <2> QED
        BY <2>1, <2>2, <1>w, ZenonT(30) DEF Writes
  <1>4. \A d \in Controllers : d # c => pc[d] = "idle" /\ published[d] = 0
      BY <1>2, ZenonT(30) DEF OneLeader
  <1> QED
      BY <1>1, <1>2, <1>3, <1>4, ZenonT(30) DEF OneLeader

LEMMA PassRowStep ==
    ASSUME Types, OnePass, NEW c \in Controllers, Work(c) \/ Abandon(c) \/ SaveFails(c)
    PROVE  OnePass'
  <1> DEFINE Done == OnePass'
  <1> SUFFICES Done
      BY ZenonT(30)
  <1>p. mem[c] \in Rows /\ row \in Rows /\ PassTypes(c) /\ PassRow(c) /\ OneLeader
      BY Own, ZenonT(30) DEF Types, DataTypes, OnePass
  <1>a. OneLeader' /\ \A d \in Controllers : d # c => pc[d] = "idle" /\ pc'[d] = "idle"
      BY <1>p, LeaderStep, ZenonT(30)
  <1>m. PassRow(c)' => Done
      BY <1>a, ZenonT(30) DEF OnePass, PassRow, Driving, Attempting, Failing
  <1>i. pc'[c] \in {"idle", "tick"} => Done
      BY <1>m, ZenonT(30) DEF PassRow, Driving, Attempting, Failing
  <1>v. pc'[c] \in Driving /\ row'.state = "running" /\ mem'[c].set = row'.set => Done
      BY <1>m, ZenonT(30) DEF PassRow, Driving, Attempting, Failing
  <1> HIDE DEF Done
  <1>d. pc[c] \in Driving => row.state = "running" /\ mem[c].set = row.set /\ Planned(mem[c]) /\ ~Fenced(c)
                             /\ (pc[c] \notin Failing => mem[c].state = "running")
      BY <1>p, Leads, ZenonT(30) DEF PassRow, PassTypes, Driving, Attempting, Failing
  <1>w. ASSUME pc[c] \in Driving, NEW r \in Rows, r.state = "running", r.set = mem[c].set, row' = Saved(c, r)
        PROVE  row'.state = "running" /\ row'.set = row.set
    <2>1. ~Held(r)
        BY <1>w, <1>d, ZenonT(30) DEF Held
    <2> QED
        BY <1>w, <1>d, <1>p, <2>1, SavedFields, ZenonT(30)
  <1>k. pc[c] \in Driving /\ pc'[c] \in Driving /\ row' = row /\ mem'[c].set = mem[c].set => Done
      BY <1>d, <1>v, ZenonT(30)
  <1>1. CASE Tick(c)
      BY <1>1, <1>i, TickDoes, ZenonT(30)
  <1>2. CASE RunOnce(c)
      BY <1>2, <1>m, RunOnceDoes, ZenonT(30) DEF PassRow, Driving, Attempting, Failing
  <1>3. CASE SweepRewriteArtifacts(c)
      BY <1>3, <1>i, <1>m, <1>p, SweepDoes, ZenonT(30) DEF PassRow, Driving, Attempting, Failing, OverNow
  <1>4. CASE drive(c)
    <2>0. pc[c] = "drive"
        BY <1>4, DriveDoes, ZenonT(30)
    <2>1. mem[c] = row /\ serving \in Nat \ {0}
        BY <2>0, <1>p, ZenonT(30) DEF PassRow, Types, DataTypes
    <2>2. CASE OverNow(c)
        BY <2>2, <1>i, ZenonT(30) DEF OverNow
    <2>3. CASE /\ mem[c].state = "queued" \/ (mem[c].state = "running" /\ mem[c].set # serving)
               /\ row' = row /\ pc'[c] = "start" /\ Fresh(mem'[c])
      <3>1. mem'[c].set = serving /\ row.set \in Nat /\ row.set < serving
          BY <2>0, <2>1, <2>3, <1>p, SMTT(30) DEF Fresh, PassTypes, Unplanned, Planned, Rows
      <3> QED
          BY <2>1, <2>3, <3>1, <1>m, ZenonT(30) DEF PassRow, Driving, Attempting, Failing
    <2>4. CASE /\ mem[c].state = "running" /\ row' = row /\ mem'[c] = mem[c]
               /\ pc'[c] = IF kind = "rewrite" THEN "columns" ELSE "next"
        BY <2>1, <2>4, <1>v, ZenonT(30) DEF Driving
    <2> QED
        BY <1>4, <2>2, <2>3, <2>4, DriveDoes, ZenonT(30)
  <1>5. CASE Start(c)
    <2>1. CASE OverNow(c)
        BY <2>1, <1>i, ZenonT(30) DEF OverNow
    <2>2. CASE /\ ~Fenced(c) /\ ~Held(mem[c]) /\ row' = Saved(c, mem[c]) /\ mem'[c] = mem[c]
               /\ pc'[c] = IF kind = "rewrite" THEN "columns" ELSE "next"
      <3>1. mem[c].state = "running"
          BY <1>5, <1>p, StartDoes, ZenonT(30) DEF PassTypes
      <3> QED
          BY <2>2, <3>1, <1>p, <1>v, SavedFields, SMTT(30) DEF Driving
    <2> QED
        BY <1>5, <2>1, <2>2, StartDoes, ZenonT(30)
  <1>6. CASE NextKey(c)
    <2>1. pc[c] = "next" /\ row' = row /\ (OverNow(c) \/ (pc'[c] \in {"finish", "mark"} /\ mem'[c].set = mem[c].set))
        BY <1>6, NextKeyDoes, ZenonT(30) DEF EntryOnly
    <2> QED
        BY <2>1, <1>i, <1>k, ZenonT(30) DEF Driving, Attempting, OverNow
  <1>7. CASE NextPhase(c)
      BY <1>7, <1>i, <1>k, NextPhaseDoes, ZenonT(30) DEF Driving, Attempting, OverNow
  <1>8. CASE Mark(c)
    <2>1. pc[c] = "mark" /\ pc[c] \in Driving /\ pc[c] \notin Failing
        BY <1>8, MarkDoes, ZenonT(30) DEF Driving, Attempting, Failing
    <2>2. pc'[c] \in Driving /\ mem'[c] \in Rows /\ mem'[c].set = mem[c].set /\ mem'[c].state = "running" 
        BY <1>8, <2>1, <1>d, MarkDoes, ZenonT(30) DEF EntryOnly, Planned, Driving, Attempting
    <2>3. row' = row \/ row' = Saved(c, mem'[c])
        BY <1>8, MarkDoes, ZenonT(30)
    <2> QED
        BY <2>1, <2>2, <2>3, <1>k, <1>w, <1>v, <1>d, ZenonT(30)
  <1>9. CASE Check(c)
      BY <1>9, <1>k, CheckDoes, ZenonT(30) DEF Driving, Attempting
  <1>10. CASE Exec(c)
      BY <1>10, <1>k, ExecDoes, ZenonT(30) DEF Driving, Attempting
  <1>11. CASE rewritePhase(c)
      BY <1>11, <1>k, RewriteDoes, ZenonT(30) DEF Driving, Attempting
  <1>12. CASE After(c)
    <2>1. pc[c] = "after" /\ pc[c] \in Driving /\ pc[c] \notin Failing
        BY <1>12, AfterDoes, ZenonT(30) DEF Driving, Attempting, Failing
    <2>2. pc'[c] \in Driving /\ mem'[c] \in Rows /\ mem'[c].set = mem[c].set /\ mem'[c].state = "running" 
        BY <1>12, <2>1, <1>d, AfterDoes, ZenonT(30) DEF EntryOnly, Planned, Driving, Attempting
    <2>3. row' = row \/ row' = Saved(c, mem'[c])
        BY <1>12, AfterDoes, ZenonT(30)
    <2> QED
        BY <2>1, <2>2, <2>3, <1>k, <1>w, <1>v, <1>d, ZenonT(30)
  <1>13. CASE Wake(c)
      BY <1>13, <1>k, WakeDoes, ZenonT(30) DEF Driving, Attempting
  <1>14. CASE Record(c)
    <2>1. pc[c] = "record" /\ pc[c] \in Driving /\ pc[c] \notin Failing
        BY <1>14, RecordDoes, ZenonT(30) DEF Driving, Attempting, Failing
    <2>2. ~Fenced(c) /\ mem[c].state = "running"
        BY <2>1, <1>d, ZenonT(30)
    <2>3. PICK r : /\ Planned(r) /\ r.state = mem[c].state /\ r.set = mem[c].set /\ mem'[c] = r
                   /\ row' = Saved(c, r) \/ row' = row
                   /\ pc'[c] \in {"probe", "phase", "mark", "next"}
        BY <1>14, <2>2, RecordDoes, ZenonT(30)
    <2>4. pc'[c] \in Driving /\ mem'[c] \in Rows /\ mem'[c].set = mem[c].set /\ mem'[c].state = "running"
        BY <2>2, <2>3, ZenonT(30) DEF Planned, Driving, Attempting
    <2>5. row' = row \/ row' = Saved(c, mem'[c])
        BY <2>3, ZenonT(30)
    <2> QED
        BY <2>1, <2>4, <2>5, <1>k, <1>w, <1>v, <1>d, ZenonT(30)
  <1>15. CASE Finish(c)
      BY <1>15, <1>i, FinishDoes, ZenonT(30) DEF OverNow
  <1>16. CASE recordRewriteColumns(c)
      BY <1>16, <1>k, ColumnsDoes, ZenonT(30) DEF Driving
  <1>17. CASE settleColumns(c)
    <2>1. pc[c] = "settle" /\ pc[c] \in Driving
        BY <1>17, SettleDoes, ZenonT(30) DEF Driving
    <2>2. pc'[c] = "phase" /\ row'.state = row.state /\ row'.set = mem[c].set /\ mem'[c].set = mem[c].set
        BY <1>17, <2>1, <1>d, SettleDoes, ZenonT(30)
    <2> QED
        BY <2>1, <2>2, <1>d, <1>v, ZenonT(30) DEF Driving
  <1>18. CASE failRewrite(c)
      BY <1>18, <1>k, FailRewriteDoes, ZenonT(30) DEF Driving, Failing
  <1>19. CASE revertRewrite(c)
      BY <1>19, <1>k, RevertDoes, ZenonT(30) DEF Driving, Failing
  <1>20. CASE FailSave(c)
      BY <1>20, <1>i, FailSaveDoes, ZenonT(30) DEF OverNow
  <1>21. CASE SaveFails(c)
      BY <1>21, <1>i, SaveFailsDoes, ZenonT(30) DEF OverNow
  <1>22. CASE Abandon(c)
      BY <1>22, <1>p, AbandonDoes, Leads, ZenonT(30)
  <1> QED
      BY <1>1, <1>2, <1>3, <1>4, <1>5, <1>6, <1>7, <1>8, <1>9, <1>10, <1>11, <1>12, <1>13, <1>14, <1>15, <1>16, <1>17,
         <1>18, <1>19, <1>20, <1>21, <1>22, ZenonT(30) DEF Work

----------------------------------------------------------------------------
(* What is recorded of a statement sent whole is true *)

LEMMA StatementStep ==
    ASSUME Types, OnePass, Statement, kind \in PlainKinds, NEW c \in Controllers, Work(c) \/ Abandon(c) \/ SaveFails(c)
    PROVE  Statement'
  <1> DEFINE Done == Statement'
             Recorded(s) == row.state \in s => Sure(row)
             k == loc[c].key
  <1> SUFFICES Done
      BY ZenonT(30)
  <1>a. OneLeader /\ Alone(c) /\ \A d \in Controllers : d # c => pc'[d] = "idle"
      BY WorkAlone, LeaderStep, ZenonT(30) DEF OnePass
  <1>k. kind' = kind /\ Keys' = Keys /\ Goal' = Goal
      BY <1>a, ZenonT(30) DEF Alone, Keys, Goal
  <1>p. /\ mem[c] \in Rows /\ loc[c] \in Places /\ row \in Rows /\ PassTypes(c) /\ PassRow(c) /\ StatementPass(c)
        /\ row.state \in {"running", "complete"} => Sure(row)
        /\ row.state = "complete" => \A j \in Keys : row.per[j].state \in Kept
        /\ kind \in DropKinds => \A s \in Sets, j \in 1 .. catalogKey : obj[s][j] # "bad"
      BY Own, ZenonT(30) DEF Types, DataTypes, OnePass, Statement
  <1>n. kind # "rewrite" /\ kind # "multistep" /\ kind \in Statements
      BY ZenonT(30) DEF PlainKinds, Statements
  <1>m. /\ row'.state \in {"running", "complete"} => Sure(row)'
        /\ row'.state = "complete" => \A j \in Keys : row'.per[j].state \in Kept
        /\ kind \in DropKinds => \A s \in Sets, j \in 1 .. catalogKey : obj'[s][j] # "bad"
        /\ StatementPass(c)'
        => Done
      BY <1>a, <1>k, SMTT(30) DEF Statement, StatementPass, Driving, Attempting, Failing
  <1>i. pc'[c] \notin Driving => StatementPass(c)'
      BY ZenonT(30) DEF StatementPass, Driving, Attempting, Failing
  <1>r. row' = row /\ obj' = obj =>
        /\ row'.state \in {"running", "complete"} => Sure(row)'
        /\ row'.state = "complete" => \A j \in Keys : row'.per[j].state \in Kept
        /\ kind \in DropKinds => \A s \in Sets, j \in 1 .. catalogKey : obj'[s][j] # "bad"
      BY <1>k, <1>p, ZenonT(30) DEF Sure
  <1>o. row' = row /\ obj' = obj /\ pc'[c] \notin Driving => Done
      BY <1>i, <1>m, <1>r, ZenonT(30)
  <1>f. row'.state = "failed" /\ obj' = obj /\ pc'[c] \notin Driving => Done
      BY <1>i, <1>m, <1>p, ZenonT(30)
  <1>v. OverNow(c) => pc'[c] \notin Driving
      BY ZenonT(30) DEF OverNow, Driving, Attempting, Failing
  <1> HIDE DEF Done
  (* From one step of the loop to the next. *)
  <1>e. ASSUME /\ pc'[c] \in Driving /\ row'.state = "running" /\ mem'[c].set = row'.set
               /\ \A j \in Keys : mem'[c].per[j].state \in Kept => obj'[mem'[c].set][j] = Goal
               /\ \A j \in Keys : row'.per[j].state \in Kept => mem'[c].per[j].state \in Kept
               /\ kind \in DropKinds => \A s \in Sets, j \in 1 .. catalogKey : obj'[s][j] # "bad",
               pc'[c] \in Attempting \cup {"record", "next"} => \A j \in Keys : j < loc'[c].key => mem'[c].per[j].state \in Ended,
               pc'[c] \in Attempting => mem'[c].per[loc'[c].key].state \notin Ended,
               pc'[c] = "record" => mem'[c].per[loc'[c].key].state \in Ended,
               pc'[c] = "after" /\ loc'[c].err \in {"none", "skip"} => obj'[mem'[c].set][loc'[c].key] = Goal,
               pc'[c] = "finish" => \A j \in Keys : mem'[c].per[j].state \in Ended
        PROVE  Done
    <2>1. Sure(mem[c])' /\ Sure(row)'
        BY <1>e, <1>k, ZenonT(30) DEF Sure
    <2>2. StatementPass(c)'
        BY <1>e, <1>k, <2>1, ZenonT(30) DEF StatementPass
    <2> QED
        BY <1>e, <2>1, <2>2, <1>m, ZenonT(30)
  <1>d. pc[c] \in Driving =>
          /\ row.state = "running" /\ mem[c].set = row.set /\ Planned(mem[c]) /\ ~Fenced(c) /\ ~lostLeadership(c)
          /\ pc[c] \notin Failing => mem[c].state = "running"
          /\ \A j \in Keys : mem[c].per[j].state \in Kept => obj[mem[c].set][j] = Goal
          /\ \A j \in Keys : row.per[j].state \in Kept => mem[c].per[j].state \in Kept
      BY <1>a, <1>p, Leads, ZenonT(30) DEF PassRow, PassTypes, Driving, Attempting, Failing, StatementPass, Sure
  <1>w. ASSUME pc[c] \in Driving, NEW r \in Rows, row' = Saved(c, r)
        PROVE  row'.state = r.state /\ row'.set = r.set /\ row'.per = r.per
    <2>1. ~Held(r)
        BY <1>w, <1>d, ZenonT(30) DEF Held
    <2> QED
        BY <1>w, <1>d, <1>p, <2>1, SavedFields, ZenonT(30)
  <1>1. CASE Tick(c) \/ RunOnce(c) \/ SweepRewriteArtifacts(c)
      BY <1>1, <1>o, <1>v, TickDoes, RunOnceDoes, SweepDoes, ZenonT(30) DEF Driving, Attempting, Failing
  <1>4. CASE drive(c)
    <2>0. pc[c] = "drive" /\ obj' = obj
        BY <1>4, DriveDoes, ZenonT(30)
    <2>1. mem[c] = row /\ ~Fenced(c)
        BY <2>0, <1>a, <1>p, Leads, ZenonT(30) DEF PassRow
    <2>2. CASE OverNow(c) /\ \E r \in Rows : r.state = "failed" /\ row' = Saved(c, r)
      <3>1. row'.state = "failed"
          BY <2>1, <2>2, <1>p, SavedFields, SMTT(30) DEF Held
      <3> QED
          BY <2>0, <2>2, <3>1, <1>f, <1>v, ZenonT(30)
    <2>3. CASE row' = row /\ pc'[c] = "start"
        BY <2>0, <2>3, <1>o, ZenonT(30) DEF Driving, Attempting, Failing
    <2>4. CASE /\ mem[c].state = "running" /\ row' = row /\ mem'[c] = mem[c] /\ loc'[c] = Idle
               /\ pc'[c] = IF kind = "rewrite" THEN "columns" ELSE "next"
      <3>1. pc'[c] = "next" /\ pc'[c] \in Driving /\ pc'[c] \notin Attempting
          BY <2>4, <1>n, ZenonT(30) DEF Driving, Attempting
      <3>2. \A j \in Keys : ~(j < loc'[c].key)
          BY <2>4, KeySets, SMTT(30) DEF Idle, Keys, Shards, catalogKey
      <3> QED
          BY <2>0, <2>1, <2>4, <3>1, <3>2, <1>e, <1>p, ZenonT(30) DEF Sure
    <2> QED
        BY <1>4, <2>2, <2>3, <2>4, DriveDoes, ZenonT(30)
  <1>5. CASE Start(c)
    <2>0. pc[c] = "start" /\ obj' = obj
        BY <1>5, StartDoes, ZenonT(30)
    <2>1. CASE OverNow(c) /\ row' = row
        BY <2>0, <2>1, <1>o, <1>v, ZenonT(30)
    <2>2. CASE /\ ~Fenced(c) /\ ~Held(mem[c]) /\ row' = Saved(c, mem[c]) /\ mem'[c] = mem[c] /\ loc'[c] = Idle
               /\ pc'[c] = IF kind = "rewrite" THEN "columns" ELSE "next"
      <3>1. pc'[c] = "next" /\ pc'[c] \in Driving /\ pc'[c] \notin Attempting
          BY <2>2, <1>n, ZenonT(30) DEF Driving, Attempting
      <3>2. \A j \in Keys : ~(j < loc'[c].key)
          BY <2>2, KeySets, SMTT(30) DEF Idle, Keys, Shards, catalogKey
      <3>3. mem[c].state = "running" /\ \A j \in Keys : mem[c].per[j].state = "pending"
          BY <2>0, <1>p, SMTT(30) DEF PassTypes, Pending
      <3>4. row'.state = "running" /\ row'.set = mem[c].set /\ row'.per = mem[c].per
          BY <2>2, <3>3, <1>p, SavedFields, ZenonT(30)
      <3> QED
          BY <2>0, <2>2, <3>1, <3>2, <3>3, <3>4, <1>e, <1>p, ZenonT(30) DEF Kept
    <2> QED
        BY <1>5, <2>1, <2>2, StartDoes, ZenonT(30)
  <1>6. CASE NextKey(c)
    <2>0. pc[c] = "next" /\ row' = row /\ obj' = obj /\ pc[c] \in Driving
        BY <1>6, NextKeyDoes, ZenonT(30) DEF Driving
    <2>1. \A j \in Keys : j < k => mem[c].per[j].state \in Ended
        BY <2>0, <1>p, ZenonT(30) DEF StatementPass
    <2>n. \A j \in Keys : j \in Nat /\ k \in Nat
        BY <1>p, KeySets, ZenonT(30) DEF Places
    <2>2. CASE OverNow(c)
        BY <2>0, <2>2, <1>o, <1>v, ZenonT(30)
    <2>3. CASE /\ pc'[c] = "finish" /\ mem'[c] = mem[c]
               /\ \A j \in Keys : j >= k => mem[c].per[j].state \in Ended
      <3>1. \A j \in Keys : mem[c].per[j].state \in Ended
          BY <2>1, <2>3, <2>n, SMTT(30)
      <3>2. pc'[c] \in Driving /\ pc'[c] \notin Attempting \cup {"record", "next"}
          BY <2>3, ZenonT(30) DEF Driving, Attempting
      <3> QED
          BY <2>0, <2>3, <3>1, <3>2, <1>d, <1>e, <1>p, ZenonT(30)
    <2>4. CASE /\ pc'[c] = "finish"
               /\ catalogKey \in Keys /\ EntryOnly(mem[c], mem'[c], catalogKey)
               /\ mem'[c].per[catalogKey].state = "failed" /\ mem[c].per[catalogKey].state \notin Ended
               /\ \A j \in Keys : j >= k /\ j # catalogKey => mem[c].per[j].state \in Ended
      <3>0. mem'[c].set = mem[c].set /\ \A j \in Keys : j # catalogKey => mem'[c].per[j] = mem[c].per[j]
          BY <2>4, ZenonT(30) DEF EntryOnly
      <3>1. \A j \in Keys : mem'[c].per[j].state \in Ended
          BY <2>1, <2>4, <2>n, <3>0, SMTT(30) DEF Ended
      <3>2. pc'[c] \in Driving /\ pc'[c] \notin Attempting \cup {"record", "next"}
          BY <2>4, ZenonT(30) DEF Driving, Attempting
      <3>3. /\ \A j \in Keys : mem'[c].per[j].state \in Kept => obj'[mem'[c].set][j] = Goal
            /\ \A j \in Keys : row'.per[j].state \in Kept => mem'[c].per[j].state \in Kept
          BY <2>0, <2>4, <3>0, <1>d, ZenonT(30) DEF Kept, Ended
      <3> QED
          BY <2>0, <2>4, <3>0, <3>1, <3>2, <3>3, <1>d, <1>e, <1>p, ZenonT(30)
    <2>5. CASE /\ pc'[c] = "mark" /\ mem'[c] = mem[c]
               /\ loc'[c].key \in Keys /\ loc'[c].key >= k /\ mem[c].per[loc'[c].key].state \notin Ended
               /\ \A j \in Keys : j >= k /\ j < loc'[c].key => mem[c].per[j].state \in Ended
      <3>1. \A j \in Keys : j < loc'[c].key => mem[c].per[j].state \in Ended
          BY <2>1, <2>5, <2>n, SMTT(30)
      <3>2. pc'[c] \in Driving /\ pc'[c] \in Attempting
          BY <2>5, ZenonT(30) DEF Driving, Attempting
      <3> QED
          BY <2>0, <2>5, <3>1, <3>2, <1>d, <1>e, <1>p, ZenonT(30)
    <2> QED
        BY <1>6, <2>2, <2>3, <2>4, <2>5, NextKeyDoes, ZenonT(30)
  (* In an attempt at a key nothing is recorded of it yet. *)
  <1>h. pc[c] \in Attempting =>
          /\ pc[c] \in Driving /\ pc[c] \notin Failing /\ k \in Keys /\ mem[c].set \in Sets /\ k \in 1 .. catalogKey
          /\ mem[c].per[k].state \notin Ended /\ mem[c].per[k].state \notin Kept /\ row.per[k].state \notin Kept
          /\ \A j \in Keys : j < k => mem[c].per[j].state \in Ended
    <2> SUFFICES ASSUME pc[c] \in Attempting
                 PROVE  /\ pc[c] \in Driving /\ pc[c] \notin Failing /\ k \in Keys /\ mem[c].set \in Sets /\ k \in 1 .. catalogKey
                        /\ mem[c].per[k].state \notin Ended /\ mem[c].per[k].state \notin Kept /\ row.per[k].state \notin Kept
                        /\ \A j \in Keys : j < k => mem[c].per[j].state \in Ended
        BY ZenonT(30)
    <2>1. pc[c] \in Driving /\ pc[c] \notin Failing
        BY ZenonT(30) DEF Driving, Attempting, Failing
    <2>2. k \in Keys /\ mem[c].per[k].state \notin Ended /\ \A j \in Keys : j < k => mem[c].per[j].state \in Ended
        BY <1>p, ZenonT(30) DEF PassTypes, StatementPass
    <2>3. mem[c].set \in Sets /\ k \in 1 .. catalogKey
        BY <2>1, <2>2, <1>d, KeySets, ServingSet, ZenonT(30) DEF Planned, Types
    <2> QED
        BY <2>1, <2>2, <2>3, <1>d, ZenonT(30) DEF Kept, Ended
  (* The steps of an attempt that leave the shards alone. *)
  <1>x. ASSUME pc[c] \in Attempting, obj' = obj, EntryOnly(mem[c], mem'[c], k), loc'[c].key = k,
               row' = row \/ row' = Saved(c, mem'[c]),
               pc'[c] \in Attempting => mem'[c].per[k].state \notin Ended,
               pc'[c] = "record" => mem'[c].per[k].state \in Ended,
               pc'[c] \in Attempting \cup {"record"},
               mem'[c].per[k].state \in Kept => obj[mem[c].set][k] = Goal,
               pc'[c] = "after" => loc'[c].err \notin {"none", "skip"}
        PROVE  Done
    <2>1. /\ mem'[c] \in Rows /\ mem'[c].set = mem[c].set /\ mem'[c].state = mem[c].state
          /\ \A j \in Keys : j # k => mem'[c].per[j] = mem[c].per[j]
        BY <1>x, ZenonT(30) DEF EntryOnly, Planned
    <2>2. row'.state = "running" /\ row'.set = row.set /\ (row' = row \/ row'.per = mem'[c].per)
        BY <1>x, <1>h, <1>d, <1>w, <2>1, ZenonT(30)
    <2>3. \A j \in Keys : mem'[c].per[j].state \in Kept => obj'[mem'[c].set][j] = Goal
        BY <1>x, <1>h, <1>d, <2>1, ZenonT(30)
    <2>4. \A j \in Keys : row'.per[j].state \in Kept => mem'[c].per[j].state \in Kept
        BY <1>x, <1>h, <1>d, <2>1, <2>2, ZenonT(30)
    <2>n. \A j \in Keys : j < k => j # k
        BY <1>p, KeySets, SMTT(30) DEF Places
    <2>5. \A j \in Keys : j < k => mem'[c].per[j].state \in Ended
        BY <1>x, <1>h, <2>1, <2>n, ZenonT(30)
    <2>6. pc'[c] \in Driving /\ pc'[c] # "finish" /\ pc'[c] # "next"
        BY <1>x, ZenonT(30) DEF Driving, Attempting
    <2> QED
        BY <1>x, <1>h, <1>d, <2>1, <2>2, <2>3, <2>4, <2>5, <2>6, <1>e, <1>p, ZenonT(30)
  (* The steps of an attempt that touch the key's object. *)
  <1>y. ASSUME pc[c] \in Attempting, pc'[c] \in Attempting, row' = row, mem'[c] = mem[c], loc'[c].key = k,
               obj' = obj \/ \E o \in Objects : obj' = [obj EXCEPT ![mem[c].set][k] = o] /\ (kind \in DropKinds => o # "bad"),
               pc'[c] = "after" /\ loc'[c].err \in {"none", "skip"} => obj'[mem[c].set][k] = Goal
        PROVE  Done
    <2>0. mem[c].set \in Sets /\ k \in 1 .. catalogKey /\ Keys \subseteq 1 .. catalogKey /\ DataTypes
        BY <1>y, <1>h, KeySets, ZenonT(30) DEF Types
    <2>1. /\ \A s \in Sets, j \in 1 .. catalogKey : s # mem[c].set \/ j # k => obj'[s][j] = obj[s][j]
          /\ kind \in DropKinds => obj'[mem[c].set][k] # "bad"
      <3>1. CASE obj' = obj
          BY <3>1, <1>p, <2>0, ZenonT(30)
      <3>2. CASE \E o \in Objects : obj' = [obj EXCEPT ![mem[c].set][k] = o] /\ (kind \in DropKinds => o # "bad")
        <4>1. PICK o \in Objects : obj' = [obj EXCEPT ![mem[c].set][k] = o] /\ (kind \in DropKinds => o # "bad")
            BY <3>2, ZenonT(30)
        <4>2. PICK z \in Sets, i \in 1 .. catalogKey : z = mem[c].set /\ i = k
            BY <2>0, ZenonT(30)
        <4>3. obj' = [obj EXCEPT ![z][i] = o]
            BY <4>1, <4>2, ZenonT(30)
        <4>4. obj'[z][i] = o /\ \A s \in Sets, j \in 1 .. catalogKey : s # z \/ j # i => obj'[s][j] = obj[s][j]
          <5>1. z \in Sets /\ i \in 1 .. catalogKey /\ o \in Objects /\ DataTypes
              BY <2>0, <4>1, <4>2, ZenonT(30)
          <5>2. obj \in [Sets -> [1 .. catalogKey -> Objects]]
              BY <5>1, ZenonT(30) DEF DataTypes
          <5> HIDE DEF k, Done
          <5> QED
              BY <5>1, <5>2, <4>3, ZenonT(30)
        <4> QED
            BY <4>1, <4>2, <4>4, ZenonT(30)
      <3> QED
          BY <1>y, <3>1, <3>2, ZenonT(30)
    <2>2. kind \in DropKinds => \A s \in Sets, j \in 1 .. catalogKey : obj'[s][j] # "bad"
        BY <2>0, <2>1, <1>p, ZenonT(30)
    <2>3. \A j \in Keys : mem'[c].per[j].state \in Kept => obj'[mem'[c].set][j] = Goal
      <3>1. \A j \in Keys : j # k => obj'[mem[c].set][j] = obj[mem[c].set][j]
          BY <2>0, <2>1, ZenonT(30)
      <3> QED
          BY <1>y, <1>h, <1>d, <3>1, ZenonT(30)
    <2>4. pc'[c] \in Driving /\ pc'[c] \notin {"finish", "next", "record"}
        BY <1>y, ZenonT(30) DEF Driving, Attempting
    <2> QED
        BY <1>y, <1>h, <1>d, <2>2, <2>3, <2>4, <1>e, ZenonT(30)
  <1>8. CASE Mark(c)
    <2>0. pc[c] = "mark" /\ pc[c] \in Attempting /\ obj' = obj
        BY <1>8, MarkDoes, ZenonT(30) DEF Attempting
    <2>1. /\ EntryOnly(mem[c], mem'[c], k) /\ mem'[c].per[k].state = "running" /\ loc'[c].key = k
          /\ \/ pc'[c] = "check" /\ row' = Saved(c, mem'[c])
             \/ pc'[c] = "after" /\ row' = row /\ loc'[c].err = "save"
        BY <1>8, <2>0, <1>h, <1>d, MarkDoes, ZenonT(30) DEF SamePlace
    <2> QED
        BY <2>0, <2>1, <1>x, ZenonT(30) DEF Attempting, Ended, Kept
  <1>9. CASE Check(c)
    <2>0. pc[c] = "check" /\ pc[c] \in Attempting /\ row' = row /\ mem'[c] = mem[c] /\ loc'[c].key = k /\ pc'[c] \in Attempting
        BY <1>9, CheckDoes, ZenonT(30) DEF Attempting, SamePlace
    <2>1. AlreadyDone(c) => obj[mem[c].set][k] = Goal
        BY <1>n, ZenonT(30) DEF AlreadyDone, Here
    <2>2. obj' = obj \/ (obj' = [obj EXCEPT ![mem[c].set][k] = "no"] /\ pc'[c] = "exec")
        BY <1>9, CheckDoes, ZenonT(30)
    <2>3. pc'[c] = "after" /\ loc'[c].err \in {"none", "skip"} => obj' = obj /\ AlreadyDone(c)
        BY <1>9, CheckDoes, ZenonT(30)
    <2>4. obj' = obj \/ \E o \in Objects : obj' = [obj EXCEPT ![mem[c].set][k] = o] /\ (kind \in DropKinds => o # "bad")
        BY <2>2, ZenonT(30) DEF Objects
    <2> QED
        BY <2>0, <2>1, <2>3, <2>4, <1>y, ZenonT(30)
  <1>10. CASE Exec(c)
    <2>0. pc[c] = "exec" /\ pc[c] \in Attempting /\ row' = row /\ mem'[c] = mem[c] /\ pc'[c] = "after" /\ pc'[c] \in Attempting
        BY <1>10, ExecDoes, ZenonT(30) DEF Attempting
    <2>1. PICK a \in {Answer(c)} \cup Faulty(c) :
            obj' = [obj EXCEPT ![mem[c].set][k] = a[1]] /\ loc'[c] = [loc[c] EXCEPT !.err = a[2]]
        BY <1>10, ExecDoes, ZenonT(30)
    <2>2. Here(c) \in Objects /\ (kind \in DropKinds => Here(c) # "bad")
        BY <2>0, <1>h, <1>p, ZenonT(30) DEF Here, Types, DataTypes
    <2>3. /\ a[1] \in Objects /\ (a[2] \in {"none", "skip"} => a[1] = Goal)
          /\ kind \in DropKinds => a[1] # "bad"
        BY <2>2, <1>n, Answers, ZenonT(30)
    <2>4. loc'[c].key = k /\ loc'[c].err = a[2]
        BY <2>1, <1>p, ZenonT(30) DEF Places
    <2>5. obj'[mem[c].set][k] = a[1]
      <3>1. mem[c].set \in Sets /\ k \in 1 .. catalogKey /\ DataTypes
          BY <2>0, <1>h, ZenonT(30) DEF Types
      <3> QED
          BY <2>1, <2>3, <3>1, ObjPut, ZenonT(60)
    <2> QED
        BY <2>0, <2>1, <2>3, <2>4, <2>5, <1>y, ZenonT(30)
  <1>12. CASE After(c)
    <2>0. pc[c] = "after" /\ pc[c] \in Attempting /\ obj' = obj /\ EntryOnly(mem[c], mem'[c], k) /\ loc'[c].key = k
        BY <1>12, AfterDoes, ZenonT(30) DEF Attempting, SamePlace
    <2>1. \/ /\ pc'[c] = "record" /\ row' = row /\ mem'[c].per[k].state \in Ended
             /\ mem'[c].per[k].state \in Kept => loc[c].err \in {"none", "skip"}
          \/ /\ pc'[c] = "sleep" /\ mem'[c].per[k].state = "retrying"
             /\ row' = row \/ row' = Saved(c, mem'[c])
        BY <1>12, <2>0, <1>h, <1>d, AfterDoes, ZenonT(30) DEF Ended, Kept
    <2>2. loc[c].err \in {"none", "skip"} => obj[mem[c].set][k] = Goal
        BY <2>0, <1>p, ZenonT(30) DEF StatementPass
    <2> QED
        BY <2>0, <2>1, <2>2, <1>x, ZenonT(30) DEF Attempting, Ended, Kept
  <1>13. CASE Wake(c)
    <2>0. pc[c] = "sleep" /\ pc[c] \in Attempting /\ row' = row /\ obj' = obj /\ mem'[c] = mem[c] /\ loc'[c] = loc[c]
        BY <1>13, WakeDoes, ZenonT(30) DEF Attempting
    <2>1. pc'[c] = "mark"
        BY <1>13, <2>0, <1>h, <1>d, WakeDoes, ZenonT(30)
    <2> QED
        BY <2>0, <2>1, <1>y, ZenonT(30) DEF Attempting
  <1>14. CASE Record(c)
    <2>0. pc[c] = "record" /\ obj' = obj /\ pc[c] \in Driving /\ ~StepsLeft(c)
        BY <1>14, <1>n, RecordDoes, ZenonT(30) DEF Driving, StepsLeft
    <2>1. PICK r : /\ Planned(r) /\ r.state = mem[c].state /\ r.set = mem[c].set
                   /\ \A j \in Keys : j # k => r.per[j] = mem[c].per[j]
                   /\ NextEntry(c, r.per[k]) /\ row' = Saved(c, r)
                   /\ mem'[c] = r /\ pc'[c] = "next" /\ loc'[c] = [Idle EXCEPT !.key = k + 1]
        BY <1>14, <2>0, <1>n, <1>d, RecordDoes, ZenonT(30)
    <2>2. r.per[k].state = mem[c].per[k].state
        BY <2>1, <1>n, ZenonT(30) DEF NextEntry
    <2>3. row'.state = "running" /\ row'.set = r.set /\ row'.per = r.per
        BY <2>0, <2>1, <1>d, <1>w, ZenonT(30) DEF Planned, Failing
    <2>4. k \in Keys /\ mem[c].per[k].state \in Ended /\ \A j \in Keys : j < k => mem[c].per[j].state \in Ended
        BY <2>0, <1>p, ZenonT(30) DEF PassTypes, StatementPass
    <2>5. loc'[c].key = k + 1
        BY <2>1, Blank, ZenonT(30) DEF Places
    <2>6. \A j \in Keys : j < k + 1 => j < k \/ j = k
        BY <1>p, KeySets, SMTT(30) DEF Places
    <2>7. \A j \in Keys : r.per[j].state = mem[c].per[j].state
        BY <2>1, <2>2, ZenonT(30)
    <2>8. \A j \in Keys : j < loc'[c].key => mem'[c].per[j].state \in Ended
        BY <2>1, <2>4, <2>5, <2>6, <2>7, ZenonT(30)
    <2>9. pc'[c] = "next" /\ pc'[c] \in Driving /\ pc'[c] \notin Attempting
        BY <2>1, ZenonT(30) DEF Driving, Attempting
    <2>10. \A j \in Keys : mem'[c].per[j].state \in Kept => obj'[mem'[c].set][j] = Goal
        BY <2>0, <2>1, <2>7, <1>d, ZenonT(30)
    <2> QED
        BY <2>0, <2>1, <2>3, <2>8, <2>9, <2>10, <1>e, <1>p, ZenonT(30)
  <1>15. CASE Finish(c)
    <2>0. pc[c] = "finish" /\ pc[c] \in Driving /\ OverNow(c) /\ obj' = obj
        BY <1>15, FinishDoes, ZenonT(30) DEF Driving
    <2>1. PICK r : /\ Planned(r) /\ r.state \in Final /\ r.per = mem[c].per /\ r.set = mem[c].set
                   /\ kind # "rewrite" /\ r.state = "complete" => ~anyFailed(r.per)
                   /\ row' = Saved(c, r)
        BY <1>15, FinishDoes, ZenonT(30)
    <2>2. row'.state = r.state /\ row'.set = r.set /\ row'.per = r.per
        BY <2>0, <2>1, <1>w, ZenonT(30) DEF Planned
    <2>3. \A j \in Keys : mem[c].per[j].state \in Ended
        BY <2>0, <1>p, ZenonT(30) DEF StatementPass
    <2>4. CASE r.state = "failed"
        BY <2>0, <2>2, <2>4, <1>f, <1>v, ZenonT(30)
    <2>5. CASE r.state = "complete"
      <3>1. \A j \in Keys : r.per[j].state # "failed"
          BY <2>1, <2>5, <1>n, ZenonT(30) DEF anyFailed, Planned
      <3>2. \A j \in Keys : row'.per[j].state \in Kept
          BY <2>1, <2>2, <2>3, <3>1, ZenonT(30) DEF Kept, Ended
      <3>3. Sure(row)'
          BY <2>0, <2>1, <2>2, <1>d, <1>k, ZenonT(30) DEF Sure
      <3> QED
          BY <2>0, <3>2, <3>3, <1>m, <1>i, <1>v, <1>p, ZenonT(30)
    <2> QED
        BY <2>1, <2>4, <2>5, ZenonT(30) DEF Final
  <1>16. CASE NextPhase(c) \/ rewritePhase(c)
      BY <1>16, <1>n, NextPhaseDoes, RewriteDoes, ZenonT(30)
  <1>17. CASE recordRewriteColumns(c) \/ settleColumns(c) \/ failRewrite(c) \/ revertRewrite(c) \/ FailSave(c)
    <2>1. pc[c] \in {"columns", "settle", "probe", "revert", "failed"}
        BY <1>17, ColumnsDoes, SettleDoes, FailRewriteDoes, RevertDoes, FailSaveDoes, ZenonT(30)
    <2> QED
        BY <2>1, <1>n, <1>p, ZenonT(30) DEF PassTypes, Failing
  <1>21. CASE SaveFails(c)
      BY <1>21, <1>o, <1>v, SaveFailsDoes, ZenonT(30)
  <1>22. CASE Abandon(c)
      BY <1>22, <1>a, AbandonDoes, Leads, ZenonT(30)
  <1> QED
      BY <1>1, <1>4, <1>5, <1>6, <1>8, <1>9, <1>10, <1>12, <1>13, <1>14, <1>15, <1>16, <1>17, <1>21, <1>22, ZenonT(30) DEF Work


----------------------------------------------------------------------------
(* Online rewrites *)

RewritePass(c) ==
    /\ pc[c] \in Driving => \A k \in Shards : row.per[k].step = mem[c].per[k].step
    /\ pc[c] \in Attempting \cup {"record", "phase"} =>
         \A k \in Shards : mem[c].per[k].state # "failed" => Ahead(mem[c].per[k].step, k, loc[c])
    /\ pc[c] \in Attempting \cup {"record"} =>
         mem[c].per[loc[c].key].step = loc[c].phase
    /\ pc[c] = "after" => loc[c].err # "skip"
    /\ pc[c] = "after" /\ loc[c].err = "none" => StepTrue(loc[c].phase + 1, tab[mem[c].set][loc[c].key])
    /\ pc[c] = "record" =>
         /\ mem[c].per[loc[c].key].state \in {"applied", "failed"}
         /\ mem[c].per[loc[c].key].state = "applied" => StepTrue(loc[c].phase + 1, tab[mem[c].set][loc[c].key])
    /\ pc[c] \in Failing /\ ~mem[c].degraded => \A k \in Shards : tab[mem[c].set][k].col # "new"

(* What the row says of the tables of the shard sets. *)
RewriteRow ==
    /\ row.state \in {"none", "queued", "running"} =>
         \A s \in Sets, k \in Shards : s > row.set => tab[s][k].col # "new"
    /\ row.state = "running" => \A k \in Shards : StepTrue(row.per[k].step, tab[row.set][k])
    /\ row.state = "failed" => row.set \in Sets \/ DOMAIN row.per = {}
    /\ row.state = "failed" /\ ~row.degraded => \A k \in DOMAIN row.per : tab[row.set][k].col # "new"

Rewrite == kind = "rewrite" => RewriteRow /\ \A c \in Controllers : RewritePass(c)

Converted == \A s \in Sets, k \in Shards : tab[s][k].col = "new" => tab[s][k].full

CleanInv == NoZombie => OnePass /\ Statement /\ Converted /\ Rewrite

----------------------------------------------------------------------------
(* What is recorded of an online rewrite is true *)

LEMMA SweptStep ==
    ASSUME NEW t \in Tables, NEW n, StepTrue(n, t)
    PROVE  StepTrue(n, Swept(t))
  BY SweptTable, ZenonT(30) DEF StepTrue

LEMMA StepNone == ASSUME NEW t \in Tables, t.col # "new" PROVE StepTrue(0, t)
  BY SMTT(30) DEF StepTrue, rewriteBackfill, rewriteCutover

(* A table swept, of whichever shard, leaves what is recorded true. *)
LEMMA SweptData ==
    ASSUME Types, NEW s \in Sets, NEW k \in Shards, tab' = [tab EXCEPT ![s][k] = Swept(tab[s][k])],
           row' = row, kind' = kind, kind = "rewrite"
    PROVE  /\ Converted => Converted'
           /\ RewriteRow => RewriteRow'
           /\ \A z \in Sets, j \in Shards : tab'[z][j].col = "new" => tab[z][j].col = "new"
  <1>1. Swept(tab[s][k]) \in Tables /\ tab[s][k] \in Tables
      BY SweptTable, ZenonT(30) DEF Types, DataTypes
  <1>2. tab'[s][k] = Swept(tab[s][k]) /\ \A z \in Sets, j \in Shards : z # s \/ j # k => tab'[z][j] = tab[z][j]
    <2>1. tab \in [Sets -> [Shards -> Tables]]
        BY ZenonT(30) DEF Types, DataTypes
    <2> QED
        BY <2>1, ZenonT(30)
  <1>3. \A z \in Sets, j \in Shards : tab'[z][j].col = "new" => tab[z][j].col = "new" /\ (tab[z][j].full => tab'[z][j].full)
      BY <1>1, <1>2, SweptTable, SMTT(30)
  <1>4. Converted => Converted'
      BY <1>3, ZenonT(30) DEF Converted
  <1>5. \A z \in Sets, j \in Shards, n \in Nat : StepTrue(n, tab[z][j]) => StepTrue(n, tab'[z][j])
      BY <1>1, <1>2, SweptStep, ZenonT(30)
  <1>6. RewriteRow => RewriteRow'
    <2> SUFFICES ASSUME RewriteRow PROVE RewriteRow'
        BY ZenonT(30)
    <2>k. Keys = Shards /\ row \in Rows /\ RowTypes
        BY KeySets, ZenonT(30) DEF Types, DataTypes
    <2>1. row.state \in {"none", "queued", "running"} => \A z \in Sets, j \in Shards : z > row.set => tab'[z][j].col # "new"
        BY <1>3, ZenonT(30) DEF RewriteRow
    <2>2. row.state = "running" => \A j \in Shards : StepTrue(row.per[j].step, tab'[row.set][j])
      <3> SUFFICES ASSUME row.state = "running", NEW j \in Shards PROVE StepTrue(row.per[j].step, tab'[row.set][j])
          BY ZenonT(30)
      <3>1. row.set \in Sets /\ row.per[j].step \in Nat
          BY <2>k, ServingSet, ZenonT(30) DEF Types, RowTypes, Planned, Entry
      <3> QED
          BY <3>1, <1>5, ZenonT(30) DEF RewriteRow
    <2>3. row.state = "failed" /\ ~row.degraded => \A j \in DOMAIN row.per : tab'[row.set][j].col # "new"
      <3> SUFFICES ASSUME row.state = "failed", ~row.degraded, NEW j \in DOMAIN row.per PROVE tab'[row.set][j].col # "new"
          BY ZenonT(30)
      <3>1. row.set \in Sets /\ j \in Shards
          BY <2>k, ZenonT(30) DEF RewriteRow, Rows
      <3> QED
          BY <3>1, <1>3, ZenonT(30) DEF RewriteRow
    <2> QED
        BY <2>1, <2>2, <2>3, ZenonT(30) DEF RewriteRow
  <1> QED
      BY <1>3, <1>4, <1>6, ZenonT(30)

LEMMA PlainConverted ==
    ASSUME Types, Converted, kind # "rewrite", NEW c \in Controllers, Work(c) \/ Abandon(c) \/ SaveFails(c)
    PROVE  Converted'
  <1>p. PassTypes(c)
      BY Own, ZenonT(30)
  <1>1. tab' = tab \/ SweepRewriteArtifacts(c)
    <2>1. ~revertRewrite(c) /\ ~rewritePhase(c)
        BY <1>p, RevertDoes, RewriteDoes, ZenonT(30) DEF PassTypes, Failing
    <2> QED
        BY <2>1, TickDoes, RunOnceDoes, DriveDoes, StartDoes, NextKeyDoes, NextPhaseDoes, MarkDoes, CheckDoes, ExecDoes, AfterDoes,
           WakeDoes, RecordDoes, FinishDoes, ColumnsDoes, SettleDoes, FailRewriteDoes, FailSaveDoes, SaveFailsDoes, AbandonDoes, ZenonT(30)
           DEF Work
  <1>2. CASE tab' = tab
      BY <1>2, ZenonT(30) DEF Converted
  <1>3. CASE tab' = [tab EXCEPT ![serving][loc[c].key] = Swept(tab[serving][loc[c].key])] /\ loc[c].key \in Shards
    <2>1. PICK s \in Sets, k \in Shards : s = serving /\ k = loc[c].key
        BY <1>3, ServingSet, ZenonT(30) DEF Types
    <2>2. tab' = [tab EXCEPT ![s][k] = Swept(tab[s][k])]
        BY <1>3, <2>1, ZenonT(30)
    <2>3. Swept(tab[s][k]) \in Tables /\ tab[s][k] \in Tables
        BY SweptTable, ZenonT(30) DEF Types, DataTypes
    <2>4. tab'[s][k] = Swept(tab[s][k]) /\ \A z \in Sets, j \in Shards : z # s \/ j # k => tab'[z][j] = tab[z][j]
      <3>1. tab \in [Sets -> [Shards -> Tables]] /\ s \in Sets /\ k \in Shards
          BY ZenonT(30) DEF Types, DataTypes
      <3> QED
          BY <2>2, <3>1, ZenonT(30)
    <2> QED
        BY <2>3, <2>4, SweptTable, SMTT(30) DEF Converted
  <1> QED
      BY <1>1, <1>2, <1>3, SweepDoes, ZenonT(30)

LEMMA RewriteStep ==
    ASSUME Types, OnePass, Converted, Rewrite, kind = "rewrite", NEW c \in Controllers, Work(c) \/ Abandon(c) \/ SaveFails(c)
    PROVE  Converted' /\ Rewrite'
  <1> DEFINE Done == Converted' /\ Rewrite'
             k == loc[c].key
  <1> SUFFICES Done
      BY ZenonT(30)
  <1>a. OneLeader /\ Alone(c) /\ \A d \in Controllers : d # c => pc'[d] = "idle"
      BY WorkAlone, LeaderStep, ZenonT(30) DEF OnePass
  <1>k. kind' = kind /\ Keys = Shards /\ Keys' = Keys
      BY <1>a, KeySets, ZenonT(30) DEF Alone, Keys
  <1>p. /\ mem[c] \in Rows /\ loc[c] \in Places /\ row \in Rows /\ PassTypes(c) /\ PassRow(c)
        /\ RewritePass(c) /\ RewriteRow /\ RowTypes
      BY Own, ZenonT(30) DEF Types, DataTypes, OnePass, Rewrite
  <1>m. Converted' /\ RewriteRow' /\ RewritePass(c)' => Done
    <2>1. ASSUME NEW d \in Controllers, d # c PROVE RewritePass(d)'
      <3>1. pc'[d] = "idle"
          BY <2>1, <1>a, ZenonT(30)
      <3> QED
          BY <3>1, ZenonT(30) DEF RewritePass, Driving, Attempting, Failing
    <2> QED
        BY <2>1, ZenonT(30) DEF Rewrite
  <1>i. pc'[c] \notin Driving => RewritePass(c)'
      BY ZenonT(30) DEF RewritePass, Driving, Attempting, Failing
  <1>t. tab' = tab => Converted'
      BY ZenonT(30) DEF Converted
  <1>r. row' = row /\ tab' = tab => RewriteRow'
      BY <1>p, ZenonT(30) DEF RewriteRow
  <1>v. OverNow(c) => pc'[c] \notin Driving
      BY ZenonT(30) DEF OverNow, Driving, Attempting, Failing
  <1>o. row' = row /\ tab' = tab /\ pc'[c] \notin Driving => Done
      BY <1>i, <1>m, <1>r, <1>t, ZenonT(30)
  <1> HIDE DEF Done
  <1>d. pc[c] \in Driving =>
          /\ row.state = "running" /\ mem[c].set = row.set /\ Planned(mem[c]) /\ Planned(row) /\ ~Fenced(c) /\ ~lostLeadership(c)
          /\ mem[c].set \in Sets
          /\ \A j \in Shards : /\ row.per[j].step = mem[c].per[j].step /\ mem[c].per[j].step \in Nat
                               /\ StepTrue(mem[c].per[j].step, tab[mem[c].set][j])
    <2> SUFFICES ASSUME pc[c] \in Driving
                 PROVE  /\ row.state = "running" /\ mem[c].set = row.set /\ Planned(mem[c]) /\ Planned(row) /\ ~Fenced(c) /\ ~lostLeadership(c)
                        /\ mem[c].set \in Sets
                        /\ \A j \in Shards : /\ row.per[j].step = mem[c].per[j].step /\ mem[c].per[j].step \in Nat
                                             /\ StepTrue(mem[c].per[j].step, tab[mem[c].set][j])
        BY ZenonT(30)
    <2>1. row.state = "running" /\ mem[c].set = row.set /\ Planned(mem[c]) /\ Planned(row)
        BY <1>p, ZenonT(30) DEF PassRow, PassTypes, RowTypes
    <2>2. ~Fenced(c) /\ ~lostLeadership(c)
        BY <1>a, Leads, ZenonT(30) DEF Driving, Attempting, Failing
    <2>3. mem[c].set \in Sets
        BY <2>1, ServingSet, ZenonT(30) DEF Planned, Types
    <2>4. \A j \in Shards : row.per[j].step = mem[c].per[j].step /\ StepTrue(row.per[j].step, tab[row.set][j])
        BY <2>1, <1>p, ZenonT(30) DEF RewritePass, RewriteRow
    <2>5. \A j \in Shards : mem[c].per[j].step \in Nat
        BY <2>1, <1>k, ZenonT(30) DEF Planned, Entry
    <2> QED
        BY <2>1, <2>2, <2>3, <2>4, <2>5, ZenonT(30)
  <1>w. ASSUME pc[c] \in Driving, NEW r \in Rows, row' = Saved(c, r)
        PROVE  row'.state = r.state /\ row'.set = r.set /\ row'.per = r.per /\ row'.degraded = r.degraded
    <2>1. ~Held(r)
        BY <1>w, <1>d, ZenonT(30) DEF Held
    <2> QED
        BY <1>w, <1>d, <1>p, <2>1, SavedFields, ZenonT(30)
  (* The row goes on with the same steps, on the same set. *)
  <1>s. ASSUME pc[c] \in Driving, tab' = tab, row'.state = "running", row'.set = row.set,
               \A j \in Shards : row'.per[j].step = mem[c].per[j].step
        PROVE  RewriteRow' /\ Converted'
    <2>1. RewriteRow'
        BY <1>s, <1>d, <1>p, ZenonT(30) DEF RewriteRow
    <2> QED
        BY <2>1, <1>s, <1>t, ZenonT(30)
  (* From one step of the loops to the next. *)
  <1>e. ASSUME pc'[c] \in Attempting \cup {"record", "phase"},
               \A j \in Shards : row'.per[j].step = mem'[c].per[j].step,
               \A j \in Shards : mem'[c].per[j].state # "failed" => Ahead(mem'[c].per[j].step, j, loc'[c]),
               pc'[c] # "phase" => mem'[c].per[loc'[c].key].step = loc'[c].phase,
               pc'[c] = "after" =>
                 /\ loc'[c].err # "skip"
                 /\ loc'[c].err = "none" => StepTrue(loc'[c].phase + 1, tab'[mem'[c].set][loc'[c].key]),
               pc'[c] = "record" =>
                 /\ mem'[c].per[loc'[c].key].state \in {"applied", "failed"}
                 /\ mem'[c].per[loc'[c].key].state = "applied" => StepTrue(loc'[c].phase + 1, tab'[mem'[c].set][loc'[c].key])
        PROVE  RewritePass(c)'
    <2>1. pc'[c] \notin Failing
        BY <1>e, ZenonT(30) DEF Attempting, Failing
    <2>2. pc'[c] \in Attempting \cup {"record"} => pc'[c] # "phase"
        BY ZenonT(30) DEF Attempting
    <2> QED
        BY <1>e, <2>1, <2>2, ZenonT(30) DEF RewritePass
  <1>1. CASE Tick(c) \/ RunOnce(c)
      BY <1>1, <1>o, TickDoes, RunOnceDoes, ZenonT(30) DEF Driving, Attempting, Failing
  <1>3. CASE SweepRewriteArtifacts(c)
    <2>0. row' = row /\ pc'[c] \notin Driving /\ k \in Shards
        BY <1>3, <1>v, SweepDoes, ZenonT(30) DEF Driving, Attempting, Failing
    <2>1. CASE tab' = tab
        BY <2>0, <2>1, <1>o, ZenonT(30)
    <2>2. CASE tab' = [tab EXCEPT ![serving][k] = Swept(tab[serving][k])]
      <3>1. PICK s \in Sets, j \in Shards : s = serving /\ j = k
          BY <2>0, ServingSet, ZenonT(30) DEF Types
      <3>2. tab' = [tab EXCEPT ![s][j] = Swept(tab[s][j])]
          BY <2>2, <3>1, ZenonT(30)
      <3>3. Converted' /\ RewriteRow'
          BY <2>0, <3>2, <1>k, <1>p, SweptData, ZenonT(30)
      <3> QED
          BY <2>0, <3>3, <1>i, <1>m, ZenonT(30)
    <2> QED
        BY <1>3, <2>1, <2>2, SweepDoes, ZenonT(30)
  <1>4. CASE drive(c)
    <2>0. pc[c] = "drive" /\ tab' = tab
        BY <1>4, DriveDoes, ZenonT(30)
    <2>1. mem[c] = row /\ ~Fenced(c)
        BY <2>0, <1>a, <1>p, Leads, ZenonT(30) DEF PassRow
    <2>2. CASE /\ OverNow(c) /\ (mem[c].state = "queued" \/ (mem[c].state = "running" /\ mem[c].set # serving))
               /\ \E r \in Rows : /\ r.state = "failed" /\ r.set = mem[c].set /\ r.per = mem[c].per
                                  /\ r.degraded <=> (mem[c].state = "running" /\ mem[c].set # serving)
                                  /\ row' = Saved(c, r)
      <3>1. PICK r \in Rows : /\ r.state = "failed" /\ r.set = mem[c].set /\ r.per = mem[c].per
                              /\ r.degraded <=> (mem[c].state = "running" /\ mem[c].set # serving)
                              /\ row' = Saved(c, r)
          BY <2>2, ZenonT(30)
      <3>2. row'.state = "failed" /\ row'.set = mem[c].set /\ row'.per = mem[c].per /\ row'.degraded = r.degraded
          BY <2>1, <3>1, <1>p, SavedFields, ZenonT(30) DEF Held
      <3>3. CASE mem[c].state = "queued"
        <4>1. DOMAIN row'.per = {}
            BY <2>0, <2>1, <3>2, <3>3, <1>p, ZenonT(30) DEF PassTypes, Unplanned
        <4>2. RewriteRow'
            BY <3>2, <4>1, ZenonT(30) DEF RewriteRow
        <4> QED
            BY <2>0, <2>2, <4>2, <1>i, <1>m, <1>t, <1>v, ZenonT(30)
      <3>4. CASE mem[c].state = "running" /\ mem[c].set # serving
        <4>1. row'.degraded /\ row'.set \in Sets
            BY <2>0, <2>1, <3>1, <3>2, <3>4, <1>p, ServingSet, ZenonT(30) DEF PassTypes, Planned, Types
        <4>2. RewriteRow'
            BY <3>2, <4>1, ZenonT(30) DEF RewriteRow
        <4> QED
            BY <2>0, <2>2, <4>2, <1>i, <1>m, <1>t, <1>v, ZenonT(30)
      <3> QED
          BY <2>2, <3>3, <3>4, ZenonT(30)
    <2>3. CASE row' = row /\ pc'[c] = "start"
        BY <2>0, <2>3, <1>o, ZenonT(30) DEF Driving, Attempting, Failing
    <2>4. CASE /\ mem[c].state = "running" /\ row' = row /\ mem'[c] = mem[c] /\ loc'[c] = Idle
               /\ pc'[c] = IF kind = "rewrite" THEN "columns" ELSE "next"
      <3>1. RewritePass(c)'
          BY <2>1, <2>4, ZenonT(30) DEF RewritePass, Attempting, Failing
      <3> QED
          BY <2>0, <2>4, <3>1, <1>m, <1>r, <1>t, ZenonT(30)
    <2> QED
        BY <1>4, <2>2, <2>3, <2>4, DriveDoes, ZenonT(30)
  <1>5. CASE Start(c)
    <2>0. pc[c] = "start" /\ tab' = tab
        BY <1>5, StartDoes, ZenonT(30)
    <2>1. CASE OverNow(c) /\ row' = row
        BY <2>0, <2>1, <1>o, <1>v, ZenonT(30)
    <2>2. CASE /\ ~Fenced(c) /\ ~Held(mem[c]) /\ row' = Saved(c, mem[c]) /\ mem'[c] = mem[c] /\ loc'[c] = Idle
               /\ pc'[c] = IF kind = "rewrite" THEN "columns" ELSE "next"
      <3>1. mem[c].state = "running" /\ Planned(mem[c]) /\ \A j \in Shards : mem[c].per[j].step = 0
          BY <2>0, <1>k, <1>p, SMTT(30) DEF PassTypes, Pending
      <3>2. row'.state = "running" /\ row'.set = mem[c].set /\ row'.per = mem[c].per
          BY <2>2, <3>1, <1>p, SavedFields, ZenonT(30)
      <3>3. mem[c].set \in Sets /\ row.set \in Nat /\ mem[c].set \in Nat
          BY <3>1, <1>p, ServingSet, ZenonT(30) DEF Planned, Types, Rows
      <3>4. row.state \in {"queued", "running"} /\ row.set < mem[c].set
          BY <2>0, <1>p, ZenonT(30) DEF PassRow
      <3>5. \A s \in Sets, j \in Shards : s > row.set => tab[s][j].col # "new"
          BY <3>4, <1>p, ZenonT(30) DEF RewriteRow
      <3>6. \A s \in Sets, j \in Shards : s > mem[c].set => tab[s][j].col # "new"
          BY <3>3, <3>4, <3>5, SMTT(30) DEF Sets
      <3>7. \A j \in Shards : StepTrue(row'.per[j].step, tab'[row'.set][j])
        <4>1. \A j \in Shards : tab[mem[c].set][j] \in Tables /\ tab[mem[c].set][j].col # "new"
            BY <3>3, <3>4, <3>5, ZenonT(30) DEF Types, DataTypes
        <4> QED
            BY <2>0, <3>1, <3>2, <4>1, StepNone, ZenonT(30)
      <3>8. RewriteRow'
          BY <2>0, <3>2, <3>6, <3>7, ZenonT(30) DEF RewriteRow
      <3>9. RewritePass(c)'
          BY <2>2, <3>2, ZenonT(30) DEF RewritePass, Attempting, Failing
      <3> QED
          BY <2>0, <3>8, <3>9, <1>m, <1>t, ZenonT(30)
    <2> QED
        BY <1>5, <2>1, <2>2, StartDoes, ZenonT(30)
  (* In an attempt at a phase the shard stands at it. *)
  <1>h. pc[c] \in Attempting \cup {"record"} =>
          /\ pc[c] \in Driving /\ k \in Shards /\ loc[c].phase \in rewriteAdd .. rewriteValidate
          /\ mem[c].per[k].step = loc[c].phase
          /\ \A j \in Shards : mem[c].per[j].state # "failed" => Ahead(mem[c].per[j].step, j, loc[c])
    <2>1. pc[c] \in Attempting \cup {"record"} =>
            /\ pc[c] \in Driving /\ k \in Keys /\ loc[c].phase <= rewriteValidate /\ mem[c].per[k].step = loc[c].phase
            /\ \A j \in Shards : mem[c].per[j].state # "failed" => Ahead(mem[c].per[j].step, j, loc[c])
        BY <1>p, ZenonT(30) DEF PassTypes, RewritePass, Driving
    <2>2. loc[c].phase \in Nat
        BY <1>p, ZenonT(30) DEF Places
    <2> QED
        BY <2>1, <2>2, <1>k, SMTT(30) DEF rewriteAdd, rewriteValidate
  (* The steps of an attempt that leave the shard alone. *)
  <1>x. ASSUME pc[c] \in Attempting, tab' = tab, EntryOnly(mem[c], mem'[c], k), SamePlace(loc[c], loc'[c]),
               row' = row \/ row' = Saved(c, mem'[c]),
               pc'[c] \in Attempting \cup {"record"},
               pc'[c] = "after" => loc'[c].err \notin {"none", "skip"},
               pc'[c] = "record" =>
                 /\ mem'[c].per[k].state \in {"applied", "failed"}
                 /\ mem'[c].per[k].state = "applied" => StepTrue(loc[c].phase + 1, tab[mem[c].set][k])
        PROVE  Done
    <2>0. pc[c] \in Driving /\ k \in Shards /\ k \in Nat /\ loc'[c].key = k /\ loc'[c].phase = loc[c].phase /\ pc[c] \notin Failing
        BY <1>x, <1>h, <1>p, ZenonT(30) DEF SamePlace, Places, Attempting, Failing
    <2>1. /\ mem'[c] \in Rows /\ mem'[c].set = mem[c].set /\ mem'[c].state = mem[c].state
          /\ mem'[c].per[k].step = mem[c].per[k].step
          /\ \A j \in Shards : j # k => mem'[c].per[j] = mem[c].per[j]
        BY <1>x, <1>k, ZenonT(30) DEF EntryOnly, Planned
    <2>2. mem[c].state = "running"
        BY <2>0, <1>p, ZenonT(30) DEF PassTypes
    <2>3. \A j \in Shards : mem'[c].per[j].step = mem[c].per[j].step
        BY <2>1, ZenonT(30)
    <2>4. row' = row \/ (row'.state = "running" /\ row'.set = mem[c].set /\ row'.per = mem'[c].per)
        BY <1>x, <1>w, <2>0, <2>1, <2>2, ZenonT(30)
    <2>5. row'.state = "running" /\ row'.set = row.set /\ \A j \in Shards : row'.per[j].step = mem[c].per[j].step
        BY <2>0, <2>3, <2>4, <1>d, ZenonT(30)
    <2>6. RewriteRow' /\ Converted'
        BY <1>x, <1>s, <2>0, <2>5, ZenonT(30)
    <2>7. \A j \in Shards : mem'[c].per[j].state # "failed" => Ahead(mem'[c].per[j].step, j, loc'[c])
      <3>1. Ahead(mem'[c].per[k].step, k, loc'[c])
        <4>1. mem'[c].per[k].step = loc'[c].phase
            BY <1>x, <1>h, <2>0, <2>1, ZenonT(30)
        <4>2. k >= loc'[c].key
            BY <2>0, SMTT(30)
        <4> QED
            BY <4>1, <4>2, ZenonT(30) DEF Ahead
      <3>2. \A j \in Shards : j # k /\ mem'[c].per[j].state # "failed" => Ahead(mem'[c].per[j].step, j, loc'[c])
          BY <1>x, <1>h, <2>0, <2>1, ZenonT(30) DEF Ahead
      <3> QED
          BY <3>1, <3>2, ZenonT(30)
    <2>8. mem'[c].per[loc'[c].key].step = loc'[c].phase
        BY <1>x, <1>h, <2>0, <2>1, ZenonT(30)
    <2>9. RewritePass(c)'
        BY <1>x, <1>e, <2>0, <2>1, <2>3, <2>5, <2>7, <2>8, ZenonT(30)
    <2> QED
        BY <2>6, <2>9, <1>m, ZenonT(30)
  <1>7. CASE NextPhase(c)
    <2>0. pc[c] = "phase" /\ pc[c] \in Driving /\ row' = row /\ tab' = tab
        BY <1>7, NextPhaseDoes, ZenonT(30) DEF Driving
    <2>1. CASE OverNow(c)
        BY <2>0, <2>1, <1>o, <1>v, ZenonT(30)
    <2>2. CASE pc'[c] = "finish" /\ mem'[c] = mem[c]
      <3>1. RewritePass(c)'
          BY <2>0, <2>2, <1>d, ZenonT(30) DEF RewritePass, Attempting, Failing
      <3> QED
          BY <2>0, <3>1, <1>m, <1>r, <1>t, ZenonT(30)
    <2>3. CASE /\ pc'[c] = "mark" /\ mem'[c] = mem[c] /\ loc'[c] \in Places
               /\ loc'[c].key \in Shards /\ loc'[c].phase <= rewriteValidate
               /\ mem[c].per[loc'[c].key].state # "failed" /\ mem[c].per[loc'[c].key].step <= loc'[c].phase
               /\ Ahead(loc'[c].phase, loc'[c].key, loc[c])
               /\ \A q \in rewriteAdd .. rewriteValidate, j \in Shards :
                    Ahead(q, j, loc[c]) /\ mem[c].per[j].state # "failed" /\ mem[c].per[j].step <= q => Ahead(q, j, loc'[c])
      <3>1. \A j \in Shards : mem[c].per[j].step \in Nat /\ (mem[c].per[j].state # "failed" => Ahead(mem[c].per[j].step, j, loc[c]))
          BY <2>0, <1>d, <1>p, ZenonT(30) DEF RewritePass
      <3>2. loc'[c].phase \in Nat /\ loc'[c].key \in Nat
          BY <2>3, ZenonT(30) DEF Places
      <3>3. \A j \in Shards : mem[c].per[j].state # "failed" /\ mem[c].per[j].step <= rewriteValidate
                              => Ahead(mem[c].per[j].step, j, loc'[c])
        <4> SUFFICES ASSUME NEW j \in Shards, mem[c].per[j].state # "failed", mem[c].per[j].step <= rewriteValidate
                     PROVE  Ahead(mem[c].per[j].step, j, loc'[c])
            BY ZenonT(30)
        <4>1. mem[c].per[j].step \in rewriteAdd .. rewriteValidate /\ mem[c].per[j].step <= mem[c].per[j].step
            BY <3>1, SMTT(30) DEF rewriteAdd, rewriteValidate
        <4> QED
            BY <2>3, <3>1, <4>1, ZenonT(30)
      <3>4. \A j \in Shards : mem[c].per[j].step > rewriteValidate => Ahead(mem[c].per[j].step, j, loc'[c])
          BY <2>3, <3>1, <3>2, SMTT(30) DEF Ahead, rewriteValidate
      <3>5. \A j \in Shards : mem[c].per[j].state # "failed" => Ahead(mem[c].per[j].step, j, loc'[c])
          BY <3>1, <3>3, <3>4, SMTT(30) DEF rewriteValidate
      <3>6. mem[c].per[loc'[c].key].step = loc'[c].phase
        <4>1. Ahead(mem[c].per[loc'[c].key].step, loc'[c].key, loc'[c]) /\ mem[c].per[loc'[c].key].step \in Nat
            BY <2>3, <3>1, <3>5, ZenonT(30)
        <4>2. mem[c].per[loc'[c].key].step <= loc'[c].phase
            BY <2>3, ZenonT(30)
        <4>3. mem[c].per[loc'[c].key].step > loc'[c].phase \/ mem[c].per[loc'[c].key].step = loc'[c].phase
            BY <4>1, ZenonT(30) DEF Ahead
        <4> QED
            BY <3>2, <4>1, <4>2, <4>3, SMTT(30)
      <3>7. RewritePass(c)'
          BY <2>0, <2>3, <3>5, <3>6, <1>d, <1>e, ZenonT(30) DEF Attempting
      <3> QED
          BY <2>0, <3>7, <1>m, <1>r, <1>t, ZenonT(30)
    <2> QED
        BY <1>7, <2>1, <2>2, <2>3, NextPhaseDoes, ZenonT(30)
  <1>8. CASE Mark(c)
    <2>0. pc[c] = "mark" /\ pc[c] \in Attempting /\ tab' = tab
        BY <1>8, MarkDoes, ZenonT(30) DEF Attempting
    <2>1. /\ EntryOnly(mem[c], mem'[c], k) /\ SamePlace(loc[c], loc'[c])
          /\ \/ pc'[c] = "check" /\ row' = Saved(c, mem'[c])
             \/ pc'[c] = "after" /\ row' = row /\ loc'[c].err = "save"
        BY <1>8, <2>0, <1>h, <1>d, MarkDoes, ZenonT(30)
    <2> QED
        BY <2>0, <2>1, <1>x, ZenonT(30) DEF Attempting
  <1>9. CASE Check(c)
    <2>0. pc[c] = "check" /\ pc[c] \in Attempting /\ tab' = tab /\ row' = row /\ mem'[c] = mem[c] /\ SamePlace(loc[c], loc'[c])
        BY <1>9, CheckDoes, ZenonT(30) DEF Attempting
    <2>1. ~AlreadyDone(c)
        BY ZenonT(30) DEF AlreadyDone
    <2>2. pc'[c] = "exec" \/ (pc'[c] = "after" /\ loc'[c].err = "dial")
        BY <1>9, <2>1, CheckDoes, ZenonT(30)
    <2>3. EntryOnly(mem[c], mem'[c], k)
        BY <2>0, <1>h, <1>d, ZenonT(30) DEF EntryOnly
    <2> QED
        BY <2>0, <2>2, <2>3, <1>x, ZenonT(30) DEF Attempting
  <1>12. CASE After(c)
    <2>0. pc[c] = "after" /\ pc[c] \in Attempting /\ tab' = tab /\ EntryOnly(mem[c], mem'[c], k) /\ SamePlace(loc[c], loc'[c])
        BY <1>12, AfterDoes, ZenonT(30) DEF Attempting
    <2>1. loc[c].err # "skip" /\ (loc[c].err = "none" => StepTrue(loc[c].phase + 1, tab[mem[c].set][k]))
        BY <2>0, <1>p, ZenonT(30) DEF RewritePass
    <2>2. \/ /\ pc'[c] = "record" /\ row' = row
             /\ mem'[c].per[k].state = "failed" \/ (mem'[c].per[k].state = "applied" /\ loc[c].err = "none")
          \/ pc'[c] = "sleep" /\ (row' = row \/ row' = Saved(c, mem'[c]))
        BY <1>12, <2>0, <2>1, <1>h, <1>d, AfterDoes, ZenonT(30)
    <2> QED
        BY <2>0, <2>1, <2>2, <1>x, ZenonT(30) DEF Attempting
  <1>13. CASE Wake(c)
    <2>0. pc[c] = "sleep" /\ pc[c] \in Attempting /\ row' = row /\ tab' = tab /\ mem'[c] = mem[c] /\ loc'[c] = loc[c]
        BY <1>13, WakeDoes, ZenonT(30) DEF Attempting
    <2>1. pc'[c] = "mark"
        BY <1>13, <2>0, <1>h, <1>d, WakeDoes, ZenonT(30)
    <2>2. EntryOnly(mem[c], mem'[c], k) /\ SamePlace(loc[c], loc'[c])
        BY <2>0, <1>h, <1>d, <1>p, ZenonT(30) DEF EntryOnly, SamePlace
    <2> QED
        BY <2>0, <2>1, <2>2, <1>x, ZenonT(30) DEF Attempting
  <1>11. CASE rewritePhase(c)
    <2>0. /\ pc[c] = "exec" /\ pc[c] \in Attempting /\ row' = row /\ mem'[c] = mem[c]
          /\ pc'[c] = "after" /\ pc'[c] \in Attempting
        BY <1>11, RewriteDoes, ZenonT(30) DEF Attempting
    <2>1. PICK s \in Sets, i \in Shards : s = mem[c].set /\ i = k
        BY <2>0, <1>h, <1>d, ZenonT(30)
    <2> DEFINE t == tab[s][i]
               n == loc[c].phase
    <2>2. t \in Tables /\ n \in rewriteAdd .. rewriteValidate /\ StepTrue(n, t) /\ (t.col = "new" => t.full)
        BY <2>0, <2>1, <1>h, <1>d, ZenonT(30) DEF Types, DataTypes, Converted
    <2>3. PICK a \in {PhaseAnswer(t, n)} \cup PhaseFaulty(t, n) :
            tab' = [tab EXCEPT ![s][i] = a[1]] /\ loc'[c] = [loc[c] EXCEPT !.err = a[2]]
        BY <1>11, <2>1, RewriteDoes, ZenonT(30)
    <2> HIDE DEF t, n
    <2>4. /\ a[1] \in Tables /\ a[2] # "skip" /\ StepTrue(n, a[1]) /\ (a[2] = "none" => StepTrue(n + 1, a[1]))
          /\ a[1].col = "new" => a[1].full
        BY <2>2, Phases, ZenonT(30)
    <2>5. tab'[s][i] = a[1] /\ \A z \in Sets, j \in Shards : z # s \/ j # i => tab'[z][j] = tab[z][j]
      <3>1. tab \in [Sets -> [Shards -> Tables]] /\ s \in Sets /\ i \in Shards
          BY <2>1, ZenonT(30) DEF Types, DataTypes
      <3>2. tab' = [tab EXCEPT ![s][i] = a[1]]
          BY <2>3, ZenonT(30)
      <3> QED
          BY <3>1, <3>2, ZenonT(30)
    <2>6. Converted'
        BY <2>4, <2>5, ZenonT(30) DEF Converted
    <2>7. RewriteRow'
      <3>1. row.state = "running" /\ row.set = s /\ row.set \in Nat
          BY <2>0, <2>1, <1>h, <1>d, <1>p, ZenonT(30) DEF Rows
      <3>2. \A z \in Sets, j \in Shards : z > row.set => tab'[z][j].col # "new"
        <4>1. \A z \in Sets : z > row.set => z # s
            BY <3>1, SMTT(30) DEF Sets
        <4>2. \A z \in Sets, j \in Shards : z > row.set => tab[z][j].col # "new"
            BY <3>1, <1>p, ZenonT(30) DEF RewriteRow
        <4> QED
            BY <4>1, <4>2, <2>5, SMTT(30)
      <3>3. \A j \in Shards : StepTrue(row.per[j].step, tab'[row.set][j])
        <4>1. row.per[i].step = n
            BY <2>0, <2>1, <1>h, <1>d, ZenonT(30) DEF n
        <4>2. \A j \in Shards : StepTrue(row.per[j].step, tab[row.set][j])
            BY <3>1, <1>p, ZenonT(30) DEF RewriteRow
        <4> QED
            BY <2>4, <2>5, <3>1, <4>1, <4>2, ZenonT(30)
      <3> QED
          BY <2>0, <3>1, <3>2, <3>3, ZenonT(30) DEF RewriteRow
    <2>8. loc'[c].key = k /\ loc'[c].phase = n /\ loc'[c].err = a[2]
        BY <2>3, <1>p, ZenonT(30) DEF Places, n
    <2>9. \A j \in Shards : mem'[c].per[j].state # "failed" => Ahead(mem'[c].per[j].step, j, loc'[c])
        BY <2>0, <2>8, <1>h, ZenonT(30) DEF Ahead, n
    <2>10. mem'[c].per[loc'[c].key].step = loc'[c].phase /\ \A j \in Shards : row'.per[j].step = mem'[c].per[j].step
        BY <2>0, <2>8, <1>h, <1>d, ZenonT(30) DEF n
    <2>11. loc'[c].err # "skip" /\ (loc'[c].err = "none" => StepTrue(loc'[c].phase + 1, tab'[mem'[c].set][loc'[c].key]))
        BY <2>0, <2>1, <2>4, <2>5, <2>8, ZenonT(30)
    <2>12. RewritePass(c)'
        BY <2>0, <2>9, <2>10, <2>11, <1>e, ZenonT(30)
    <2> QED
        BY <2>6, <2>7, <2>12, <1>m, ZenonT(30)
  <1>14. CASE Record(c)
    <2>0. pc[c] = "record" /\ tab' = tab /\ pc[c] \in Driving /\ ~StepsLeft(c)
        BY <1>14, RecordDoes, ZenonT(30) DEF Driving, StepsLeft
    <2>1. PICK r : /\ Planned(r) /\ r.state = mem[c].state /\ r.set = mem[c].set
                   /\ \A j \in Keys : j # k => r.per[j] = mem[c].per[j]
                   /\ NextEntry(c, r.per[k]) /\ row' = Saved(c, r) /\ mem'[c] = r
                   /\ pc'[c] = IF mem[c].per[k].state = "failed" THEN "probe" ELSE "phase"
                   /\ IF k < NumShards
                      THEN loc'[c].key = k + 1 /\ loc'[c].phase = loc[c].phase
                      ELSE loc'[c].key = 1 /\ loc'[c].phase = loc[c].phase + 1
        BY <1>14, <2>0, <1>d, RecordDoes, ZenonT(30)
    <2>2. mem[c].state = "running"
        BY <2>0, <1>p, ZenonT(30) DEF PassTypes, Failing
    <2>3. row'.state = "running" /\ row'.set = row.set /\ row'.per = r.per
        BY <2>0, <2>1, <2>2, <1>d, <1>w, ZenonT(30) DEF Planned
    <2>4. /\ mem[c].per[k].state \in {"applied", "failed"}
          /\ mem[c].per[k].state = "applied" => StepTrue(loc[c].phase + 1, tab[mem[c].set][k])
        BY <2>0, <1>p, ZenonT(30) DEF RewritePass
    <2>5. /\ mem[c].per[k].state = "failed" => r.per[k].step = mem[c].per[k].step
          /\ mem[c].per[k].state = "applied" => r.per[k].step = loc[c].phase + 1
        BY <2>1, ZenonT(30) DEF NextEntry
    <2>6. StepTrue(r.per[k].step, tab[mem[c].set][k])
        BY <2>0, <2>4, <2>5, <1>d, <1>h, ZenonT(30)
    <2>7. \A j \in Shards : StepTrue(r.per[j].step, tab[mem[c].set][j])
        BY <2>0, <2>1, <2>6, <1>d, <1>k, ZenonT(30)
    <2>8. RewriteRow' /\ Converted'
      <3>1. RewriteRow'
          BY <2>0, <2>3, <2>7, <1>d, <1>p, ZenonT(30) DEF RewriteRow
      <3> QED
          BY <2>0, <3>1, <1>t, ZenonT(30)
    <2>9. CASE mem[c].per[k].state = "failed"
      <3>1. pc'[c] = "probe" /\ row'.per = mem'[c].per
          BY <2>1, <2>3, <2>9, ZenonT(30)
      <3>2. RewritePass(c)'
          BY <3>1, ZenonT(30) DEF RewritePass, Attempting, Failing
      <3> QED
          BY <2>8, <3>2, <1>m, ZenonT(30)
    <2>10. CASE mem[c].per[k].state = "applied"
      <3>0. pc'[c] = "phase" /\ row'.per = mem'[c].per
          BY <2>1, <2>3, <2>10, ZenonT(30)
      <3>n. /\ k \in Nat /\ loc[c].phase \in Nat /\ NumShards \in Nat /\ k \in Shards
            /\ \A j \in Shards : j \in Nat /\ 1 <= j /\ j <= NumShards /\ mem[c].per[j].step \in Nat
          BY <2>0, <1>p, <1>h, <1>d, ApplierConstants, SMTT(30) DEF Places, Shards
      <3>1. Ahead(r.per[k].step, k, loc'[c])
        <4>1. r.per[k].step = loc[c].phase + 1
            BY <2>5, <2>10, ZenonT(30)
        <4>2. loc'[c].phase = loc[c].phase \/ (loc'[c].phase = loc[c].phase + 1 /\ loc'[c].key = 1)
            BY <2>1, ZenonT(30)
        <4> QED
            BY <3>n, <4>1, <4>2, SMTT(30) DEF Ahead
      <3>2. ASSUME NEW j \in Shards, j # k, mem[c].per[j].state # "failed" PROVE Ahead(mem[c].per[j].step, j, loc'[c])
        <4>1. Ahead(mem[c].per[j].step, j, loc[c])
            BY <2>0, <3>2, <1>h, ZenonT(30)
        <4>2. mem[c].per[j].step > loc[c].phase \/ (mem[c].per[j].step = loc[c].phase /\ j >= k)
            BY <4>1, ZenonT(30) DEF Ahead
        <4>3. CASE k < NumShards
          <5>1. loc'[c].key = k + 1 /\ loc'[c].phase = loc[c].phase
              BY <2>1, <4>3, ZenonT(30)
          <5>2. j >= k => j >= k + 1
              BY <3>2, <3>n, SMTT(30)
          <5> QED
              BY <4>2, <5>1, <5>2, ZenonT(30) DEF Ahead
        <4>4. CASE ~(k < NumShards)
          <5>1. loc'[c].key = 1 /\ loc'[c].phase = loc[c].phase + 1
              BY <2>1, <4>4, ZenonT(30)
          <5>2. ~(j >= k)
              BY <3>2, <3>n, <4>4, SMTT(30)
          <5>3. mem[c].per[j].step > loc[c].phase
              BY <4>2, <5>2, ZenonT(30)
          <5>4. mem[c].per[j].step > loc[c].phase + 1 \/ mem[c].per[j].step = loc[c].phase + 1
              BY <5>3, <3>n, SMTT(30)
          <5> QED
              BY <5>1, <5>4, <3>n, ZenonT(30) DEF Ahead
        <4> QED
            BY <4>3, <4>4, ZenonT(30)
      <3>3. \A j \in Shards : mem'[c].per[j].state # "failed" => Ahead(mem'[c].per[j].step, j, loc'[c])
          BY <2>1, <3>1, <3>2, <1>k, ZenonT(30)
      <3>4. RewritePass(c)'
          BY <3>0, <3>3, <1>e, ZenonT(30) DEF Attempting
      <3> QED
          BY <2>8, <3>4, <1>m, ZenonT(30)
    <2> QED
        BY <2>4, <2>9, <2>10, ZenonT(30)
  <1>15. CASE Finish(c)
    <2>0. pc[c] = "finish" /\ pc[c] \in Driving /\ tab' = tab /\ pc'[c] \notin Driving
        BY <1>15, <1>v, FinishDoes, ZenonT(30) DEF Driving
    <2>1. PICK r : r \in Rows /\ r.state = "complete" /\ row' = Saved(c, r)
        BY <1>15, FinishDoes, ZenonT(30) DEF Planned
    <2>2. row'.state = "complete"
        BY <2>0, <2>1, <1>w, ZenonT(30)
    <2>3. RewriteRow'
        BY <2>2, ZenonT(30) DEF RewriteRow
    <2> QED
        BY <2>0, <2>3, <1>i, <1>m, <1>t, ZenonT(30)
  (* The loops start at the first phase of the first shard. *)
  <1>z. pc[c] \in Driving => \A j \in Shards : Ahead(mem[c].per[j].step, j, Idle)
    <2>1. Idle.phase = 0 /\ Idle.key = 1
        BY ZenonT(30) DEF Idle, rewriteAdd
    <2>2. \A j \in Shards : j \in Nat /\ j >= 1
        BY ApplierConstants, SMTT(30) DEF Shards
    <2>3. pc[c] \in Driving => \A j \in Shards : mem[c].per[j].step \in Nat
        BY <1>d, ZenonT(30)
    <2> QED
        BY <2>1, <2>2, <2>3, SMTT(30) DEF Ahead
  <1>16. CASE recordRewriteColumns(c)
    <2>0. pc[c] = "columns" /\ pc[c] \in Driving /\ row' = row /\ tab' = tab /\ mem'[c] = mem[c] /\ loc'[c] = Idle
        BY <1>16, <1>p, ColumnsDoes, ZenonT(30) DEF Driving, PassTypes
    <2>1. pc'[c] \in {"phase", "settle", "probe"}
        BY <1>16, ColumnsDoes, ZenonT(30)
    <2>2. RewritePass(c)'
      <3>1. \A j \in Shards : row'.per[j].step = mem'[c].per[j].step /\ Ahead(mem'[c].per[j].step, j, loc'[c])
          BY <2>0, <1>d, <1>z, ZenonT(30)
      <3> QED
          BY <2>1, <3>1, ZenonT(30) DEF RewritePass, Attempting, Failing
    <2> QED
        BY <2>0, <2>2, <1>m, <1>r, <1>t, ZenonT(30)
  <1>17. CASE settleColumns(c)
    <2>0. pc[c] = "settle" /\ pc[c] \in Driving /\ tab' = tab /\ loc'[c] = Idle
        BY <1>17, <1>p, SettleDoes, ZenonT(30) DEF Driving, PassTypes
    <2>1. /\ pc'[c] = "phase" /\ row'.state = row.state /\ row'.per = row.per /\ row'.set = mem[c].set /\ mem'[c].per = mem[c].per
        BY <1>17, <2>0, <1>d, SettleDoes, ZenonT(30)
    <2>2. RewriteRow' /\ Converted'
        BY <2>0, <2>1, <1>d, <1>s, ZenonT(30)
    <2>3. RewritePass(c)'
      <3>1. \A j \in Shards : row'.per[j].step = mem'[c].per[j].step /\ Ahead(mem'[c].per[j].step, j, loc'[c])
          BY <2>0, <2>1, <1>d, <1>z, ZenonT(30)
      <3> QED
          BY <2>1, <3>1, ZenonT(30) DEF RewritePass, Attempting, Failing
    <2> QED
        BY <2>2, <2>3, <1>m, ZenonT(30)
  <1>18. CASE failRewrite(c)
    <2>0. pc[c] = "probe" /\ pc[c] \in Driving /\ row' = row /\ tab' = tab /\ pc'[c] = "revert" /\ mem'[c].set = mem[c].set
        BY <1>18, FailRewriteDoes, ZenonT(30) DEF Driving
    <2>1. /\ \A j \in Shards : mem'[c].per[j].step = mem[c].per[j].step
          /\ ~mem'[c].degraded => cutOverShards(c) = {}
        BY <1>18, FailRewriteDoes, ZenonT(30)
    <2>2. cutOverShards(c) = {} => \A j \in Shards : tab[mem[c].set][j].col # "new"
      <3>1. \A j \in Shards : StepTrue(mem[c].per[j].step, tab[mem[c].set][j]) /\ mem[c].per[j].step \in Nat
          BY <2>0, <1>d, ZenonT(30)
      <3> QED
          BY <3>1, SMTT(30) DEF cutOverShards, StepTrue, rewriteCutover
    <2>3. RewritePass(c)'
        BY <2>0, <2>1, <2>2, <1>d, ZenonT(30) DEF RewritePass, Attempting, Failing
    <2> QED
        BY <2>0, <2>3, <1>m, <1>r, <1>t, ZenonT(30)
  <1>19. CASE revertRewrite(c)
    <2>0. /\ pc[c] = "revert" /\ pc[c] \in Driving /\ pc[c] \in Failing /\ row' = row /\ mem'[c] = mem[c]
          /\ pc'[c] \in Failing
        BY <1>19, RevertDoes, ZenonT(30) DEF Driving, Failing
    <2>1. ~mem[c].degraded => \A j \in Shards : tab[mem[c].set][j].col # "new"
        BY <2>0, <1>p, ZenonT(30) DEF RewritePass
    <2>2. (\A j \in Shards : tab[mem[c].set][j].col # "new" => tab'[mem[c].set][j].col # "new") => RewritePass(c)'
      <3>1. pc'[c] \notin Attempting \cup {"record", "phase"}
          BY <2>0, ZenonT(30) DEF Failing, Attempting
      <3> QED
          BY <2>0, <2>1, <3>1, <1>d, ZenonT(30) DEF RewritePass, Attempting
    <2>3. CASE tab' = tab
        BY <2>0, <2>2, <2>3, <1>m, <1>r, <1>t, ZenonT(30)
    <2>4. CASE k \in Shards /\ tab' = [tab EXCEPT ![mem[c].set][k] = Swept(tab[mem[c].set][k])]
      <3>1. PICK s \in Sets, j \in Shards : s = mem[c].set /\ j = k
          BY <2>0, <2>4, <1>d, ZenonT(30)
      <3>2. tab' = [tab EXCEPT ![s][j] = Swept(tab[s][j])]
          BY <2>4, <3>1, ZenonT(30)
      <3>3. /\ Converted' /\ RewriteRow'
            /\ \A z \in Sets, i \in Shards : tab'[z][i].col = "new" => tab[z][i].col = "new"
          BY <2>0, <3>2, <1>k, <1>p, SweptData, ZenonT(30)
      <3> QED
          BY <2>2, <3>1, <3>3, <1>m, ZenonT(30)
    <2> QED
        BY <1>19, <2>3, <2>4, RevertDoes, ZenonT(30)
  <1>20. CASE FailSave(c)
    <2>0. /\ pc[c] = "failed" /\ pc[c] \in Driving /\ pc[c] \in Failing /\ tab' = tab /\ row' = Saved(c, mem[c])
          /\ pc'[c] \notin Driving
        BY <1>20, <1>v, FailSaveDoes, ZenonT(30) DEF Driving, Failing
    <2>1. row'.state = mem[c].state /\ row'.set = mem[c].set /\ row'.per = mem[c].per /\ row'.degraded = mem[c].degraded
        BY <2>0, <1>p, <1>w, ZenonT(30)
    <2>2. mem[c].state = "failed" /\ mem[c].set \in Sets /\ DOMAIN mem[c].per = Shards
        BY <2>0, <1>d, <1>k, <1>p, ZenonT(30) DEF PassTypes, Planned
    <2>3. ~mem[c].degraded => \A j \in Shards : tab[mem[c].set][j].col # "new"
        BY <2>0, <1>p, ZenonT(30) DEF RewritePass
    <2>4. RewriteRow'
        BY <2>0, <2>1, <2>2, <2>3, ZenonT(30) DEF RewriteRow
    <2> QED
        BY <2>0, <2>4, <1>i, <1>m, <1>t, ZenonT(30)
  <1>21. CASE SaveFails(c)
      BY <1>21, <1>o, <1>v, SaveFailsDoes, ZenonT(30)
  <1>22. CASE Abandon(c)
      BY <1>22, <1>a, AbandonDoes, Leads, ZenonT(30)
  <1>6. CASE NextKey(c)
      BY <1>6, <1>p, NextKeyDoes, ZenonT(30) DEF PassTypes
  <1>10. CASE Exec(c)
      BY <1>10, ZenonT(30) DEF Exec
  <1> QED
      BY <1>1, <1>3, <1>4, <1>5, <1>6, <1>7, <1>8, <1>9, <1>10, <1>11, <1>12, <1>13, <1>14, <1>15, <1>16, <1>17,
         <1>18, <1>19, <1>20, <1>21, <1>22, ZenonT(30) DEF Work, Done

(* What the shards, the row and the passes say does not change when none of *)
(* them does.                                                               *)
LEMMA CleanSame ==
    ASSUME Types, CleanInv, UNCHANGED <<kind, row, obj, tab, mem, loc, pc>>, OneLeader', NoZombie
    PROVE  CleanInv'
  <1>1. OnePass /\ Statement /\ Converted /\ Rewrite
      BY ZenonT(30) DEF CleanInv
  <1>k. Keys' = Keys /\ Goal' = Goal
      BY ZenonT(30) DEF Keys, Goal
  <1>2. OnePass'
      BY <1>1, ZenonT(30) DEF OnePass, PassRow
  <1>3. Statement'
      BY <1>1, <1>k, ZenonT(30) DEF Statement, StatementPass, Sure
  <1>4. Converted'
      BY <1>1, ZenonT(30) DEF Converted
  <1>5. Rewrite'
      BY <1>1, ZenonT(30) DEF Rewrite, RewriteRow, RewritePass
  <1> QED
      BY <1>2, <1>3, <1>4, <1>5, ZenonT(30) DEF CleanInv

LEMMA CleanCrash ==
    ASSUME Types, CleanInv, NEW c \in Controllers, Crash(c), NoZombie
    PROVE  CleanInv'
  <1>1. OnePass /\ Statement /\ Converted /\ Rewrite /\ OneLeader
      BY ZenonT(30) DEF CleanInv, OnePass
  <1>2. /\ UNCHANGED <<kind, row, obj, tab, term>> /\ published' = [published EXCEPT ![c] = 0]
        /\ lock' = IF lock = c THEN NoOne ELSE lock
        /\ EndPass(c)
      BY ZenonT(30) DEF Crash
  <1>3. pc'[c] = "idle" /\ \A d \in Controllers : d # c => pc'[d] = "idle" /\ pc[d] = "idle"
    <2>1. lock = c
        BY <1>1, ZenonT(30) DEF Crash, OneLeader
    <2>2. \A d \in Controllers : d # c => pc[d] = "idle"
        BY <1>1, <2>1, ZenonT(30) DEF OneLeader
    <2> QED
        BY <1>2, <2>2, ZenonT(30) DEF EndPass, Goto, Types, LeaderTypes
  <1>4. \A d \in Controllers : published'[d] = 0 /\ lock' # d
    <2>1. lock = c
        BY <1>1, ZenonT(30) DEF Crash, OneLeader
    <2>2. \A d \in Controllers : d # c => published[d] = 0
        BY <1>1, <2>1, ZenonT(30) DEF OneLeader
    <2>3. lock' = NoOne /\ NoOne \notin Controllers
        BY <1>2, <2>1, ApplierConstants, ZenonT(30)
    <2> QED
        BY <1>2, <2>2, <2>3, ZenonT(30) DEF Types, LeaderTypes
  <1>k. Keys' = Keys /\ Goal' = Goal
      BY <1>2, ZenonT(30) DEF Keys, Goal
  <1>i. \A d \in Controllers : pc'[d] = "idle"
      BY <1>3, ZenonT(30)
  <1>5. OnePass'
    <2>1. OneLeader'
        BY <1>i, <1>4, ZenonT(30) DEF OneLeader
    <2>2. \A d \in Controllers : PassRow(d)'
        BY <1>i, ZenonT(30) DEF PassRow, Driving, Attempting, Failing
    <2> QED
        BY <2>1, <2>2, ZenonT(30) DEF OnePass
  <1>6. Statement'
    <2>1. \A d \in Controllers : StatementPass(d)'
        BY <1>i, ZenonT(30) DEF StatementPass, Driving, Attempting, Failing
    <2> QED
        BY <2>1, <1>1, <1>2, <1>k, ZenonT(30) DEF Statement, Sure
  <1>7. Converted'
      BY <1>1, <1>2, ZenonT(30) DEF Converted
  <1>8. Rewrite'
    <2>1. \A d \in Controllers : RewritePass(d)'
        BY <1>i, ZenonT(30) DEF RewritePass, Driving, Attempting, Failing
    <2> QED
        BY <2>1, <1>1, <1>2, ZenonT(30) DEF Rewrite, RewriteRow
  <1> QED
      BY <1>5, <1>6, <1>7, <1>8, ZenonT(30) DEF CleanInv

LEMMA CleanClient ==
    ASSUME Types, CleanInv, NEW s \in Sets, NEW k \in Shards, ClientWrite(s, k), NoZombie
    PROVE  CleanInv'
  <1>1. OnePass /\ Statement /\ Converted /\ Rewrite
      BY ZenonT(30) DEF CleanInv
  <1>2. UNCHANGED <<kind, row, gate, serving, obj, lock, term, published, pass, mem, loc, pc>>
      BY ZenonT(30) DEF ClientWrite, processVars
  <1>c. /\ tab[s][k].col = "both" /\ ~tab[s][k].trig /\ tab'[s][k].col = "both" /\ ~tab'[s][k].trig
        /\ \A z \in Sets, j \in Shards : z # s \/ j # k => tab'[z][j] = tab[z][j]
      BY ClientDoes, ZenonT(30)
  <1>k. Keys' = Keys /\ Goal' = Goal
      BY <1>2, ZenonT(30) DEF Keys, Goal
  <1>3. OnePass'
      BY <1>1, <1>2, ZenonT(30) DEF OnePass, OneLeader, PassRow
  <1>4. Statement'
      BY <1>1, <1>2, <1>k, ZenonT(30) DEF Statement, StatementPass, Sure
  <1>5. Converted'
      BY <1>1, <1>c, ZenonT(30) DEF Converted
  <1>n. \A z \in Sets, j \in Shards : tab'[z][j].col = tab[z][j].col
      BY <1>c, ZenonT(30)
  <1>s. \A n \in Nat, z \in Sets, j \in Shards : StepTrue(n, tab[z][j]) => StepTrue(n, tab'[z][j])
    <2> SUFFICES ASSUME NEW n \in Nat, NEW z \in Sets, NEW j \in Shards, StepTrue(n, tab[z][j]) PROVE StepTrue(n, tab'[z][j])
        BY ZenonT(30)
    <2>1. CASE z # s \/ j # k
        BY <2>1, <1>c, ZenonT(30)
    <2>2. CASE z = s /\ j = k
      <3>1. ~(n >= rewriteBackfill)
          BY <2>2, <1>c, ZenonT(30) DEF StepTrue
      <3>2. ~(n >= rewriteCutover)
          BY <3>1, SMTT(30) DEF rewriteBackfill, rewriteCutover
      <3> QED
          BY <2>2, <3>1, <3>2, <1>c, ZenonT(30) DEF StepTrue
    <2> QED
        BY <2>1, <2>2, ZenonT(30)
  <1>6. ASSUME kind = "rewrite" PROVE RewriteRow' /\ \A c \in Controllers : RewritePass(c)'
    <2>k. Keys = Shards
        BY <1>6, KeySets, ZenonT(30)
    <2>0. RewriteRow /\ (\A c \in Controllers : RewritePass(c)) /\ RowTypes /\ row \in Rows
        BY <1>1, <1>6, ZenonT(30) DEF Rewrite, Types, DataTypes
    <2>1. row.state = "running" => row.set \in Sets /\ DOMAIN row.per = Shards /\ \A j \in Shards : row.per[j].step \in Nat
      <3>1. row.state = "running" => Planned(row)
          BY <2>0, ZenonT(30) DEF RowTypes, Waiting
      <3> QED
          BY <3>1, <2>k, ServingSet, ZenonT(30) DEF Planned, Entry, Types
    <2>2. row.state \in {"none", "queued", "running"} => \A z \in Sets, j \in Shards : z > row.set => tab'[z][j].col # "new"
        BY <2>0, <1>n, SMTT(30) DEF RewriteRow
    <2>3. row.state = "running" => \A j \in Shards : StepTrue(row.per[j].step, tab'[row.set][j])
        BY <2>0, <2>1, <1>s, ZenonT(30) DEF RewriteRow
    <2>4. row.state = "failed" => row.set \in Sets \/ DOMAIN row.per = {}
        BY <2>0, ZenonT(30) DEF RewriteRow
    <2>5. row.state = "failed" /\ ~row.degraded => \A j \in DOMAIN row.per : tab'[row.set][j].col # "new"
      <3>1. DOMAIN row.per \subseteq Shards
          BY <2>0, <2>k, ZenonT(30) DEF Rows
      <3> QED
          BY <2>0, <2>4, <3>1, <1>n, ZenonT(30) DEF RewriteRow
    <2>6. RewriteRow'
        BY <2>2, <2>3, <2>4, <2>5, <1>2, ZenonT(30) DEF RewriteRow
    <2>7. ASSUME NEW c \in Controllers PROVE RewritePass(c)'
      <3>0. RewritePass(c) /\ PassTypes(c) /\ loc[c] \in Places
          BY <2>0, Own, ZenonT(30) DEF Types
      <3>1. pc[c] \in Driving => mem[c].set \in Sets
          BY <3>0, ServingSet, ZenonT(30) DEF PassTypes, Planned, Types
      <3>2. pc[c] \in Attempting \cup {"record"} => pc[c] \in Driving /\ loc[c].key \in Shards /\ loc[c].phase + 1 \in Nat
          BY <3>0, <2>k, SMTT(30) DEF PassTypes, Places, Driving
      <3>3. pc[c] = "after" /\ loc[c].err = "none" => StepTrue(loc[c].phase + 1, tab'[mem[c].set][loc[c].key])
          BY <3>0, <3>1, <3>2, <1>s, ZenonT(30) DEF RewritePass, Attempting
      <3>4. pc[c] = "record" /\ mem[c].per[loc[c].key].state = "applied" => StepTrue(loc[c].phase + 1, tab'[mem[c].set][loc[c].key])
          BY <3>0, <3>1, <3>2, <1>s, ZenonT(30) DEF RewritePass
      <3>5. pc[c] \in Failing /\ ~mem[c].degraded => \A j \in Shards : tab'[mem[c].set][j].col # "new"
          BY <3>0, <3>1, <1>n, ZenonT(30) DEF RewritePass, Driving
      <3> QED
          BY <3>0, <3>3, <3>4, <3>5, <1>2, ZenonT(30) DEF RewritePass
    <2> QED
        BY <2>6, <2>7, ZenonT(30)
  <1>7. Rewrite'
      BY <1>6, <1>2, ZenonT(30) DEF Rewrite
  <1> QED
      BY <1>3, <1>4, <1>5, <1>7, ZenonT(30) DEF CleanInv

LEMMA CleanInit == Init => CleanInv
  <1> SUFFICES ASSUME Init PROVE CleanInv
      BY ZenonT(30)
  <1>1. /\ row = NoRow /\ NoRow.state = "none" /\ NoRow.set = 0 /\ lock = NoOne /\ NoOne \notin Controllers
        /\ \A c \in Controllers : published[c] = 0 /\ pc[c] = "idle"
      BY Blank, ApplierConstants, ZenonT(30) DEF Init
  <1>2. OnePass
    <2>1. OneLeader
        BY <1>1, ZenonT(30) DEF OneLeader
    <2>2. \A c \in Controllers : PassRow(c)
        BY <1>1, ZenonT(30) DEF PassRow, Driving, Attempting, Failing
    <2> QED
        BY <2>1, <2>2, ZenonT(30) DEF OnePass
  <1>3. Statement
    <2>1. \A c \in Controllers : StatementPass(c)
        BY <1>1, ZenonT(30) DEF StatementPass, Driving, Attempting, Failing
    <2>2. \A s \in Sets, k \in 1 .. catalogKey : obj[s][k] # "bad"
        BY SMTT(30) DEF Init
    <2> QED
        BY <1>1, <2>1, <2>2, ZenonT(30) DEF Statement
  <1>4. \A s \in Sets, k \in Shards : tab[s][k].col = "old"
    <2>1. PICK empty \in BOOLEAN : tab = [s \in Sets |-> [k \in Shards |-> [Untouched EXCEPT !.full = empty]]]
        BY ZenonT(30) DEF Init
    <2>2. [Untouched EXCEPT !.full = empty].col = "old"
        BY ZenonT(30) DEF Untouched
    <2> QED
        BY <2>1, <2>2, ZenonT(30)
  <1>5. Converted
      BY <1>4, ZenonT(30) DEF Converted
  <1>6. Rewrite
    <2>1. \A c \in Controllers : RewritePass(c)
        BY <1>1, ZenonT(30) DEF RewritePass, Driving, Attempting, Failing
    <2>2. RewriteRow
        BY <1>1, <1>4, ZenonT(30) DEF RewriteRow
    <2> QED
        BY <2>1, <2>2, ZenonT(30) DEF Rewrite
  <1> QED
      BY <1>2, <1>3, <1>5, <1>6, ZenonT(30) DEF CleanInv

LEMMA CleanEnqueue == ASSUME Types, CleanInv, NoZombie, Enqueue PROVE CleanInv'
  <1>1. OnePass /\ Statement /\ Converted /\ Rewrite
      BY ZenonT(30) DEF CleanInv
  <1>2. /\ row.state = "none" /\ row' = [NoRow EXCEPT !.state = "queued"]
        /\ UNCHANGED <<kind, obj, tab, lock, term, published, pass, mem, loc, pc>>
      BY ZenonT(30) DEF Enqueue, processVars
  <1>3. row'.state = "queued" /\ row'.set = 0 /\ row.set = 0
    <2>1. row'.state = "queued" /\ row'.set = 0
        BY <1>2, ZenonT(30) DEF NoRow
    <2>2. row.set = 0
        BY <1>2, ZenonT(30) DEF Types, RowTypes, Waiting, Unplanned
    <2> QED
        BY <2>1, <2>2, ZenonT(30)
  <1>4. \A c \in Controllers : pc[c] \notin Driving \cup {"drive", "start"}
      BY <1>1, <1>2, ZenonT(30) DEF Types, PassTypes, OnePass, PassRow, Waiting
  <1>k. Keys' = Keys /\ Goal' = Goal
      BY <1>2, ZenonT(30) DEF Keys, Goal
  <1>5. OnePass'
      BY <1>1, <1>2, <1>3, <1>4, ZenonT(30) DEF OnePass, OneLeader, PassRow
  <1>6. Statement'
    <2>1. \A c \in Controllers : StatementPass(c)'
        BY <1>2, <1>4, ZenonT(30) DEF StatementPass, Driving, Attempting, Failing
    <2> QED
        BY <1>1, <1>2, <1>3, <1>k, <2>1, ZenonT(30) DEF Statement, Sure
  <1>7. Converted'
      BY <1>1, <1>2, ZenonT(30) DEF Converted
  <1>8. Rewrite'
    <2>1. \A c \in Controllers : RewritePass(c)'
        BY <1>2, <1>4, ZenonT(30) DEF RewritePass, Driving, Attempting, Failing
    <2> QED
        BY <1>1, <1>2, <1>3, <2>1, ZenonT(30) DEF Rewrite, RewriteRow
  <1> QED
      BY <1>5, <1>6, <1>7, <1>8, ZenonT(30) DEF CleanInv

LEMMA CleanNext == Types /\ CleanInv /\ [Next]_vars => CleanInv'
  <1> SUFFICES ASSUME Types, CleanInv, [Next]_vars, NoZombie' PROVE CleanInv'
      BY ZenonT(30) DEF CleanInv
  <1>w. ASSUME NEW c \in Controllers, Work(c) \/ Abandon(c) \/ SaveFails(c) PROVE NoZombie /\ Alone(c)
    <2>1. Writes(c) /\ Alone(c)
        BY <1>w, WorkWrites, WorkAlone, ZenonT(30)
    <2> QED
        BY <2>1, ZenonT(30) DEF Writes, NoZombie
  <1>z. NoZombie
      BY <1>w, ZenonT(30) DEF Next, vars, NoZombie, lead, LoseLock, Notice, Crash, Enqueue, QueueMoves, Flip, ClientWrite, processVars
  <1>c. OnePass /\ OneLeader /\ Statement /\ Converted /\ Rewrite
      BY <1>z, ZenonT(30) DEF CleanInv, OnePass
  <1>t. published \in [Controllers -> Nat] /\ term \in Nat
      BY ZenonT(30) DEF Types, LeaderTypes
  <1>1. ASSUME NEW c \in Controllers, Work(c) \/ Abandon(c) \/ SaveFails(c) PROVE CleanInv'
    <2>1. OnePass'
        BY <1>1, <1>c, PassRowStep, ZenonT(30)
    <2>k. kind' = kind
        BY <1>1, <1>w, ZenonT(30) DEF Alone
    <2>2. Statement'
      <3>1. CASE kind \in PlainKinds
          BY <1>1, <1>c, <3>1, StatementStep, ZenonT(30)
      <3>2. CASE kind \notin PlainKinds
          BY <2>k, <3>2, ZenonT(30) DEF Statement
      <3> QED
          BY <3>1, <3>2, ZenonT(30)
    <2>3. Converted' /\ Rewrite'
      <3>1. CASE kind = "rewrite"
          BY <1>1, <1>c, <3>1, RewriteStep, ZenonT(30)
      <3>2. CASE kind # "rewrite"
        <4>1. Converted'
            BY <1>1, <1>c, <3>2, PlainConverted, ZenonT(30)
        <4> QED
            BY <2>k, <3>2, <4>1, ZenonT(30) DEF Rewrite
      <3> QED
          BY <3>1, <3>2, ZenonT(30)
    <2> QED
        BY <2>1, <2>2, <2>3, ZenonT(30) DEF CleanInv
  <1>2. ASSUME NEW c \in Controllers, lead(c) PROVE CleanInv'
    <2>1. /\ lock = NoOne /\ lock' = c /\ term' = term + 1 /\ published' = [published EXCEPT ![c] = term + 1]
          /\ UNCHANGED <<kind, row, obj, tab, mem, loc, pc, pass>>
        BY <1>2, ZenonT(30) DEF lead
    <2>2. \A d \in Controllers : pc[d] = "idle" /\ published[d] = 0
        BY <2>1, <1>c, ApplierConstants, ZenonT(30) DEF OneLeader
    <2>3. OneLeader'
        BY <2>1, <2>2, <1>t, SMTT(30) DEF OneLeader
    <2> QED
        BY <2>1, <2>3, <1>z, CleanSame, ZenonT(30)
  <1>3. ASSUME NEW c \in Controllers, LoseLock(c) PROVE CleanInv'
      BY <1>3, ZenonT(30) DEF LoseLock, NoZombie
  <1>4. ASSUME NEW c \in Controllers, Notice(c) PROVE CleanInv'
      BY <1>4, <1>c, ZenonT(30) DEF Notice, OneLeader
  <1>5. ASSUME NEW c \in Controllers, Crash(c) PROVE CleanInv'
      BY <1>5, <1>z, CleanCrash, ZenonT(30)
  <1>6. CASE QueueMoves \/ Flip \/ UNCHANGED vars
    <2>1. UNCHANGED <<kind, row, obj, tab, mem, loc, pc, lock, term, published, pass>>
        BY <1>6, ZenonT(30) DEF QueueMoves, Flip, processVars, vars
    <2>2. OneLeader'
        BY <2>1, <1>c, ZenonT(30) DEF OneLeader
    <2> QED
        BY <2>1, <2>2, <1>z, CleanSame, ZenonT(30)
  <1> QED
      BY <1>1, <1>2, <1>3, <1>4, <1>5, <1>6, <1>z, CleanEnqueue, CleanClient, ZenonT(30) DEF Next

LEMMA CleanAlways == Spec => [](Types /\ CleanInv)
  <1>1. Init => Types /\ CleanInv
      BY TypesInit, CleanInit, ZenonT(30)
  <1>2. Types /\ CleanInv /\ [Next]_vars => (Types /\ CleanInv)'
      BY TypesNext, CleanNext, ZenonT(30)
  <1> QED
      BY <1>1, <1>2, PTL DEF Spec

(* A statement sent whole and recorded complete is done on every database   *)
(* of its plan, whatever crashes and failures fell between its statements   *)
(* and their records (Applier.drive, RunOnce).                              *)
THEOREM CompleteMeansDone == Spec => []StatementCompleteIsDone
  <1>1. Types /\ CleanInv => StatementCompleteIsDone
    <2> SUFFICES ASSUME Types, CleanInv, kind \in PlainKinds, NoZombie, row.state = "complete"
                 PROVE  \A k \in Keys : obj[row.set][k] = Goal
      <3>1. kind \in PlainKinds => kind # "rewrite"
          BY ZenonT(30) DEF PlainKinds
      <3> QED
          BY <3>1, ZenonT(30) DEF StatementCompleteIsDone, CompleteIsDone
    <2>1. Sure(row) /\ \A k \in Keys : row.per[k].state \in Kept
        BY ZenonT(30) DEF CleanInv, Statement
    <2> QED
        BY <2>1, ZenonT(30) DEF Sure
  <1> QED
      BY <1>1, CleanAlways, PTL

(* No shard swaps its column before every row of it is converted, whatever  *)
(* interrupts the rewrite (driveRewrite, rewritePhase).                     *)
THEOREM RowsSurviveCutover == Spec => []CutoverKeepsRows
  <1>1. Types /\ CleanInv => CutoverKeepsRows
      BY ZenonT(30) DEF CleanInv, Converted, CutoverKeepsRows
  <1> QED
      BY <1>1, CleanAlways, PTL

(* A rewrite that fails without the DEGRADED mark left no shard cut over    *)
(* (failRewrite, cutOverShards).                                            *)
THEOREM CleanFailures == Spec => []CleanFailureIsClean
  <1>1. Types /\ CleanInv => CleanFailureIsClean
      BY ZenonT(30) DEF CleanInv, Rewrite, RewriteRow, CleanFailureIsClean
  <1> QED
      BY <1>1, CleanAlways, PTL
=============================================================================
