---------------------------- MODULE BarrierProofs ----------------------------
(***************************************************************************)
(* For any shards, transactions and runs, and any number of faults: the    *)
(* segments of a certified point are archived, and no run and no recovery  *)
(* lifts a pause that is not a barrier's.                                  *)
(*                                                                         *)
(* A certified point is a consistent cut.  The argument follows a run      *)
(* through its steps: the older transactions of a paused shard are known,  *)
(* then have no writer, then are over, and stay so while the shard is      *)
(* paused; and what the last check finds paused was paused throughout,     *)
(* unless somebody paused it again meanwhile.                              *)
(***************************************************************************)
EXTENDS Barrier, FiniteSetTheorems, WellFoundedInduction, TLAPS

(* The steps before the restore points are certified, and those of them at  *)
(* which the run counts on the pause of the shards it listed.               *)
Relying == {"pause", "fenced", "drain", "writers", "mark", "points"}
Certifying == Relying \cup {"archive", "remark", "verify", "record"}
Steps == Certifying \cup {"idle", "fence", "resume", "release", "finish", "over"}

Branches == {"none", "open", "wrote", "prepared", "committed", "gone"}

RunType == [pc : Steps, k : 0 .. Len(Order), groups : SUBSET Shards,
            at : [Shards -> SUBSET Txns], mark : Int, stuck : BOOLEAN]

CutType == [done : SUBSET (Txns \X Shards), prep : SUBSET (Txns \X Shards), decided : SUBSET Txns,
            at : [Groups -> (Nat \X Nat) \cup {None}]]

PassType == [pc : {"idle", "lock", "check", "resume", "clear"}, k : 0 .. Len(Order), groups : SUBSET Shards,
             stuck : BOOLEAN]

ControlTypes ==
    /\ point \in [Runs -> {"none", "reserved", "failed", "certified"}]
    /\ run \in [Runs -> RunType]
    /\ cut \in [Runs -> CutType]
    /\ rec \in PassType

PauseTypes ==
    /\ paused \in [Shards -> BOOLEAN]
    /\ own \in [Shards -> {"free", "claimed", "held", "returned", "retired"}]
    /\ \E s \in Shards : own[s] # "retired"

DataTypes ==
    /\ plan \in Plans
    /\ br \in [Txns -> [Shards -> Branches]]
    /\ row \in [Txns -> {"none", "preparing", "commit", "finished", "aborted"}]
    /\ seen \in [Txns -> SUBSET Txns]

Types == ControlTypes /\ PauseTypes /\ DataTypes

(* A run that is under way has listed some shard, and its turn is one of    *)
(* those it listed.                                                         *)
Walks(q, p) ==
    /\ q.pc \notin {"idle", "over"} => q.groups # {}
    /\ q.pc \in {"pause", "writers", "resume"} => q.k > 0
    /\ q.pc = "idle" => q.k = 0
    /\ q.k > 0 => Order[q.k] \in q.groups
    /\ p = "certified" => q.pc \notin Certifying \cup {"idle", "fence"}

WalkOK ==
    /\ \A r \in Runs : Walks(run[r], point[r])
    /\ rec.pc \notin {"idle", "lock"} => rec.k > 0 /\ Order[rec.k] \in rec.groups

----------------------------------------------------------------------------
(* The archive *)

(* The archiver's last report of a segment is of the primary's timeline,    *)
(* and every segment from its beginning up to that one is there.            *)
ArchiveTypes ==
    /\ wal \in [Groups -> [tl : Nat, from : Nat, seg : Nat]]
    /\ last \in [Groups -> [kind : {"none", "segment", "history"}, tl : Nat, seg : Nat]]
    /\ store \in [Groups -> SUBSET (Nat \X Nat)]
    /\ \A g \in Groups : wal[g].from <= wal[g].seg

ReportOK ==
    \A g \in Groups : last[g].kind = "segment" =>
        last[g].tl = wal[g].tl /\ \A n \in wal[g].from .. last[g].seg : <<wal[g].tl, n>> \in store[g]

(* A point is of a timeline that is over, or of the part of the present one *)
(* that its primary writes.                                                 *)
PointOK ==
    \A r \in Runs, g \in Groups : cut[r].at[g] # None =>
        /\ cut[r].at[g][1] <= wal[g].tl
        /\ cut[r].at[g][1] = wal[g].tl => wal[g].from <= cut[r].at[g][2]
    
InStore(r, g) == cut[r].at[g] # None => cut[r].at[g] \in store[g]

(* The shards of gs before the k-th, and those of a run that had their turn *)
(* in the phase it is in.                                                   *)
Before(gs, k) == {s \in gs : \E i \in 1 .. Len(Order) : i < k /\ s = Order[i]}
Passed(r) == Before(run[r].groups, run[r].k)

Cert(r) ==
    /\ run[r].pc \in {"idle", "fence"} \cup (Relying \ {"points"}) => cut[r] = NoCut
    /\ run[r].pc = "points" => \A g \in Groups : cut[r].at[g] # None =>
          (g = Catalog /\ run[r].k > 0) \/ g \in Passed(r)
    /\ run[r].pc = "archive" =>
          /\ \A g \in Groups : cut[r].at[g] # None => g = Catalog \/ g \in run[r].groups
          /\ run[r].k > 0 => InStore(r, Catalog)
          /\ \A s \in Passed(r) : InStore(r, s)
    /\ run[r].pc \in {"remark", "verify", "record"} \/ point[r] = "certified" =>
          \A g \in Groups : InStore(r, g)

CertOK == \A r \in Runs : Cert(r)

----------------------------------------------------------------------------
(* Transactions *)

(* One committed branch means that none is lost; a recorded decision does;  *)
(* and what a client saw acknowledged stays so.                             *)
Kept(t) == \A s \in Foot[t] : br[t][s] \in {"prepared", "committed"}

TxnOK ==
    /\ \A t \in Txns : row[t] \in {"commit", "finished"} => Kept(t)
    /\ \A t \in Txns : (\E s \in Foot[t] : br[t][s] = "committed") => Kept(t)
    /\ \A t \in Txns : seen[t] \subseteq Acked

(* The shards a run has paused and has yet to verify.                       *)
Counted(r) ==
    CASE run[r].pc = "pause" -> Passed(r)
      [] run[r].pc \in Certifying \ {"pause", "verify", "record"} -> run[r].groups
      [] run[r].pc = "verify" -> run[r].groups \ Passed(r)
      [] OTHER -> {}

Sound(r) == \A s \in Counted(r) : paused[s]

(* Nobody pauses again a shard that lost its pause under a run.             *)
NotPausedAgain == \A r \in Runs : \A s \in Counted(r) : ~paused[s] => ~paused'[s]

(* No transaction writes on a set that is retired or that a switch takes.   *)
WritesApart == \A p \in Plans : \A t \in Txns : p.foot[t] \cap (p.retired \cup Claimable) = {}

OwnOK ==
    /\ \A t \in Txns : \A s \in Foot[t] : own[s] = "free"
    /\ \A r \in Runs : run[r].pc \notin {"idle", "over"} => \A t \in Txns : Foot[t] \subseteq run[r].groups

(* What a run has made of a shard: its older transactions are known, it has *)
(* no writer, nothing of it is under way.                                   *)
Known(r, s) == \A t \in Txns : s \in Foot[t] /\ br[t][s] \notin {"none", "gone"} => t \in run[r].at[s]
NoWriter(s) == \A t \in Txns : s \in Foot[t] => br[t][s] \notin {"open", "wrote"}
Frozen(s) == \A t \in Txns : s \in Foot[t] => br[t][s] \in {"none", "committed", "gone"}

(* The committed branches on the shards of S.                               *)
DoneOn(S) == {p \in Txns \X S : p[2] \in Foot[p[1]] /\ br[p[1]][p[2]] = "committed"}

(* A cut holds no prepared branch; a transaction in it is committed on all  *)
(* its shards and is in it whole, with what was acknowledged before it.     *)
CutGood(r) ==
    /\ cut[r].prep = {}
    /\ \A t \in Txns : (\E s \in Foot[t] : <<t, s>> \in cut[r].done) =>
          /\ \A s \in Foot[t] : br[t][s] = "committed"
          /\ \A u \in seen[t] \cup {t} : \A s \in Foot[u] : <<u, s>> \in cut[r].done

(* The second drain, which follows the watermark, starts without writers.   *)
Facts(r) ==
    LET pc == run[r].pc
        second == run[r].mark >= 0
    IN /\ pc = "pause" => \A s \in Passed(r) : Known(r, s)
       /\ pc \in Relying \ {"pause"} => \A s \in run[r].groups : Known(r, s)
       /\ pc = "writers" => \A s \in Passed(r) : NoWriter(s)
       /\ pc \in {"mark", "points"} \/ (pc \in {"drain", "writers"} /\ second) => \A s \in run[r].groups : NoWriter(s)
       /\ pc = "drain" /\ second => \A s \in Passed(r) : Frozen(s)
       /\ pc = "points" \/ (pc = "writers" /\ second) => \A s \in run[r].groups : Frozen(s)
       /\ pc = "points" => cut[r].prep = {} /\ cut[r].done = DoneOn(Passed(r))
       /\ pc \in {"archive", "remark", "verify", "record"} \/ point[r] = "certified" => CutGood(r)

Unmarked == \A r \in Runs : run[r].pc \in {"idle", "fence", "pause", "fenced"} => run[r].mark < 0

CutInv ==
    /\ OwnOK /\ Unmarked
    /\ \A r \in Runs : Sound(r) => Facts(r)

----------------------------------------------------------------------------
(* Walking the groups *)

LEMMA MinOf ==
    ASSUME NEW S \in SUBSET Nat, S # {}
    PROVE  Min(S) \in S /\ \A x \in S : Min(S) <= x
  <1>1. PICK m \in S : \A y \in S : ~(<<y, m>> \in OpToRel(<, Nat))
      BY NatLessThanWellFounded, WFMin, Zenon
  <1>2. \A y \in S : m <= y
    <2> SUFFICES ASSUME NEW y \in S, y < m PROVE FALSE
        OBVIOUS
    <2>1. <<y, m>> \in OpToRel(<, Nat)
        BY ZenonT(30) DEF OpToRel
    <2> QED
        BY <2>1, <1>1, Zenon
  <1>3. \E x \in S : \A y \in S : x <= y
      BY <1>2, ZenonT(30)
  <1> QED
      BY <1>3, Zenon DEF Min

(* Every shard has one place in the order.                                  *)
LEMMA Places ==
    /\ Len(Order) \in Nat
    /\ \A i \in 1 .. Len(Order) : Order[i] \in Shards
    /\ \A i, j \in 1 .. Len(Order) : Order[i] = Order[j] => i = j
    /\ \A s \in Shards : \E i \in 1 .. Len(Order) : s = Order[i]
    /\ \A s \in Shards : s # Catalog
  <1>1. Order \in Seq(Shards) /\ Catalog \notin Shards
      BY BarrierAssumption, ZenonT(30)
  <1>2. Len(Order) \in Nat /\ DOMAIN Order = 1 .. Len(Order) /\ \A i \in 1 .. Len(Order) : Order[i] \in Shards
      BY <1>1, SMTT(30)
  <1>3. \A i, j \in 1 .. Len(Order) : Order[i] = Order[j] => i = j
      BY <1>2, BarrierAssumption, ZenonT(30) DEF IsInjective
  <1>4. \A s \in Shards : \E i \in 1 .. Len(Order) : s = Order[i]
      BY <1>2, ZenonT(30) DEF Shards, Range
  <1> QED
      BY <1>1, <1>2, <1>3, <1>4, ZenonT(30)

LEMMA AheadOf ==
    ASSUME NEW gs \in SUBSET Shards, NEW k \in 0 .. Len(Order)
    PROVE  /\ Ahead(gs, k) # {} =>
                LET n == Min(Ahead(gs, k))
                IN  /\ n \in 1 .. Len(Order) /\ n > k /\ Order[n] \in gs
                    /\ \A i \in 1 .. Len(Order) : i > k /\ i < n => Order[i] \notin gs
           /\ Ahead(gs, k) = {} => \A i \in 1 .. Len(Order) : i > k => Order[i] \notin gs
  <1>1. Ahead(gs, k) \in SUBSET Nat
      BY Places, SMTT(30) DEF Ahead
  <1>2. CASE Ahead(gs, k) # {}
    <2> DEFINE n == Min(Ahead(gs, k))
    <2>1. n \in Ahead(gs, k) /\ \A x \in Ahead(gs, k) : n <= x
        BY <1>1, <1>2, MinOf, ZenonT(30)
    <2> HIDE DEF n
    <2>2. n \in 1 .. Len(Order) /\ n > k /\ Order[n] \in gs
        BY <2>1, Places, SMTT(30) DEF Ahead
    <2>3. \A i \in 1 .. Len(Order) : i > k /\ i < n => Order[i] \notin gs
        BY <2>1, <2>2, Places, SMTT(30) DEF Ahead
    <2> QED
        BY <1>2, <2>2, <2>3, ZenonT(30) DEF n
  <1>3. CASE Ahead(gs, k) = {}
      BY <1>3, Places, SMTT(30) DEF Ahead
  <1> QED
      BY <1>2, <1>3, ZenonT(30)

(* The walk begins at the first shard of a list that has one.               *)
LEMMA LeadOf ==
    ASSUME NEW gs \in SUBSET Shards, gs # {}
    PROVE  Lead(gs) \in 1 .. Len(Order) /\ Order[Lead(gs)] \in gs /\ Before(gs, Lead(gs)) = {}
  <1>1. 0 \in 0 .. Len(Order)
      BY Places, SMTT(30)
  <1>2. Ahead(gs, 0) # {}
    <2>1. PICK s \in gs : s \in Shards
        BY ZenonT(30)
    <2>2. PICK i \in 1 .. Len(Order) : s = Order[i]
        BY <2>1, Places, ZenonT(30)
    <2>3. i \in Ahead(gs, 0)
        BY <2>1, <2>2, Places, SMTT(30) DEF Ahead
    <2> QED
        BY <2>3, ZenonT(30)
  <1>3. /\ Lead(gs) \in 1 .. Len(Order) /\ Order[Lead(gs)] \in gs
        /\ \A i \in 1 .. Len(Order) : i < Lead(gs) => Order[i] \notin gs
    <2> DEFINE n == Min(Ahead(gs, 0))
    <2>1. /\ n \in 1 .. Len(Order) /\ n > 0 /\ Order[n] \in gs
          /\ \A i \in 1 .. Len(Order) : i > 0 /\ i < n => Order[i] \notin gs
        BY <1>1, <1>2, AheadOf, ZenonT(30)
    <2>2. Lead(gs) = n
        BY ZenonT(30) DEF Lead
    <2> HIDE DEF n
    <2> QED
        BY <2>1, <2>2, Places, SMTT(30)
  <1> QED
      BY <1>3, ZenonT(30) DEF Before

(* The one whose turn it is, if it is a shard's.                            *)
Turns(r) == IF run[r].k > 0 THEN {Order[run[r].k]} ELSE {}

(* One step onward: the turn passes to the next shard, or all had theirs.   *)
LEMMA Walk ==
    ASSUME ControlTypes, WalkOK, NEW r \in Runs, run[r].pc \notin {"idle", "over"}, NEW next \in Steps
    PROVE  LET q == Onward(r, next)
           IN  /\ q \in RunType
               /\ q.groups = run[r].groups /\ q.at = run[r].at /\ q.mark = run[r].mark
               /\ q.k > 0 => Order[q.k] \in run[r].groups
               /\ \/ q.pc = run[r].pc /\ q.k > 0 /\ Before(q.groups, q.k) = Passed(r) \cup Turns(r)
                  \/ /\ q.pc = next /\ Before(q.groups, q.k) = {}
                     /\ IF next = "writers" THEN q.k > 0 ELSE q.k = 0
                     /\ run[r].groups = Passed(r) \cup Turns(r)
  <1> DEFINE gs == run[r].groups
             k == run[r].k
             q == Onward(r, next)
  <1>1. run[r] \in RunType
      BY ZenonT(30) DEF ControlTypes
  <1>2. gs \in SUBSET Shards /\ k \in 0 .. Len(Order) /\ gs # {} /\ (k > 0 => Order[k] \in gs)
      BY <1>1, ZenonT(30) DEF WalkOK, Walks, RunType
  <1>3. CASE Ahead(gs, k) # {}
    <2> DEFINE n == Min(Ahead(gs, k))
    <2>1. /\ n \in 1 .. Len(Order) /\ n > k /\ Order[n] \in gs
          /\ \A i \in 1 .. Len(Order) : i > k /\ i < n => Order[i] \notin gs
        BY <1>2, <1>3, AheadOf, Zenon
    <2>2. q = [run[r] EXCEPT !.k = n]
        BY <1>3, ZenonT(30) DEF Onward
    <2> HIDE DEF n, q
    <2>6. n \in 0 .. Len(Order)
        BY <2>1, Places, SMTT(30)
    <2>3. q \in RunType /\ q.pc = run[r].pc /\ q.k = n /\ q.groups = gs /\ q.at = run[r].at /\ q.mark = run[r].mark
        BY <1>1, <2>2, <2>6, ZenonT(30) DEF RunType
    <2>4. Before(gs, n) = Before(gs, k) \cup Turns(r)
      <3>1. ASSUME NEW s \in Before(gs, n) PROVE s \in Before(gs, k) \cup Turns(r)
        <4>1. PICK i \in 1 .. Len(Order) : i < n /\ s = Order[i] /\ s \in gs
            BY <3>1, ZenonT(30) DEF Before
        <4>2. i <= k
            BY <4>1, <2>1, <1>2, Places, SMTT(30)
        <4> QED
            BY <4>1, <4>2, <1>2, Places, SMTT(30) DEF Before, Turns
      <3>2. ASSUME NEW s \in Before(gs, k) PROVE s \in Before(gs, n)
          BY <3>2, <2>1, <1>2, Places, SMTT(30) DEF Before
      <3>3. ASSUME NEW s \in Turns(r) PROVE s \in Before(gs, n)
          BY <3>3, <2>1, <1>2, Places, SMTT(30) DEF Before, Turns
      <3> QED
          BY <3>1, <3>2, <3>3, ZenonT(30)
    <2> QED
        BY <2>1, <2>3, <2>4, Places, SMTT(30) DEF q, Passed
  <1>4. CASE Ahead(gs, k) = {}
    <2>1. \A i \in 1 .. Len(Order) : i > k => Order[i] \notin gs
        BY <1>2, <1>4, AheadOf, Zenon
    <2>2. gs = Before(gs, k) \cup Turns(r)
      <3>1. ASSUME NEW s \in gs PROVE s \in Before(gs, k) \cup Turns(r)
        <4>1. PICK i \in 1 .. Len(Order) : s = Order[i]
            BY <3>1, <1>2, Places, ZenonT(30)
        <4> QED
            BY <3>1, <4>1, <2>1, <1>2, Places, SMTT(30) DEF Before, Turns
      <3> QED
          BY <3>1, <1>2, ZenonT(30) DEF Before, Turns
    <2> DEFINE n == IF next = "writers" THEN Lead(gs) ELSE 0
    <2>3. n \in 0 .. Len(Order) /\ (IF next = "writers" THEN n > 0 ELSE n = 0)
          /\ (n > 0 => Order[n] \in gs) /\ Before(gs, n) = {}
      <3>1. Before(gs, 0) = {}
          BY Places, SMTT(30) DEF Before
      <3> QED
          BY <1>2, <3>1, LeadOf, Places, SMTT(30)
    <2>4. q = [run[r] EXCEPT !.pc = next, !.k = n]
        BY <1>4, ZenonT(30) DEF Onward
    <2> HIDE DEF n, q
    <2>5. q \in RunType /\ q.pc = next /\ q.k = n /\ q.groups = gs /\ q.at = run[r].at /\ q.mark = run[r].mark
        BY <1>1, <2>3, <2>4, Zenon DEF RunType
    <2> QED
        BY <2>2, <2>3, <2>5, ZenonT(30) DEF q, Passed
  <1> QED
      BY <1>3, <1>4, ZenonT(30)

----------------------------------------------------------------------------
(* Types *)

LEMMA Blank == Idle \in RunType /\ NoCut \in CutType
  <1>1. 0 \in 0 .. Len(Order)
      BY Places, SMTT(30)
  <1>2. Idle \in RunType
      BY <1>1, SMTT(30) DEF Idle, RunType, Steps, Certifying, Relying
  <1> QED
      BY <1>2, ZenonT(30) DEF NoCut, CutType

LEMMA InitTypes == Init => Types /\ WalkOK
  <1> SUFFICES ASSUME Init PROVE Types /\ WalkOK
      BY ZenonT(30)
  <1>0. 0 \in 0 .. Len(Order)
      BY Places, SMTT(30)
  <1>1. ControlTypes
    <2>1. Idle \in RunType /\ NoCut \in CutType
        BY Blank, ZenonT(30)
    <2> QED
        BY <1>0, <2>1, ZenonT(30) DEF Init, ControlTypes, PassType, NoPass
  <1>2. PauseTypes
    <2>1. plan.retired # Shards /\ plan.retired \subseteq Shards
        BY BarrierAssumption, ZenonT(30) DEF Init
    <2>2. paused \in [Shards -> BOOLEAN]
      <3>1. paused = [s \in Shards |-> s \in plan.retired]
          BY ZenonT(30) DEF Init
      <3>2. \A s \in Shards : (s \in plan.retired) \in BOOLEAN
          OBVIOUS
      <3> QED
          BY <3>1, <3>2, Zenon
    <2> QED
        BY <2>1, <2>2, Zenon DEF Init, PauseTypes
  <1>3. DataTypes
      BY ZenonT(30) DEF Init, DataTypes, Branches
  <1>4. WalkOK
      BY SMTT(30) DEF Init, WalkOK, Walks, Idle, NoPass
  <1> QED
      BY <1>1, <1>2, <1>3, <1>4, ZenonT(30) DEF Types

(* What each kind of step leaves alone.                                     *)
LEMMA ClientKeeps == Client => UNCHANGED <<control, pauses, plan, archive, faults>>
  BY ZenonT(30) DEF Client, LogPreparing, Decide, Forget, Abort, Begin, Write, Commit, Prepare, CommitPrepared

LEMMA RunKeeps ==
    ASSUME NEW r \in Runs, Starting(r) \/ RunStep(r) \/ Die(r) \/ LoseLock(r)
    PROVE  UNCHANGED <<rec, own, armed, data, last, store>>
  BY Zenon DEF RunStep, Starting, Die, LoseLock, RaiseFence, PauseAll, Fenced, Drain, DrainWriters, Mark,
         CreateRestorePoint, AwaitArchived, Remark, Verify, Record, Failing, ResumeAll, ReleaseFence, Finish,
         pauses, archive

LEMMA RecoverKeeps == Recover => UNCHANGED <<point, run, cut, own, armed, data, archive>>
  BY ZenonT(30) DEF Recover, RecoverStep, RecoverDue, RecoverLock, RecoverCheck, RecoverResume, RecoverClear, RecoverFails, pauses

LEMMA RecoverPauses == Recover => paused' = paused \/ (rec.pc = "resume" /\ paused' = Resumed(Order[rec.k]))
  <1>1. CASE RecoverResume
    <2>1. PICK fails \in BOOLEAN : paused' \in {Resumed(Order[rec.k])} \cup IF fails THEN {paused} ELSE {}
        BY <1>1, ZenonT(30) DEF RecoverResume
    <2>2. rec.pc = "resume"
        BY <1>1, ZenonT(30) DEF RecoverResume
    <2> QED
        BY <2>1, <2>2, ZenonT(30)
  <1>2. CASE RecoverDue \/ RecoverLock \/ RecoverCheck \/ RecoverClear \/ RecoverFails
      BY <1>2, ZenonT(30) DEF RecoverDue, RecoverLock, RecoverCheck, RecoverClear, RecoverFails, pauses
  <1> QED
      BY <1>1, <1>2, ZenonT(30) DEF Recover, RecoverStep

LEMMA SurroundingsKeep == Surroundings => UNCHANGED <<point, run, cut, rec, row, seen, plan>>
  BY Zenon DEF Surroundings, CatalogRestart, ArchiveSegment, SeeUnpaused, ReapplyWritePause, Claim, PauseClaimed,
         GiveBack, Retire, LosePause, control, data

LEMMA NextDataTypes == Types /\ [Next]_vars => DataTypes'
  <1> SUFFICES ASSUME Types, [Next]_vars PROVE DataTypes'
      BY ZenonT(30)
  <1>t. /\ plan \in Plans /\ br \in [Txns -> [Shards -> Branches]] /\ seen \in [Txns -> SUBSET Txns]
        /\ row \in [Txns -> {"none", "preparing", "commit", "finished", "aborted"}]
      BY ZenonT(30) DEF Types, DataTypes
  <1>f. \A t \in Txns : Foot[t] \subseteq Shards
      BY <1>t, BarrierAssumption, ZenonT(30) DEF Foot
  <1>1. CASE Client
    <2>0. plan' = plan
        BY <1>1, ClientKeeps, ZenonT(30)
    <2>1. ASSUME NEW t \in Txns, LogPreparing(t) \/ Decide(t) \/ Forget(t) PROVE DataTypes'
        BY <2>0, <2>1, <1>t, Zenon DEF LogPreparing, Decide, Forget, DataTypes
    <2>2. ASSUME NEW t \in Txns, Abort(t) PROVE DataTypes'
        BY <2>0, <2>2, <1>t, ZenonT(30) DEF Abort, DataTypes, Branches
    <2>3. ASSUME NEW t \in Txns, NEW s \in Foot[t], Begin(t, s) PROVE DataTypes'
        BY <2>0, <2>3, <1>t, <1>f, ZenonT(30) DEF Begin, DataTypes, Branches, Acked
    <2>4. ASSUME NEW t \in Txns, NEW s \in Foot[t],
                 Write(t, s) \/ Commit(t, s) \/ Prepare(t, s) \/ CommitPrepared(t, s)
          PROVE  DataTypes'
      <3>1. PICK b \in Branches : br' = [br EXCEPT ![t][s] = b]
          BY <2>4, Zenon DEF Write, Commit, Prepare, CommitPrepared, Branches
      <3>2. row' = row /\ seen' = seen
          BY <2>4, ZenonT(30) DEF Write, Commit, Prepare, CommitPrepared
      <3> QED
          BY <2>0, <3>1, <3>2, <1>t, <1>f, ZenonT(30) DEF DataTypes
    <2> QED
        BY <1>1, <2>1, <2>2, <2>3, <2>4, ZenonT(30) DEF Client
  <1>2. ASSUME NEW s \in Shards, NEW promoted \in BOOLEAN, LosePause(s, promoted) PROVE DataTypes'
      BY <1>2, <1>t, SMTT(30) DEF LosePause, DataTypes, Branches
  <1>3. CASE Surroundings /\ ~\E s \in Shards, promoted \in BOOLEAN : LosePause(s, promoted)
    <2>1. UNCHANGED data
        BY <1>3, Zenon DEF Surroundings, CatalogRestart, ArchiveSegment, SeeUnpaused, ReapplyWritePause, Claim, PauseClaimed,
                    GiveBack, Retire
    <2> QED
        BY <2>1, <1>t, ZenonT(30) DEF data, DataTypes
  <1>4. CASE Barriers \/ Recover \/ UNCHANGED vars
    <2>1. UNCHANGED data
        BY <1>4, RunKeeps, RecoverKeeps, ZenonT(30) DEF Barriers, vars
    <2> QED
        BY <2>1, <1>t, ZenonT(30) DEF data, DataTypes
  <1> QED
      BY <1>1, <1>2, <1>3, <1>4, ZenonT(30) DEF Next

LEMMA NextPauseTypes == Types /\ [Next]_vars => PauseTypes'
  <1> SUFFICES ASSUME Types, [Next]_vars PROVE PauseTypes'
      BY ZenonT(30)
  <1>t. /\ paused \in [Shards -> BOOLEAN] /\ \E s \in Shards : own[s] # "retired"
        /\ own \in [Shards -> {"free", "claimed", "held", "returned", "retired"}]
      BY ZenonT(30) DEF Types, PauseTypes
  <1>r. \A x : Resumed(x) \in [Shards -> BOOLEAN]
      BY <1>t, Zenon DEF Resumed
  <1>1. CASE Client \/ UNCHANGED vars
      BY <1>1, <1>t, ClientKeeps, ZenonT(30) DEF vars, pauses, PauseTypes
  <1>2. ASSUME NEW r \in Runs, Starting(r) \/ RunStep(r) \/ Die(r) \/ LoseLock(r) PROVE PauseTypes'
    <2>1. own' = own
        BY <1>2, RunKeeps, ZenonT(30)
    <2>2. paused' \in [Shards -> BOOLEAN]
      <3>1. CASE PauseAll(r)
          BY <3>1, <1>t, Zenon DEF PauseAll
      <3>2. CASE Failing(r)
          BY <3>2, <1>t, Zenon DEF Failing
      <3>3. CASE ResumeAll(r)
          BY <3>3, <1>t, <1>r, ZenonT(30) DEF ResumeAll
      <3>4. CASE ~PauseAll(r) /\ ~Failing(r) /\ ~ResumeAll(r)
        <4>1. paused' = paused
            BY <1>2, <3>4, Zenon DEF RunStep, Starting, Die, LoseLock, RaiseFence, Fenced, Drain, DrainWriters, Mark,
                 CreateRestorePoint, AwaitArchived, Remark, Verify, Record, ReleaseFence, Finish, pauses
        <4> QED
            BY <4>1, <1>t, ZenonT(30)
      <3> QED
          BY <3>1, <3>2, <3>3, <3>4, ZenonT(30)
    <2> QED
        BY <2>1, <2>2, <1>t, ZenonT(30) DEF PauseTypes
  <1>3. CASE Recover
    <2>1. own' = own
        BY <1>3, RecoverKeeps, ZenonT(30)
    <2>2. paused' \in [Shards -> BOOLEAN]
        BY <1>3, <1>t, <1>r, RecoverPauses, ZenonT(30)
    <2> QED
        BY <2>1, <2>2, <1>t, ZenonT(30) DEF PauseTypes
  <1>4. ASSUME NEW s \in Shards, NEW promoted \in BOOLEAN, LosePause(s, promoted) PROVE PauseTypes'
      BY <1>4, <1>t, ZenonT(30) DEF LosePause, PauseTypes
  <1>5. ASSUME NEW s \in Shards, SeeUnpaused(s) \/ ReapplyWritePause(s) PROVE PauseTypes'
      BY <1>5, <1>t, Zenon DEF SeeUnpaused, ReapplyWritePause, PauseTypes
  <1>6. ASSUME NEW s \in Shards, Claim(s) \/ PauseClaimed(s) \/ GiveBack(s) PROVE PauseTypes'
      BY <1>6, <1>t, Zenon DEF Claim, PauseClaimed, GiveBack, PauseTypes
  <1>7. ASSUME NEW s \in Shards, Retire(s) PROVE PauseTypes'
      BY <1>7, <1>t, ZenonT(30) DEF Retire, PauseTypes
  <1>8. CASE CatalogRestart \/ \E g \in Groups : ArchiveSegment(g)
      BY <1>8, <1>t, ZenonT(30) DEF CatalogRestart, ArchiveSegment, pauses, PauseTypes
  <1> QED
      BY <1>1, <1>2, <1>3, <1>4, <1>5, <1>6, <1>7, <1>8, ZenonT(30) DEF Next, Barriers, Surroundings

(* The point taken on a group, as the cut records it.                       *)
LEMMA Pointing ==
    ASSUME Types, ArchiveTypes, NEW r \in Runs, CreateRestorePoint(r)
    PROVE  LET g == IF run[r].k = 0 THEN Catalog ELSE Turn(r)
           IN  /\ cut' = [cut EXCEPT ![r] = cut'[r]] /\ cut'[r] \in CutType /\ g \in Groups
               /\ wal' = [wal EXCEPT ![g].seg = @ + 1]
               /\ cut'[r].at = [cut[r].at EXCEPT ![g] = <<wal[g].tl, wal[g].seg>>]
               /\ cut'[r].done = cut[r].done \cup {p \in Txns \X {g} : g \in Foot[p[1]] /\ br[p[1]][g] = "committed"}
               /\ cut'[r].prep = cut[r].prep \cup {p \in Txns \X {g} : g \in Foot[p[1]] /\ br[p[1]][g] = "prepared"}
  <1> DEFINE g == IF run[r].k = 0 THEN Catalog ELSE Turn(r)
             In(state) == {<<t, g>> : t \in {u \in Txns : g \in Foot[u] /\ br[u][g] = state}}
             done == cut[r].done \cup In("committed")
             prep == cut[r].prep \cup In("prepared")
             decided == IF g = Catalog THEN {t \in Txns : row[t] = "commit"} ELSE cut[r].decided
             at == [cut[r].at EXCEPT ![g] = <<wal[g].tl, wal[g].seg>>]
             c == [done |-> done, prep |-> prep, decided |-> decided, at |-> at]
  <1>1. /\ run[r] \in RunType /\ cut \in [Runs -> CutType] /\ cut[r] \in CutType
        /\ \A t \in Txns : Foot[t] \subseteq Shards
      BY BarrierAssumption, SMTT(30) DEF Types, ControlTypes, DataTypes, Foot
  <1>2. g \in Groups
      BY <1>1, Places, SMTT(30) DEF RunType, Turn, Groups
  <1>3. cut' = [cut EXCEPT ![r] = c] /\ wal' = [wal EXCEPT ![g].seg = @ + 1]
    <2> USE DEF CreateRestorePoint
    <2>1. wal' = [wal EXCEPT ![g].seg = @ + 1]
        BY ZenonT(30)
    <2>2. cut' = [cut EXCEPT ![r] = c]
        BY ZenonT(30)
    <2> QED
        BY <2>1, <2>2, ZenonT(30)
  <1>4. \A state : In(state) = {p \in Txns \X {g} : g \in Foot[p[1]] /\ br[p[1]][g] = state}
      OBVIOUS
  <1>5. \A state : In(state) \subseteq Txns \X Shards
      BY <1>1, SMTT(30)
  <1>6. <<wal[g].tl, wal[g].seg>> \in Nat \X Nat
      BY <1>2, ZenonT(30) DEF ArchiveTypes
  <1>7. /\ done \in SUBSET (Txns \X Shards) /\ prep \in SUBSET (Txns \X Shards) /\ decided \in SUBSET Txns
        /\ at \in [Groups -> (Nat \X Nat) \cup {None}]
    <2>1. /\ cut[r].done \in SUBSET (Txns \X Shards) /\ cut[r].prep \in SUBSET (Txns \X Shards)
          /\ cut[r].decided \in SUBSET Txns /\ cut[r].at \in [Groups -> (Nat \X Nat) \cup {None}]
        BY <1>1, ZenonT(30) DEF CutType
    <2> HIDE DEF In
    <2>2. done \in SUBSET (Txns \X Shards) /\ prep \in SUBSET (Txns \X Shards)
        BY <2>1, <1>5, ZenonT(30)
    <2>3. decided \in SUBSET Txns
        BY <2>1, ZenonT(30)
    <2>4. at \in [Groups -> (Nat \X Nat) \cup {None}]
        BY <2>1, <1>2, <1>6, ZenonT(30)
    <2> QED
        BY <2>2, <2>3, <2>4, ZenonT(30)
  <1>8. c \in CutType /\ c.done = done /\ c.prep = prep /\ c.at = at
    <2> HIDE DEF done, prep, decided, at
    <2> QED
        BY <1>7, ZenonT(30) DEF CutType
  <1>9. cut'[r] = c /\ cut' = [cut EXCEPT ![r] = cut'[r]]
    <2> HIDE DEF c
    <2> QED
        BY <1>1, <1>3, ZenonT(30)
  <1> HIDE DEF c, at, In
  <1> QED
      BY <1>2, <1>3, <1>4, <1>8, <1>9, ZenonT(30) DEF at

LEMMA Watermark == DecisionWatermark \in Nat
  <1>1. IsFiniteSet({t \in Txns : row[t] # "none"})
      BY BarrierAssumption, FS_Subset, ZenonT(30)
  <1> QED
      BY <1>1, FS_CardinalityType, ZenonT(30) DEF DecisionWatermark

(* A step of a run changes nothing of another's, and keeps to the walk.     *)
LEMMA RunMove ==
    ASSUME Types, ArchiveTypes, WalkOK, NEW r \in Runs, Starting(r) \/ RunStep(r) \/ Die(r) \/ LoseLock(r)
    PROVE  /\ run' = [run EXCEPT ![r] = run'[r]] /\ run'[r] \in RunType
           /\ cut' = [cut EXCEPT ![r] = cut'[r]] /\ cut'[r] \in CutType
           /\ point' = [point EXCEPT ![r] = point'[r]]
           /\ point'[r] \in {"none", "reserved", "failed", "certified"}
           /\ Walks(run'[r], point'[r])
  <1>t. /\ run \in [Runs -> RunType] /\ cut \in [Runs -> CutType] /\ run[r] \in RunType /\ cut[r] \in CutType
        /\ point \in [Runs -> {"none", "reserved", "failed", "certified"}]
        /\ Walks(run[r], point[r]) /\ run[r].groups \in SUBSET Shards
        /\ run[r].pc \in Steps /\ run[r].k \in 0 .. Len(Order)
      BY ZenonT(30) DEF Types, ControlTypes, WalkOK, RunType
  <1>c. /\ cut' = [cut EXCEPT ![r] = cut'[r]] /\ cut'[r] \in CutType
    <2>1. CASE CreateRestorePoint(r)
        BY <2>1, Pointing, ZenonT(30)
    <2>2. CASE Failing(r) \/ Die(r)
        BY <2>2, <1>t, Blank, ZenonT(30) DEF Failing, Die
    <2>3. CASE cut' = cut
        BY <2>3, <1>t, ZenonT(30)
    <2> QED
        BY <2>1, <2>2, <2>3, ZenonT(30) DEF RunStep, Starting, LoseLock, RaiseFence, PauseAll, Fenced, Drain, DrainWriters, Mark,
             AwaitArchived, Remark, Verify, Record, ResumeAll, ReleaseFence, Finish
  <1>p. /\ point' = [point EXCEPT ![r] = point'[r]]
        /\ point'[r] \in {"none", "reserved", "failed", "certified"}
        /\ point'[r] = "certified" => point[r] = "certified" \/ Record(r)
    <2>1. CASE Starting(r) \/ Record(r) \/ Finish(r)
        BY <2>1, <1>t, ZenonT(30) DEF Starting, Record, Finish
    <2>2. CASE point' = point
        BY <2>2, <1>t, ZenonT(30)
    <2> QED
        BY <2>1, <2>2, Zenon DEF RunStep, LoseLock, RaiseFence, PauseAll, Fenced, Drain, DrainWriters, Mark, Failing, Die,
             CreateRestorePoint, AwaitArchived, Remark, Verify, ResumeAll, ReleaseFence
  <1>o. 0 \in 0 .. Len(Order)
      BY Places, SMTT(30)
  <1> DEFINE Goal == /\ run' = [run EXCEPT ![r] = run'[r]] /\ run'[r] \in RunType
                     /\ Walks(run'[r], point'[r])
             Moved(q) == run' = [run EXCEPT ![r] = q]
  <1>i. ASSUME NEW q \in RunType, Moved(q), Walks(q, point'[r]) PROVE Goal
      BY <1>i, <1>t, ZenonT(30)
  <1> HIDE DEF Goal, Moved
  <1> SUFFICES Goal
      BY <1>c, <1>p, ZenonT(30) DEF Goal
  <1>n. ASSUME NEW next \in Steps, next \notin {"idle", "fence"},
               run[r].pc \notin {"idle", "over"}, next \in {"pause", "resume"} => FALSE,
               point'[r] = "certified" => next \notin Certifying /\ run[r].pc \notin Certifying \cup {"idle", "fence"}
        PROVE  LET q == Onward(r, next) IN q \in RunType /\ Walks(q, point'[r])
    <2> DEFINE q == Onward(r, next)
    <2>1. /\ q \in RunType /\ q.groups = run[r].groups /\ (q.k > 0 => Order[q.k] \in run[r].groups)
          /\ \/ q.pc = run[r].pc /\ q.k > 0
             \/ q.pc = next /\ IF next = "writers" THEN q.k > 0 ELSE q.k = 0
        BY <1>n, Walk, SMTT(30) DEF Types
    <2> HIDE DEF q
    <2>2. Walks(q, point'[r])
        BY <1>n, <1>t, <2>1, ZenonT(30) DEF Walks
    <2> QED
        BY <2>1, <2>2, ZenonT(30) DEF q
  <1>g. ASSUME NEW next \in Steps, next \notin {"pause", "writers", "resume", "idle", "fence"},
               run[r].pc \notin {"idle", "over"}, point'[r] = "certified" => next \notin Certifying
        PROVE  LET q == Goto(r, next) IN q \in RunType /\ Walks(q, point'[r])
    <2>1. Goto(r, next) \in RunType
        BY <1>t, <1>o, Zenon DEF Goto, RunType
    <2>2. Walks(Goto(r, next), point'[r])
        BY <1>t, <1>g, SMTT(30) DEF Goto, Walks, RunType
    <2> QED
        BY <2>1, <2>2, ZenonT(30)
  <1>l. ASSUME run[r].pc \notin {"idle", "over"}
        PROVE  Leaving(r) \in RunType /\ Walks(Leaving(r), point'[r])
    <2>1. run[r].groups # {}
        BY <1>t, <1>l, ZenonT(30) DEF Walks
    <2>2. Lead(run[r].groups) \in 0 .. Len(Order) /\ Lead(run[r].groups) > 0 /\ Order[Lead(run[r].groups)] \in run[r].groups
        BY <2>1, <1>t, LeadOf, Places, SMTT(30)
    <2> QED
        BY <2>1, <2>2, <1>t, Blank, Zenon DEF Leaving, RunType, Walks, Steps, Certifying, Relying, Idle
  <1>v. ASSUME Moved([Idle EXCEPT !.pc = "over"]) PROVE Goal
    <2>1. [Idle EXCEPT !.pc = "over"] \in RunType
        BY Blank, ZenonT(30) DEF RunType, Steps
    <2>2. Walks([Idle EXCEPT !.pc = "over"], point'[r])
        BY SMTT(30) DEF Walks, Idle, Certifying, Relying
    <2> QED
        BY <2>1, <2>2, <1>i, <1>v, ZenonT(30)
  <1>s. Steps = {"pause", "fenced", "drain", "writers", "mark", "points", "archive", "remark", "verify", "record",
                 "idle", "fence", "resume", "release", "finish", "over"}
      BY ZenonT(30) DEF Steps, Certifying, Relying
  <1>e. Certifying = {"pause", "fenced", "drain", "writers", "mark", "points", "archive", "remark", "verify", "record"}
      BY ZenonT(30) DEF Certifying, Relying
  <1>w. point[r] = "certified" => run[r].pc \notin Certifying \cup {"idle", "fence"}
      BY <1>t, ZenonT(30) DEF Walks
  <1>1. CASE Starting(r)
    <2> DEFINE q == [run[r] EXCEPT !.pc = "fence", !.groups = Active]
    <2>1. Active \in SUBSET Shards /\ Active # {}
        BY ZenonT(30) DEF Active, Types, PauseTypes
    <2>2. Moved(q)
        BY <1>1, ZenonT(30) DEF Moved, Starting
    <2>3. run[r].pc = "idle" /\ point'[r] # "certified"
        BY <1>1, <1>t, ZenonT(30) DEF Starting
    <2>5. run[r].k = 0
        BY <2>3, <1>t, ZenonT(30) DEF Walks
    <2>4. q \in RunType
        BY <2>1, <1>t, <1>s, Zenon DEF RunType
    <2>6. q.pc = "fence" /\ q.k = 0 /\ q.groups = Active
        BY <2>5, <1>t, ZenonT(30) DEF RunType
    <2>7. Walks(q, point'[r])
        BY <2>1, <2>3, <2>6, SMTT(30) DEF Walks
    <2> HIDE DEF q
    <2> QED
        BY <2>2, <2>4, <2>7, <1>i, ZenonT(30)
  <1>2. CASE RaiseFence(r)
    <2>0. run[r].pc = "fence" /\ point'[r] # "certified"
        BY <1>2, <1>p, <1>w, ZenonT(30) DEF RaiseFence, Record
    <2>1. CASE Moved(Goto(r, "finish"))
        BY <2>0, <2>1, <1>g, <1>i, <1>s, ZenonT(30)
    <2>2. CASE Moved([run[r] EXCEPT !.pc = "pause", !.k = Lead(run[r].groups)])
      <3> DEFINE q == [run[r] EXCEPT !.pc = "pause", !.k = Lead(run[r].groups)]
      <3>1. run[r].groups # {}
          BY <1>t, <2>0, ZenonT(30) DEF Walks
      <3>2. Lead(run[r].groups) \in 0 .. Len(Order) /\ Lead(run[r].groups) > 0 /\ Order[Lead(run[r].groups)] \in run[r].groups
          BY <3>1, <1>t, LeadOf, Places, SMTT(30)
      <3>3. q \in RunType /\ Walks(q, point'[r])
          BY <3>1, <3>2, <2>0, <1>t, <1>s, Zenon DEF RunType, Walks
      <3> HIDE DEF q
      <3> QED
          BY <2>2, <3>3, <1>i, ZenonT(30) DEF q
    <2> QED
        BY <1>2, <2>1, <2>2, ZenonT(30) DEF Moved, RaiseFence
  <1>3. CASE PauseAll(r)
    <2> DEFINE o == Onward(r, "fenced")
               q == [o EXCEPT !.at[Turn(r)] = {t \in Txns : br[t][Turn(r)] # "none"}]
    <2>0. run[r].pc = "pause" /\ point'[r] # "certified"
        BY <1>3, <1>p, <1>w, <1>e, ZenonT(30) DEF PauseAll, Record
    <2>1. o \in RunType /\ Walks(o, point'[r])
        BY <2>0, <1>n, <1>s, ZenonT(30)
    <2>2. Moved(q)
        BY <1>3, ZenonT(30) DEF Moved, PauseAll
    <2>3. Turn(r) \in Shards
        BY <2>0, <1>t, Places, ZenonT(30) DEF Walks, Turn
    <2> HIDE DEF o
    <2>4. q \in RunType /\ Walks(q, point'[r])
        BY <2>1, <2>3, ZenonT(30) DEF RunType, Walks
    <2> HIDE DEF q
    <2> QED
        BY <2>2, <2>4, <1>i, ZenonT(30)
  <1>4. CASE Fenced(r)
    <2>0. run[r].pc = "fenced" /\ point'[r] # "certified" /\ Moved(Goto(r, "drain"))
        BY <1>4, <1>p, <1>w, <1>e, ZenonT(30) DEF Moved, Fenced, Record
    <2> QED
        BY <2>0, <1>g, <1>i, <1>s, ZenonT(30)
  <1>5. CASE Drain(r)
    <2>0. run[r].pc = "drain" /\ point'[r] # "certified"
        BY <1>5, <1>p, <1>w, <1>e, ZenonT(30) DEF Drain, Record
    <2>1. Moved(Onward(r, "writers")) \/ Moved(Goto(r, "drain"))
        BY <1>5, Zenon DEF Moved, Drain
    <2> QED
        BY <2>0, <2>1, <1>g, <1>n, <1>i, <1>s, ZenonT(30)
  <1>6. CASE DrainWriters(r)
    <2>0. run[r].pc = "writers" /\ point'[r] # "certified"
        BY <1>6, <1>p, <1>w, <1>e, ZenonT(30) DEF DrainWriters, Record
    <2>1. CASE \E next \in {"mark", "points"} : Moved(Onward(r, next))
        BY <2>0, <2>1, <1>n, <1>i, <1>s, ZenonT(30)
    <2>2. CASE Moved([run[r] EXCEPT !.k = Lead(run[r].groups)])
      <3> DEFINE q == [run[r] EXCEPT !.k = Lead(run[r].groups)]
      <3>1. run[r].groups # {}
          BY <1>t, <2>0, ZenonT(30) DEF Walks
      <3>2. Lead(run[r].groups) \in 0 .. Len(Order) /\ Lead(run[r].groups) > 0 /\ Order[Lead(run[r].groups)] \in run[r].groups
          BY <3>1, <1>t, LeadOf, Places, SMTT(30)
      <3>3. q \in RunType /\ Walks(q, point'[r])
          BY <3>1, <3>2, <2>0, <1>t, <1>s, Zenon DEF RunType, Walks
      <3> HIDE DEF q
      <3> QED
          BY <2>2, <3>3, <1>i, ZenonT(30) DEF q
    <2> QED
        BY <1>6, <2>1, <2>2, Zenon DEF Moved, DrainWriters
  <1>7. CASE Mark(r)
    <2> DEFINE o == Goto(r, "drain")
               q == [o EXCEPT !.mark = DecisionWatermark]
    <2>0. run[r].pc = "mark" /\ point'[r] # "certified"
        BY <1>7, <1>p, <1>w, <1>e, ZenonT(30) DEF Mark, Record
    <2>1. o \in RunType /\ Walks(o, point'[r])
        BY <2>0, <1>g, <1>s, ZenonT(30)
    <2>2. Moved(q)
        BY <1>7, ZenonT(30) DEF Moved, Mark
    <2>3. DecisionWatermark \in Int
        BY Watermark, SMTT(30)
    <2> HIDE DEF o
    <2>4. q \in RunType /\ Walks(q, point'[r])
        BY <2>1, <2>3, ZenonT(30) DEF RunType, Walks
    <2> HIDE DEF q
    <2> QED
        BY <2>2, <2>4, <1>i, ZenonT(30)
  <1>8. CASE CreateRestorePoint(r) \/ AwaitArchived(r) \/ Verify(r)
    <2>0. run[r].pc \in {"points", "archive", "verify"} /\ point'[r] # "certified"
        BY <1>8, <1>p, <1>w, <1>e, ZenonT(30) DEF CreateRestorePoint, AwaitArchived, Verify, Record
    <2>1. \E next \in {"archive", "remark", "record"} : Moved(Onward(r, next))
        BY <1>8, ZenonT(30) DEF Moved, CreateRestorePoint, AwaitArchived, Verify
    <2> QED
        BY <2>0, <2>1, <1>n, <1>i, <1>s, ZenonT(30)
  <1>9. CASE Remark(r)
    <2>0. run[r].pc = "remark" /\ point'[r] # "certified" /\ Moved(Goto(r, "verify"))
        BY <1>9, <1>p, <1>w, <1>e, ZenonT(30) DEF Moved, Remark, Record
    <2> QED
        BY <2>0, <1>g, <1>i, <1>s, ZenonT(30)
  <1>10. CASE Record(r) \/ Failing(r)
    <2>0. run[r].pc \in Certifying /\ Moved(Leaving(r))
        BY <1>10, <1>e, ZenonT(30) DEF Moved, Record, Failing
    <2> QED
        BY <2>0, <1>l, <1>i, <1>e, ZenonT(30)
  <1>11. CASE ResumeAll(r)
    <2> DEFINE o == Onward(r, "release")
               q == [o EXCEPT !.stuck = TRUE]
    <2>0. run[r].pc = "resume"
        BY <1>11, ZenonT(30) DEF ResumeAll
    <2>1. o \in RunType /\ Walks(o, point'[r])
        BY <2>0, <1>n, <1>s, <1>e, ZenonT(30)
    <2>2. Moved(o) \/ Moved(q)
        BY <1>11, ZenonT(30) DEF Moved, ResumeAll
    <2> HIDE DEF o
    <2>4. q \in RunType /\ Walks(q, point'[r])
        BY <2>1, Zenon DEF RunType, Walks
    <2> HIDE DEF q
    <2> QED
        BY <2>1, <2>2, <2>4, <1>i, ZenonT(30)
  <1>12. CASE ReleaseFence(r)
    <2>0. run[r].pc = "release" /\ Moved(Goto(r, "finish"))
        BY <1>12, ZenonT(30) DEF Moved, ReleaseFence
    <2> QED
        BY <2>0, <1>g, <1>i, <1>s, <1>e, ZenonT(30)
  <1>13. CASE Finish(r) \/ Die(r)
    <2>1. Moved([Idle EXCEPT !.pc = "over"])
        BY <1>13, ZenonT(30) DEF Moved, Finish, Die
    <2> QED
        BY <2>1, <1>t, <1>v, ZenonT(30)
  <1>14. CASE LoseLock(r)
      BY <1>14, <1>t, ZenonT(30) DEF LoseLock, Goal
  <1> QED
      BY <1>1, <1>2, <1>3, <1>4, <1>5, <1>6, <1>7, <1>8, <1>9, <1>10, <1>11, <1>12, <1>13, <1>14, ZenonT(30) DEF RunStep

LEMMA NextControl == Types /\ ArchiveTypes /\ WalkOK /\ [Next]_vars => ControlTypes' /\ WalkOK'
  <1> SUFFICES ASSUME Types, ArchiveTypes, WalkOK, [Next]_vars PROVE ControlTypes' /\ WalkOK'
      BY ZenonT(30)
  <1>t. ControlTypes
      BY ZenonT(30) DEF Types
  <1>1. ASSUME NEW r \in Runs, Starting(r) \/ RunStep(r) \/ Die(r) \/ LoseLock(r) PROVE ControlTypes' /\ WalkOK'
    <2>1. /\ run' = [run EXCEPT ![r] = run'[r]] /\ run'[r] \in RunType
          /\ cut' = [cut EXCEPT ![r] = cut'[r]] /\ cut'[r] \in CutType
          /\ point' = [point EXCEPT ![r] = point'[r]]
          /\ point'[r] \in {"none", "reserved", "failed", "certified"}
          /\ Walks(run'[r], point'[r])
        BY <1>1, RunMove, ZenonT(30)
    <2>2. rec' = rec
        BY <1>1, RunKeeps, ZenonT(30)
    <2>3. ControlTypes'
        BY <2>1, <2>2, <1>t, ZenonT(30) DEF ControlTypes
    <2>4. \A x \in Runs : Walks(run'[x], point'[x])
        BY <2>1, <1>t, ZenonT(30) DEF ControlTypes, WalkOK
    <2> QED
        BY <2>2, <2>3, <2>4, ZenonT(30) DEF WalkOK
  <1>2. CASE Recover
    <2>1. UNCHANGED <<point, run, cut>>
        BY <1>2, RecoverKeeps, ZenonT(30)
    <2> DEFINE Ok(p) == p \in PassType /\ (p.pc \notin {"idle", "lock"} => p.k > 0 /\ Order[p.k] \in p.groups)
    <2>2. Ok(rec)
        BY <1>t, ZenonT(30) DEF ControlTypes, WalkOK
    <2>n. Ok(NoPass) /\ NoPass \in PassType
      <3>1. 0 \in 0 .. Len(Order)
          BY Places, SMTT(30)
      <3> QED
          BY <3>1, ZenonT(30) DEF PassType, NoPass
    <2>3. Ok(rec')
      <3>1. CASE RecoverDue \/ RecoverLock
        <4>1. Active \in SUBSET Shards /\ Active # {}
            BY ZenonT(30) DEF Active, Types, PauseTypes
        <4>2. Lead(Active) \in 0 .. Len(Order) /\ Lead(Active) > 0 /\ Order[Lead(Active)] \in Active
            BY <4>1, LeadOf, Places, SMTT(30)
        <4>3. \/ rec' = NoPass \/ rec' = [NoPass EXCEPT !.pc = "lock"]
              \/ rec' = [NoPass EXCEPT !.pc = "check", !.k = Lead(Active), !.groups = Active]
            BY <3>1, ZenonT(30) DEF RecoverDue, RecoverLock
        <4> QED
          <5>1. NoPass.pc = "idle"
              BY ZenonT(30) DEF NoPass
          <5>2. CASE rec' = [NoPass EXCEPT !.pc = "lock"]
              BY <5>1, <5>2, <2>n, ZenonT(30) DEF PassType
          <5>3. CASE rec' = [NoPass EXCEPT !.pc = "check", !.k = Lead(Active), !.groups = Active]
              BY <5>3, <4>1, <4>2, <2>n, ZenonT(30) DEF PassType
          <5> QED
              BY <5>2, <5>3, <4>3, <2>n, Zenon
      <3>2. CASE RecoverCheck
          BY <3>2, <2>2, ZenonT(30) DEF RecoverCheck, PassType
      <3>3. CASE RecoverResume
        <4> DEFINE n == Min(Ahead(rec.groups, rec.k))
        <4>0. rec \in PassType /\ rec.pc = "resume" /\ rec.k > 0 /\ Order[rec.k] \in rec.groups
            BY <3>3, <2>2, ZenonT(30) DEF RecoverResume
        <4>1. PICK fails \in BOOLEAN :
                \/ rec' = NoPass
                \/ rec' = [rec EXCEPT !.pc = "clear"]
                \/ Ahead(rec.groups, rec.k) # {} /\ rec' = [rec EXCEPT !.k = n, !.stuck = fails \/ @]
          <5>1. PICK fails \in BOOLEAN :
                  rec' = IF Ahead(rec.groups, rec.k) = {} /\ (fails \/ rec.stuck) THEN NoPass
                         ELSE IF Ahead(rec.groups, rec.k) = {} THEN [rec EXCEPT !.pc = "clear"]
                         ELSE [rec EXCEPT !.k = n, !.stuck = fails \/ @]
              BY <3>3, Zenon DEF RecoverResume
          <5> HIDE DEF n
          <5> QED
              BY <5>1, ZenonT(30)
        <4>2. Ahead(rec.groups, rec.k) # {} => n \in 1 .. Len(Order) /\ Order[n] \in rec.groups
            BY <4>0, AheadOf, Zenon DEF PassType
        <4> HIDE DEF n
        <4>3. Ahead(rec.groups, rec.k) # {} => n \in 0 .. Len(Order) /\ n > 0
            BY <4>2, Places, SMTT(30)
        <4>4. CASE rec' = [rec EXCEPT !.pc = "clear"]
            BY <4>4, <4>0, ZenonT(30) DEF PassType
        <4>5. CASE Ahead(rec.groups, rec.k) # {} /\ rec' = [rec EXCEPT !.k = n, !.stuck = fails \/ @]
            BY <4>5, <4>0, <4>2, <4>3, ZenonT(30) DEF PassType
        <4> QED
            BY <4>1, <4>4, <4>5, <2>n, ZenonT(30)
      <3>4. CASE RecoverClear \/ RecoverFails
          BY <3>4, <2>n, ZenonT(30) DEF RecoverClear, RecoverFails
      <3> QED
          BY <1>2, <3>1, <3>2, <3>3, <3>4, ZenonT(30) DEF Recover, RecoverStep
    <2> QED
        BY <2>1, <2>3, <1>t, ZenonT(30) DEF ControlTypes, WalkOK
  <1>3. CASE Client \/ Surroundings \/ UNCHANGED vars
    <2>1. UNCHANGED <<point, run, cut, rec>>
        BY <1>3, ClientKeeps, SurroundingsKeep, ZenonT(30) DEF vars, control
    <2> QED
        BY <2>1, <1>t, ZenonT(30) DEF ControlTypes, WalkOK
  <1> QED
      BY <1>1, <1>2, <1>3, ZenonT(30) DEF Next, Barriers

----------------------------------------------------------------------------
(* The archive *)

LEMMA InitArchive == Init => ArchiveTypes /\ ReportOK /\ PointOK /\ CertOK
  <1> SUFFICES ASSUME Init PROVE ArchiveTypes /\ ReportOK /\ PointOK /\ CertOK
      BY ZenonT(30)
  <1>1. ArchiveTypes /\ ReportOK
      BY SMTT(30) DEF Init, ArchiveTypes, ReportOK
  <1>2. \A r \in Runs : cut[r] = NoCut /\ run[r].pc = "idle" /\ point[r] = "none"
      BY ZenonT(30) DEF Init, Idle
  <1>3. PointOK
      BY <1>2, SMTT(30) DEF PointOK, NoCut
  <1> QED
      BY <1>1, <1>2, <1>3, ZenonT(30) DEF CertOK, Cert

(* What a step does to a group's archive.                                   *)
LEMMA ArchiveMoves ==
    ASSUME Types, ArchiveTypes, WalkOK, [Next]_vars
    PROVE  \/ UNCHANGED archive
           \/ \E g \in Groups : ArchiveSegment(g)
           \/ \E s \in Shards : LosePause(s, TRUE)
           \/ \E r \in Runs : CreateRestorePoint(r)
  <1>1. CASE Client \/ Recover \/ UNCHANGED vars
      BY <1>1, ClientKeeps, RecoverKeeps, Zenon DEF vars, archive
  <1>2. CASE Surroundings
      BY <1>2, ZenonT(30) DEF Surroundings, CatalogRestart, SeeUnpaused, ReapplyWritePause, Claim, PauseClaimed, GiveBack, Retire,
                  LosePause, archive
  <1>3. CASE Barriers
    <2>1. PICK r \in Runs : Starting(r) \/ RunStep(r) \/ Die(r) \/ LoseLock(r)
        BY <1>3, ZenonT(30) DEF Barriers
    <2>2. CASE ~CreateRestorePoint(r)
      <3>1. last' = last /\ store' = store
          BY <2>1, RunKeeps, ZenonT(30)
      <3>2. wal' = wal
          BY <2>1, <2>2, Zenon DEF RunStep, Starting, Die, LoseLock, RaiseFence, PauseAll, Fenced, Drain, DrainWriters, Mark,
               AwaitArchived, Remark, Verify, Record, Failing, ResumeAll, ReleaseFence, Finish, archive
      <3> QED
          BY <3>1, <3>2, ZenonT(30) DEF archive
    <2> QED
        BY <2>2, ZenonT(30)
  <1> QED
      BY <1>1, <1>2, <1>3, Zenon DEF Next

LEMMA NextArchive == Types /\ ArchiveTypes /\ WalkOK /\ ReportOK /\ [Next]_vars => ArchiveTypes' /\ ReportOK'
  <1> SUFFICES ASSUME Types, ArchiveTypes, WalkOK, ReportOK, [Next]_vars PROVE ArchiveTypes' /\ ReportOK'
      BY ZenonT(30)
  <1>1. CASE UNCHANGED archive
      BY <1>1, ZenonT(30) DEF archive, ArchiveTypes, ReportOK
  <1>2. ASSUME NEW g \in Groups, ArchiveSegment(g) PROVE ArchiveTypes' /\ ReportOK'
    <2> DEFINE w == wal[g]
               due == {n \in w.from .. w.seg - 1 : <<w.tl, n>> \notin store[g]}
               m == Min(due)
    <2>1. w \in [tl : Nat, from : Nat, seg : Nat]
        BY ZenonT(30) DEF ArchiveTypes
    <2>2. due # {} /\ due \in SUBSET Nat
        BY <1>2, <2>1, SMTT(30) DEF ArchiveSegment
    <2>3. m \in due /\ \A x \in due : m <= x
        BY <2>2, MinOf, Zenon
    <2>4. /\ store' = [store EXCEPT ![g] = @ \cup {<<w.tl, m>>}] /\ wal' = wal
          /\ last' = [last EXCEPT ![g] = [kind |-> "segment", tl |-> w.tl, seg |-> m]]
        BY <1>2, ZenonT(30) DEF ArchiveSegment
    <2> HIDE DEF m
    <2>5. m \in Nat /\ \A n \in w.from .. m : n = m \/ <<w.tl, n>> \in store[g]
        BY <2>1, <2>3, SMTT(30)
    <2>6. ArchiveTypes'
      <3>1. [kind |-> "segment", tl |-> w.tl, seg |-> m] \in [kind : {"none", "segment", "history"}, tl : Nat, seg : Nat]
          BY <2>1, <2>5, ZenonT(30)
      <3>2. <<w.tl, m>> \in Nat \X Nat
          BY <2>1, <2>5, ZenonT(30)
      <3> HIDE DEF w
      <3> QED
          BY <2>4, <3>1, <3>2, ZenonT(30) DEF ArchiveTypes
    <2>7. ASSUME NEW h \in Groups, last'[h].kind = "segment"
          PROVE  last'[h].tl = wal'[h].tl /\ \A n \in wal'[h].from .. last'[h].seg : <<wal'[h].tl, n>> \in store'[h]
      <3>1. CASE h = g
        <4>1. last'[h].tl = w.tl /\ last'[h].seg = m /\ store'[h] = store[g] \cup {<<w.tl, m>>}
            BY <3>1, <2>4, ZenonT(30) DEF ArchiveTypes
        <4> QED
            BY <4>1, <3>1, <2>4, <2>5, ZenonT(30)
      <3>2. CASE h # g
        <4>1. last'[h] = last[h] /\ store'[h] = store[h] /\ wal'[h] = wal[h]
            BY <3>2, <2>4, ZenonT(30) DEF ArchiveTypes
        <4> QED
            BY <4>1, <2>7, ZenonT(30) DEF ReportOK
      <3> QED
          BY <3>1, <3>2, ZenonT(30)
    <2> QED
        BY <2>6, <2>7, ZenonT(30) DEF ReportOK
  <1>3. ASSUME NEW s \in Shards, LosePause(s, TRUE) PROVE ArchiveTypes' /\ ReportOK'
    <2>0. s \in Groups
        BY ZenonT(30) DEF Groups
    <2>1. /\ wal' = [wal EXCEPT ![s] = [tl |-> @.tl + 1, from |-> @.seg, seg |-> @.seg]] /\ store' = store
          /\ last' = [last EXCEPT ![s] = [kind |-> "history", tl |-> wal[s].tl + 1, seg |-> 0]]
        BY <1>3, ZenonT(30) DEF LosePause
    <2>2. wal[s] \in [tl : Nat, from : Nat, seg : Nat]
        BY <2>0, ZenonT(30) DEF ArchiveTypes
    <2>3. ArchiveTypes'
        BY <2>0, <2>1, <2>2, SMTT(30) DEF ArchiveTypes
    <2>4. ReportOK'
        BY <2>0, <2>1, ZenonT(30) DEF ArchiveTypes, ReportOK
    <2> QED
        BY <2>3, <2>4, ZenonT(30)
  <1>4. ASSUME NEW r \in Runs, CreateRestorePoint(r) PROVE ArchiveTypes' /\ ReportOK'
    <2> DEFINE g == IF run[r].k = 0 THEN Catalog ELSE Turn(r)
    <2>1. g \in Groups /\ wal' = [wal EXCEPT ![g].seg = @ + 1]
        BY <1>4, Pointing, ZenonT(30)
    <2>2. last' = last /\ store' = store
        BY <1>4, RunKeeps, ZenonT(30) DEF RunStep
    <2> HIDE DEF g
    <2>3. \A h \in Groups : wal'[h].tl = wal[h].tl /\ wal'[h].from = wal[h].from /\ wal'[h].seg >= wal[h].seg
        BY <2>1, SMTT(30) DEF ArchiveTypes
    <2>4. ArchiveTypes'
        BY <2>1, <2>2, <2>3, SMTT(30) DEF ArchiveTypes
    <2>5. ReportOK'
        BY <2>2, <2>3, ZenonT(30) DEF ArchiveTypes, ReportOK
    <2> QED
        BY <2>4, <2>5, ZenonT(30)
  <1> QED
      BY <1>1, <1>2, <1>3, <1>4, ArchiveMoves, Zenon

LEMMA StoreGrows ==
    ASSUME Types, ArchiveTypes, WalkOK, [Next]_vars, NEW g \in Groups
    PROVE  store[g] \subseteq store'[g]
  <1>1. CASE UNCHANGED archive
      BY <1>1, ZenonT(30) DEF archive
  <1>2. ASSUME NEW h \in Groups, ArchiveSegment(h) PROVE store[g] \subseteq store'[g]
      BY <1>2, ZenonT(30) DEF ArchiveSegment, ArchiveTypes
  <1>3. ASSUME NEW s \in Shards, LosePause(s, TRUE) PROVE store[g] \subseteq store'[g]
      BY <1>3, ZenonT(30) DEF LosePause
  <1>4. ASSUME NEW r \in Runs, CreateRestorePoint(r) PROVE store[g] \subseteq store'[g]
      BY <1>4, ZenonT(30) DEF CreateRestorePoint
  <1> QED
      BY <1>1, <1>2, <1>3, <1>4, ArchiveMoves, ZenonT(30)

LEMMA CutMoves ==
    ASSUME [Next]_vars
    PROVE  cut' = cut \/ \E r \in Runs : CreateRestorePoint(r) \/ Failing(r) \/ Die(r)
  <1>1. CASE Client \/ Recover \/ Surroundings \/ UNCHANGED vars
      BY <1>1, ClientKeeps, RecoverKeeps, SurroundingsKeep, ZenonT(30) DEF vars, control
  <1>2. CASE Barriers
      BY <1>2, ZenonT(30) DEF Barriers, RunStep, Starting, LoseLock, RaiseFence, PauseAll, Fenced, Drain, DrainWriters, Mark,
                  AwaitArchived, Remark, Verify, Record, ResumeAll, ReleaseFence, Finish
  <1> QED
      BY <1>1, <1>2, ZenonT(30) DEF Next

LEMMA NextPoint == Types /\ ArchiveTypes /\ WalkOK /\ PointOK /\ [Next]_vars => PointOK'
  <1> SUFFICES ASSUME Types, ArchiveTypes, WalkOK, PointOK, [Next]_vars PROVE PointOK'
      BY ZenonT(30)
  <1> DEFINE Fits(p, w) == p # None => p[1] <= w.tl /\ (p[1] = w.tl => w.from <= p[2])
  <1>t. /\ cut \in [Runs -> CutType] /\ wal \in [Groups -> [tl : Nat, from : Nat, seg : Nat]]
        /\ \A r \in Runs, g \in Groups : cut[r].at[g] # None => cut[r].at[g] \in Nat \X Nat
        /\ \A r \in Runs : cut[r].at \in [Groups -> (Nat \X Nat) \cup {None}]
      BY SMTT(30) DEF Types, ControlTypes, CutType, ArchiveTypes
  <1>f. \A r \in Runs, g \in Groups : Fits(cut[r].at[g], wal[g])
      BY ZenonT(30) DEF PointOK
  <1> SUFFICES \A r \in Runs, g \in Groups : Fits(cut'[r].at[g], wal'[g])
      BY ZenonT(30) DEF PointOK
  <1>1. ASSUME NEW s \in Shards, LosePause(s, TRUE), NEW r \in Runs, NEW g \in Groups
        PROVE  Fits(cut'[r].at[g], wal'[g])
    <2>1. cut' = cut /\ wal' = [wal EXCEPT ![s] = [tl |-> @.tl + 1, from |-> @.seg, seg |-> @.seg]]
        BY <1>1, ZenonT(30) DEF LosePause, control
    <2> QED
        BY <2>1, <1>t, <1>f, SMTT(30)
  <1>2. ASSUME NEW x \in Runs, CreateRestorePoint(x), NEW r \in Runs, NEW g \in Groups
        PROVE  Fits(cut'[r].at[g], wal'[g])
    <2> DEFINE h == IF run[x].k = 0 THEN Catalog ELSE Turn(x)
    <2>1. /\ h \in Groups /\ wal' = [wal EXCEPT ![h].seg = @ + 1] /\ cut' = [cut EXCEPT ![x] = cut'[x]]
          /\ cut'[x].at = [cut[x].at EXCEPT ![h] = <<wal[h].tl, wal[h].seg>>]
        BY <1>2, Pointing, ZenonT(30)
    <2> HIDE DEF h
    <2>2. wal'[g].tl = wal[g].tl /\ wal'[g].from = wal[g].from
        BY <2>1, <1>t, SMTT(30)
    <2>3. CASE x = r /\ h = g
      <3>1. cut'[r].at[g] = <<wal[g].tl, wal[g].seg>>
          BY <2>1, <2>3, <1>t, SMTT(30)
      <3>2. wal[g].from <= wal[g].seg /\ wal[g].tl \in Nat
          BY ZenonT(30) DEF ArchiveTypes
      <3> QED
          BY <3>1, <3>2, <2>2, SMTT(30)
    <2>4. CASE ~(x = r /\ h = g)
      <3>1. cut'[r].at[g] = cut[r].at[g]
          BY <2>1, <2>4, <1>t, ZenonT(30)
      <3>2. Fits(cut[r].at[g], wal[g])
          BY <1>f, ZenonT(30)
      <3> QED
          BY <3>1, <3>2, <2>2, ZenonT(30)
    <2> QED
        BY <2>3, <2>4, ZenonT(30)
  <1>3. CASE wal' = wal
    <2>1. \A r \in Runs, g \in Groups : cut'[r].at[g] \in {cut[r].at[g], None}
      <3>1. CASE cut' = cut
          BY <3>1, ZenonT(30)
      <3>2. CASE \E x \in Runs : Failing(x) \/ Die(x)
        <4>1. PICK x \in Runs : cut' = [cut EXCEPT ![x] = NoCut] \/ cut' = [cut EXCEPT ![x] = cut[x]]
            BY <3>2, ZenonT(30) DEF Failing, Die
        <4> QED
            BY <4>1, <1>t, SMTT(30) DEF NoCut
      <3>3. \A x \in Runs : ~CreateRestorePoint(x)
        <4> SUFFICES ASSUME NEW x \in Runs, CreateRestorePoint(x) PROVE FALSE
            BY ZenonT(30)
        <4> DEFINE h == IF run[x].k = 0 THEN Catalog ELSE Turn(x)
        <4>1. h \in Groups /\ wal' = [wal EXCEPT ![h].seg = @ + 1]
            BY Pointing, Zenon
        <4> HIDE DEF h
        <4> QED
            BY <4>1, <1>3, <1>t, SMTT(30)
      <3> QED
          BY <3>1, <3>2, <3>3, CutMoves, ZenonT(30)
    <2> QED
        BY <2>1, <1>3, <1>f, ZenonT(30)
  <1> QED
      BY <1>1, <1>2, <1>3, ArchiveMoves, Zenon DEF archive, ArchiveSegment

LEMMA CertKept ==
    ASSUME Types, ArchiveTypes, WalkOK, CertOK, [Next]_vars, NEW r \in Runs,
           run'[r] = run[r], cut'[r] = cut[r], point'[r] = point[r]
    PROVE  Cert(r)'
  <1>1. \A g \in Groups : InStore(r, g) => InStore(r, g)'
      BY StoreGrows, ZenonT(30) DEF InStore
  <1>2. Catalog \in Groups /\ Shards \subseteq Groups /\ run[r].groups \subseteq Shards
      BY ZenonT(30) DEF Groups, Types, ControlTypes, RunType
  <1>3. Passed(r)' = Passed(r) /\ Passed(r) \subseteq run[r].groups
      BY ZenonT(30) DEF Passed, Before
  <1>4. Cert(r)
      BY ZenonT(30) DEF CertOK
  <1> QED
      BY <1>1, <1>2, <1>3, <1>4, ZenonT(30) DEF Cert

(* A report the run accepts means that the point's segment is archived.     *)
LEMMA ArchivedInStore ==
    ASSUME Types, ArchiveTypes, ReportOK, PointOK, NEW r \in Runs, NEW g \in Groups, Archived(last[g], cut[r].at[g])
    PROVE  InStore(r, g)
  <1> SUFFICES ASSUME cut[r].at[g] # None PROVE cut[r].at[g] \in store[g]
      BY ZenonT(30) DEF InStore
  <1> DEFINE p == cut[r].at[g]
  <1>1. p \in Nat \X Nat /\ p = <<p[1], p[2]>> /\ p[1] \in Nat /\ p[2] \in Nat
      BY SMTT(30) DEF Types, ControlTypes, CutType
  <1>2. last[g].kind = "segment" /\ last[g].tl = p[1] /\ last[g].seg >= p[2] /\ last[g].seg \in Nat
      BY ZenonT(30) DEF Archived, ArchiveTypes
  <1>3. last[g].tl = wal[g].tl /\ wal[g].from <= p[2] /\ wal[g].from \in Nat
      BY <1>2, ZenonT(30) DEF ReportOK, PointOK, ArchiveTypes
  <1>4. p[2] \in wal[g].from .. last[g].seg
      BY <1>1, <1>2, <1>3, SMTT(30)
  <1>5. <<wal[g].tl, p[2]>> \in store[g]
      BY <1>2, <1>4, ZenonT(30) DEF ReportOK
  <1> HIDE DEF p
  <1> QED
      BY <1>1, <1>2, <1>3, <1>5, ZenonT(30) DEF p

LEMMA NextCert ==
    Types /\ ArchiveTypes /\ WalkOK /\ ReportOK /\ PointOK /\ CertOK /\ [Next]_vars => CertOK'
  <1> SUFFICES ASSUME Types, ArchiveTypes, WalkOK, ReportOK, PointOK, CertOK, [Next]_vars,
                      NEW r \in Runs
               PROVE  Cert(r)'
      BY ZenonT(30) DEF CertOK
  <1>t. /\ run \in [Runs -> RunType] /\ cut \in [Runs -> CutType] /\ ControlTypes
        /\ point \in [Runs -> {"none", "reserved", "failed", "certified"}]
      BY ZenonT(30) DEF Types, ControlTypes
  <1>1. CASE Client \/ Recover \/ Surroundings \/ UNCHANGED vars
    <2>1. run' = run /\ cut' = cut /\ point' = point
        BY <1>1, ClientKeeps, RecoverKeeps, SurroundingsKeep, ZenonT(30) DEF vars, control
    <2> QED
        BY <2>1, CertKept, ZenonT(30)
  <1>2. ASSUME NEW x \in Runs, x # r, Starting(x) \/ RunStep(x) \/ Die(x) \/ LoseLock(x) PROVE Cert(r)'
    <2>1. /\ run' = [run EXCEPT ![x] = run'[x]] /\ cut' = [cut EXCEPT ![x] = cut'[x]]
          /\ point' = [point EXCEPT ![x] = point'[x]]
        BY <1>2, RunMove, ZenonT(30)
    <2>2. run'[r] = run[r] /\ cut'[r] = cut[r] /\ point'[r] = point[r]
        BY <2>1, <1>2, <1>t, ZenonT(30)
    <2> QED
        BY <2>2, CertKept, ZenonT(30)
  <1>3. CASE Starting(r) \/ RunStep(r) \/ Die(r) \/ LoseLock(r)
    <2>c. /\ Cert(r) /\ Walks(run[r], point[r]) /\ run[r] \in RunType /\ run[r].k \in 0 .. Len(Order)
          /\ run[r].groups \subseteq Shards
        BY <1>t, ZenonT(30) DEF CertOK, WalkOK, RunType
    <2>g. Catalog \in Groups /\ Shards \subseteq Groups /\ Groups = Shards \cup {Catalog}
        BY ZenonT(30) DEF Groups
    <2>n. \A g \in Groups : NoCut.at[g] = None
        BY ZenonT(30) DEF NoCut
    <2>s. \A g \in Groups : InStore(r, g) /\ cut'[r] = cut[r] => InStore(r, g)'
        BY StoreGrows, ZenonT(30) DEF InStore
    <2>e. /\ Relying = {"pause", "fenced", "drain", "writers", "mark", "points"}
          /\ Certifying = {"pause", "fenced", "drain", "writers", "mark", "points", "archive", "remark", "verify", "record"}
        BY ZenonT(30) DEF Certifying, Relying
    <2>h. \A next : Goto(r, next).pc = next
        BY <2>c, ZenonT(30) DEF Goto, RunType
    <2>1. CASE LoseLock(r)
        BY <2>1, CertKept, ZenonT(30) DEF LoseLock
    (* Before the points are taken there is no cut. *)
    <2>2. ASSUME run[r].pc \in {"idle", "fence", "pause", "fenced", "drain", "writers", "mark"},
                 cut' = cut, point'[r] # "certified",
                 run'[r].pc \notin {"archive", "remark", "verify", "record"}
          PROVE  Cert(r)'
      <3>1. cut'[r] = NoCut
          BY <2>2, <2>c, <2>e, ZenonT(30) DEF Cert
      <3> QED
          BY <3>1, <2>2, <2>n, ZenonT(30) DEF Cert
    (* After them the run has left, and what was certified stays so. *)
    <2>3. ASSUME run'[r].pc \in {"resume", "release", "finish", "over"},
                 point'[r] = "certified" =>
                   cut'[r] = cut[r] /\ (point[r] = "certified" \/ run[r].pc = "record")
          PROVE  Cert(r)'
        BY <2>3, <2>c, <2>e, <2>s, ZenonT(30) DEF Cert
    <2>p. point'[r] = "certified" => point[r] = "certified" \/ Record(r)
      <3>1. CASE Starting(r) \/ Finish(r)
          BY <3>1, <1>t, ZenonT(30) DEF Starting, Finish
      <3>2. CASE point' = point
          BY <3>2, ZenonT(30)
      <3> QED
          BY <1>3, <3>1, <3>2, ZenonT(30) DEF RunStep, LoseLock, RaiseFence, PauseAll, Fenced, Drain, DrainWriters, Mark, Failing, Die,
             CreateRestorePoint, AwaitArchived, Remark, Verify, ResumeAll, ReleaseFence
    <2>w. point[r] = "certified" => run[r].pc \notin Certifying \cup {"idle", "fence"}
        BY <2>c, ZenonT(30) DEF Walks
    <2>4. CASE Starting(r)
      <3>1. run[r].pc = "idle" /\ cut' = cut /\ run'[r].pc = "fence" /\ point'[r] # "certified"
          BY <2>4, <2>c, <1>t, ZenonT(30) DEF Starting, RunType
      <3> QED
          BY <3>1, <2>2, ZenonT(30)
    <2>5. CASE RaiseFence(r)
      <3>1. run[r].pc = "fence" /\ cut' = cut /\ run'[r].pc \in {"pause", "finish"} /\ point'[r] # "certified"
        <4>1. run[r].pc = "fence" /\ cut' = cut
            BY <2>5, ZenonT(30) DEF RaiseFence
        <4>2. run'[r] \in {Goto(r, "finish"), [run[r] EXCEPT !.pc = "pause", !.k = Lead(run[r].groups)]}
            BY <2>5, <1>t, ZenonT(30) DEF RaiseFence
        <4>3. [run[r] EXCEPT !.pc = "pause", !.k = Lead(run[r].groups)].pc = "pause"
            BY <2>c, ZenonT(30) DEF RunType
        <4> QED
            BY <4>1, <4>2, <4>3, <2>h, <2>p, <2>w, Zenon DEF Record
      <3> QED
          BY <3>1, <2>2, ZenonT(30)
    <2>6. CASE PauseAll(r) \/ Fenced(r) \/ Drain(r) \/ DrainWriters(r) \/ Mark(r)
      <3>1. run[r].pc \in {"pause", "fenced", "drain", "writers", "mark"} /\ cut' = cut
          BY <2>6, ZenonT(30) DEF PauseAll, Fenced, Drain, DrainWriters, Mark
      <3>2. point'[r] # "certified"
          BY <3>1, <2>p, <2>w, <2>e, ZenonT(30) DEF Record
      <3>3. run'[r].pc \in {"pause", "fenced", "drain", "writers", "mark", "points"}
        <4>o. \A next \in Steps : Onward(r, next) \in RunType /\ Onward(r, next).pc \in {run[r].pc, next}
          <5>1. ASSUME NEW next \in Steps
                PROVE  Onward(r, next) \in RunType /\ Onward(r, next).pc \in {run[r].pc, next}
              BY <3>1, <1>t, Walk, ZenonT(30)
          <5> QED
              BY <5>1, ZenonT(30)
        <4>1. CASE PauseAll(r)
          <5> DEFINE o == Onward(r, "fenced")
                     q == [o EXCEPT !.at[Turn(r)] = {t \in Txns : br[t][Turn(r)] # "none"}]
          <5>1. run'[r] = q /\ run[r].pc = "pause"
              BY <4>1, <1>t, ZenonT(30) DEF PauseAll
          <5>2. o \in RunType /\ o.pc \in {"pause", "fenced"}
              BY <5>1, <4>o, ZenonT(30) DEF Steps, Certifying, Relying
          <5> HIDE DEF o
          <5>3. q.pc = o.pc
              BY <5>2, ZenonT(30) DEF RunType
          <5> QED
              BY <5>1, <5>2, <5>3, ZenonT(30)
        <4>2. CASE Fenced(r) \/ Mark(r)
          <5> DEFINE o == Goto(r, "drain")
                     q == [o EXCEPT !.mark = DecisionWatermark]
          <5>1. run'[r] \in {o, q}
              BY <4>2, <1>t, ZenonT(30) DEF Fenced, Mark
          <5>2. o \in RunType
              BY <2>c, Blank, Zenon DEF Goto, RunType, Steps, Certifying, Relying, Idle
          <5>3. o.pc = "drain"
              BY <2>h, ZenonT(30)
          <5> HIDE DEF o
          <5>4. q.pc = o.pc
              BY <5>2, ZenonT(30) DEF RunType
          <5> QED
              BY <5>1, <5>3, <5>4, Zenon
        <4>3. CASE Drain(r)
          <5>1. run'[r] \in {Onward(r, "writers"), Goto(r, "drain")}
              BY <4>3, <1>t, ZenonT(30) DEF Drain
          <5>2. Goto(r, "drain").pc = "drain"
              BY <2>c, ZenonT(30) DEF Goto, RunType
          <5>3. "writers" \in Steps
              BY ZenonT(30) DEF Steps, Certifying, Relying
          <5> QED
              BY <5>1, <5>2, <5>3, <4>o, <3>1, ZenonT(30)
        <4>4. CASE DrainWriters(r)
          <5>1. run'[r] \in {Onward(r, "mark"), Onward(r, "points"), [run[r] EXCEPT !.k = Lead(run[r].groups)]}
              BY <4>4, <1>t, ZenonT(30) DEF DrainWriters
          <5>2. [run[r] EXCEPT !.k = Lead(run[r].groups)].pc = run[r].pc
              BY <2>c, ZenonT(30) DEF RunType
          <5>3. "mark" \in Steps /\ "points" \in Steps
              BY ZenonT(30) DEF Steps, Certifying, Relying
          <5> QED
              BY <5>1, <5>2, <5>3, <4>o, <3>1, Zenon
        <4> QED
            BY <2>6, <4>1, <4>2, <4>3, <4>4, ZenonT(30)
      <3> QED
          BY <3>1, <3>2, <3>3, <2>2, ZenonT(30)
    <2>7. CASE CreateRestorePoint(r)
      <3> DEFINE h == IF run[r].k = 0 THEN Catalog ELSE Turn(r)
                 q == Onward(r, "archive")
      <3>1. run[r].pc = "points" /\ run'[r] = q
          BY <2>7, <1>t, ZenonT(30) DEF CreateRestorePoint
      <3>2. h \in Groups /\ cut'[r].at = [cut[r].at EXCEPT ![h] = <<wal[h].tl, wal[h].seg>>]
          BY <2>7, Pointing, ZenonT(30)
      <3>3. point'[r] # "certified"
          BY <3>1, <2>p, <2>w, <2>e, ZenonT(30) DEF Record
      <3>4. /\ q.groups = run[r].groups
            /\ \/ q.pc = run[r].pc /\ q.k > 0 /\ Before(q.groups, q.k) = Passed(r) \cup Turns(r)
               \/ /\ q.pc = "archive" /\ Before(q.groups, q.k) = {} /\ q.k = 0
                  /\ run[r].groups = Passed(r) \cup Turns(r)
          BY <3>1, <1>t, Walk, ZenonT(30) DEF Steps, Certifying
      <3> HIDE DEF q
      <3>5. cut[r].at \in [Groups -> (Nat \X Nat) \cup {None}]
          BY <1>t, ZenonT(30) DEF CutType
      <3>6. \A g \in Groups : cut'[r].at[g] # None => g = Catalog \/ g \in Passed(r) \cup Turns(r)
        <4> TAKE g \in Groups
        <4>1. CASE g = h
            BY <4>1, <2>c, SMTT(30) DEF Turns, Turn
        <4>2. CASE g # h
          <5>1. cut'[r].at[g] = cut[r].at[g]
              BY <4>2, <3>2, <3>5, ZenonT(30)
          <5> QED
              BY <5>1, <3>1, <2>c, ZenonT(30) DEF Cert
        <4> QED
            BY <4>1, <4>2, ZenonT(30)
      <3>7. Passed(r)' = Before(q.groups, q.k)
          BY <3>1, ZenonT(30) DEF Passed
      <3> QED
        <4>0. run'[r].pc = q.pc /\ run'[r].k = q.k /\ run'[r].groups = run[r].groups
            BY <3>1, <3>4, ZenonT(30)
        <4>1. CASE q.pc = "points" /\ q.k > 0 /\ Before(q.groups, q.k) = Passed(r) \cup Turns(r)
          <5>1. run'[r].pc = "points" /\ run'[r].k > 0 /\ Passed(r)' = Passed(r) \cup Turns(r)
              BY <4>0, <4>1, <3>7, ZenonT(30)
          <5> QED
              BY <5>1, <3>3, <3>6, ZenonT(30) DEF Cert, Relying
        <4>2. CASE /\ q.pc = "archive" /\ Before(q.groups, q.k) = {}
                   /\ q.k = 0 /\ run[r].groups = Passed(r) \cup Turns(r)
          <5>1. /\ run'[r].pc = "archive" /\ run'[r].k = 0 /\ Passed(r)' = {}
                /\ run'[r].groups = Passed(r) \cup Turns(r)
              BY <4>0, <4>2, <3>7, ZenonT(30)
          <5> QED
              BY <5>1, <3>3, <3>6, SMTT(30) DEF Cert, Relying
        <4> QED
            BY <3>1, <3>4, <4>1, <4>2, ZenonT(30)
    <2>8. CASE AwaitArchived(r)
      <3> DEFINE h == IF run[r].k = 0 THEN Catalog ELSE Turn(r)
                 q == Onward(r, "remark")
      <3>1. run[r].pc = "archive" /\ run'[r] = q /\ cut' = cut /\ Archived(last[h], cut[r].at[h])
          BY <2>8, <1>t, ZenonT(30) DEF AwaitArchived
      <3>2. h \in Groups
          BY <2>c, Places, SMTT(30) DEF Turn, Groups
      <3>3. point'[r] # "certified"
          BY <3>1, <2>p, <2>w, <2>e, Zenon DEF Record
      <3>4. /\ q.groups = run[r].groups
            /\ \/ q.pc = run[r].pc /\ q.k > 0 /\ Before(q.groups, q.k) = Passed(r) \cup Turns(r)
               \/ /\ q.pc = "remark" /\ Before(q.groups, q.k) = {} /\ q.k = 0
                  /\ run[r].groups = Passed(r) \cup Turns(r)
          BY <3>1, <1>t, Walk, ZenonT(30) DEF Steps, Certifying
      <3> HIDE DEF q
      <3>5. InStore(r, h)
          BY <3>1, <3>2, ArchivedInStore, ZenonT(30)
      <3>6. Passed(r) \subseteq run[r].groups /\ run[r].groups \subseteq Groups
          BY <2>c, <2>g, ZenonT(30) DEF Passed, Before
      <3>7. \A g \in Passed(r) \cup Turns(r) \cup {Catalog} : InStore(r, g)
        <4>1. \A g \in Passed(r) : InStore(r, g)
            BY <3>1, <2>c, ZenonT(30) DEF Cert
        <4>0. /\ run[r].k > 0 => InStore(r, Catalog)
              /\ ~(run[r].k > 0) => run[r].k = 0
          <5>1. run[r].k > 0 => InStore(r, Catalog)
              BY <3>1, <2>c, ZenonT(30) DEF Cert
          <5>2. run[r].k \in Nat
              BY <2>c, SMTT(30)
          <5> QED
              BY <5>1, <5>2, SMTT(30)
        <4>2. \A g \in Turns(r) : InStore(r, g)
          <5>1. CASE run[r].k > 0
            <6>1. h = Order[run[r].k] /\ Turns(r) = {h}
                BY <5>1, <2>c, SMTT(30) DEF Turns, Turn
            <6> HIDE DEF h
            <6> QED
                BY <6>1, <3>5, ZenonT(30)
          <5>2. CASE ~(run[r].k > 0)
              BY <5>2, ZenonT(30) DEF Turns
          <5> QED
              BY <5>1, <5>2, ZenonT(30)
        <4>3. InStore(r, Catalog)
          <5>1. CASE run[r].k = 0
              BY <5>1, <3>5, ZenonT(30)
          <5> QED
              BY <5>1, <4>0, ZenonT(30)
        <4> HIDE DEF h
        <4> QED
            BY <4>1, <4>2, <4>3, Zenon
      <3>8. Passed(r)' = Before(q.groups, q.k)
          BY <3>1, ZenonT(30) DEF Passed
      <3>9. Turns(r) \subseteq Groups
          BY <2>c, Places, <2>g, SMTT(30) DEF Turns
      <3>10. \A g \in Groups : cut[r].at[g] # None => g = Catalog \/ g \in run[r].groups
          BY <3>1, <2>c, ZenonT(30) DEF Cert
      <3>11. CASE q.pc = run[r].pc /\ q.k > 0 /\ Before(q.groups, q.k) = Passed(r) \cup Turns(r)
          BY <3>11, <3>1, <3>3, <3>4, <3>6, <3>7, <3>8, <3>9, <3>10, <2>s, <2>g, ZenonT(30) DEF Cert, Relying
      <3>12. CASE q.pc = "remark" /\ run[r].groups = Passed(r) \cup Turns(r)
        <4>1. \A g \in Groups : InStore(r, g)'
            BY <3>12, <3>1, <3>7, <3>10, <2>s, ZenonT(30) DEF InStore
        <4> QED
            BY <4>1, <3>1, <3>3, <3>12, ZenonT(30) DEF Cert, Relying
      <3> QED
          BY <3>4, <3>11, <3>12, ZenonT(30)
    <2>9. CASE Remark(r) \/ Verify(r)
      <3>1. run[r].pc \in {"remark", "verify"} /\ cut' = cut
          BY <2>9, ZenonT(30) DEF Remark, Verify
      <3>2. point'[r] # "certified"
          BY <3>1, <2>p, <2>w, <2>e, ZenonT(30) DEF Record
      <3>3. run'[r].pc \in {"verify", "record"}
        <4>1. CASE Remark(r)
            BY <4>1, <2>c, <1>t, ZenonT(30) DEF Remark, Goto, RunType
        <4>2. CASE Verify(r)
          <5>1. run'[r] = Onward(r, "record") /\ run[r].pc = "verify"
              BY <4>2, <1>t, ZenonT(30) DEF Verify
          <5>2. Onward(r, "record").pc \in {run[r].pc, "record"}
              BY <5>1, <1>t, Walk, ZenonT(30) DEF Steps, Certifying
          <5> QED
              BY <5>1, <5>2, ZenonT(30)
        <4> QED
            BY <2>9, <4>1, <4>2, ZenonT(30)
      <3>4. \A g \in Groups : InStore(r, g)'
          BY <3>1, <2>c, <2>s, ZenonT(30) DEF Cert
      <3> QED
          BY <3>2, <3>3, <3>4, ZenonT(30) DEF Cert, Relying
    <2>10. CASE Record(r)
      <3>1. run[r].pc = "record" /\ cut' = cut /\ run'[r] = Leaving(r)
          BY <2>10, <1>t, ZenonT(30) DEF Record
      <3>2. Leaving(r).pc = "resume"
          BY ZenonT(30) DEF Leaving, Idle
      <3> QED
          BY <3>1, <3>2, <2>3, ZenonT(30)
    <2>11. CASE Failing(r)
      <3>1. run[r].pc \in Certifying /\ run'[r] = Leaving(r)
          BY <2>11, <2>e, <1>t, ZenonT(30) DEF Failing
      <3>2. Leaving(r).pc = "resume"
          BY ZenonT(30) DEF Leaving, Idle
      <3>3. point'[r] # "certified"
          BY <3>1, <2>11, <2>w, ZenonT(30) DEF Failing
      <3> QED
          BY <3>1, <3>2, <3>3, <2>3, ZenonT(30)
    <2>12. CASE ResumeAll(r)
      <3>1. run[r].pc = "resume" /\ cut' = cut /\ point' = point
            /\ run'[r] \in {Onward(r, "release"), [Onward(r, "release") EXCEPT !.stuck = TRUE]}
          BY <2>12, <1>t, ZenonT(30) DEF ResumeAll
      <3>2. Onward(r, "release") \in RunType /\ Onward(r, "release").pc \in {run[r].pc, "release"}
          BY <3>1, <1>t, Walk, SMTT(30) DEF Steps, Certifying
      <3>3. run'[r].pc \in {"resume", "release"}
          BY <3>1, <3>2, ZenonT(30) DEF RunType
      <3> QED
          BY <3>1, <3>3, <2>3, ZenonT(30)
    <2>13. CASE ReleaseFence(r) \/ Finish(r) \/ Die(r)
      <3>1. run'[r].pc \in {"finish", "over"}
        <4>1. run'[r] \in {Goto(r, "finish"), [Idle EXCEPT !.pc = "over"]}
            BY <2>13, <1>t, ZenonT(30) DEF ReleaseFence, Finish, Die
        <4>2. [Idle EXCEPT !.pc = "over"].pc = "over"
            BY ZenonT(30) DEF Idle
        <4> QED
            BY <4>1, <4>2, <2>h, Zenon
      <3>2. point'[r] = "certified" => point[r] = "certified"
          BY <2>13, <1>t, ZenonT(30) DEF ReleaseFence, Finish, Die
      <3>3. point'[r] = "certified" => cut'[r] = cut[r]
          BY <2>13, <3>2, <1>t, ZenonT(30) DEF ReleaseFence, Finish, Die
      <3> QED
          BY <3>1, <3>2, <3>3, <2>3, ZenonT(30)
    <2> QED
        BY <1>3, <2>1, <2>4, <2>5, <2>6, <2>7, <2>8, <2>9, <2>10, <2>11, <2>12, <2>13, ZenonT(30) DEF RunStep
  <1> QED
      BY <1>1, <1>2, <1>3, ZenonT(30) DEF Next, Barriers

(* What holds in every reachable state, whatever fails.                     *)
Inv == Types /\ ArchiveTypes /\ WalkOK /\ ReportOK /\ PointOK /\ CertOK

(* However the runs, pauses, transactions, archivers and crashes interleave, *)
(* the walk of every barrier and what it recorded stay as its code left them. *)
THEOREM Invariance == Spec => []Inv
  <1>1. Init => Inv
      BY InitTypes, InitArchive, ZenonT(30) DEF Inv
  <1>2. Inv /\ [Next]_vars => Inv'
      BY NextDataTypes, NextPauseTypes, NextControl, NextArchive, NextPoint, NextCert, ZenonT(30) DEF Inv, Types
  <1> QED
      BY <1>1, <1>2, PTL DEF Spec

(* A restore to a certified point finds every segment it needs: the one     *)
(* that holds the point is in the archive of every group, whatever the      *)
(* archiver reported last, whoever was promoted and whoever died meanwhile  *)
(* (archivedSegment and awaitArchived, controller/barrier.go).              *)
THEOREM ArchiveComplete == Spec => []CertifiedRestorable
  <1>1. Inv => CertifiedRestorable
      BY Zenon DEF Inv, CertOK, Cert, InStore, CertifiedRestorable
  <1> QED
      BY <1>1, Invariance, PTL

----------------------------------------------------------------------------
(* Standing pauses *)

(* The pause that a switch holds on its sources, or that a retired set      *)
(* keeps, is lifted by no run and by no recovery: only a primary that lost  *)
(* it does, which counts as a fault (PauseWrites(false)).                   *)
THEOREM StandingPauses == Spec => StandingPauseKept
  <1> DEFINE P == \A s \in Shards : own[s] \in {"held", "retired"} /\ own'[s] = own[s] /\ paused[s] /\ ~paused'[s]
                     => faults' = faults + 1
  <1>1. Inv /\ [Next]_vars => [P]_vars
    <2> SUFFICES ASSUME Inv, [Next]_vars, NEW s \in Shards, own[s] \in {"held", "retired"}, own'[s] = own[s],
                        paused[s], ~paused'[s]
                 PROVE  faults' = faults + 1
        BY Zenon
    <2>t. paused \in [Shards -> BOOLEAN] /\ own \in [Shards -> {"free", "claimed", "held", "returned", "retired"}]
        BY ZenonT(30) DEF Inv, Types, PauseTypes
    <2>r. \A x : Resumed(x)[s]
        BY <2>t, ZenonT(30) DEF Resumed
    <2>0. paused' # paused
        BY ZenonT(30)
    <2>1. ASSUME NEW r \in Runs, Starting(r) \/ RunStep(r) \/ Die(r) \/ LoseLock(r) PROVE faults' = faults + 1
      <3>1. CASE PauseAll(r) \/ Failing(r)
        <4>1. \/ paused' = paused
              \/ \E z \in Shards : paused' = [paused EXCEPT ![z] = TRUE]
              \/ paused' = [paused EXCEPT ![Turn(r)] = TRUE]
            BY <3>1, ZenonT(30) DEF PauseAll, Failing
        <4> QED
            BY <4>1, <2>t, ZenonT(30)
      <3>2. CASE ResumeAll(r)
          BY <3>2, <2>r, ZenonT(30) DEF ResumeAll
      <3>3. CASE ~(PauseAll(r) \/ Failing(r) \/ ResumeAll(r))
        <4>1. paused' = paused
            BY <2>1, <3>3, ZenonT(30) DEF RunStep, Starting, Die, LoseLock, RaiseFence, Fenced, Drain, DrainWriters, Mark,
                 CreateRestorePoint, AwaitArchived, Remark, Verify, Record, ReleaseFence, Finish, pauses
        <4> QED
            BY <4>1, ZenonT(30)
      <3> QED
          BY <3>1, <3>2, <3>3, ZenonT(30)
    <2>2. CASE Client \/ UNCHANGED vars
        BY <2>2, <2>0, ClientKeeps, ZenonT(30) DEF vars, pauses
    <2>3. CASE Recover
        BY <2>3, <2>0, <2>r, RecoverPauses, ZenonT(30)
    <2>4. CASE Surroundings
      <3>1. ASSUME NEW z \in Shards, ReapplyWritePause(z) \/ PauseClaimed(z) PROVE faults' = faults + 1
          BY <3>1, <2>t, ZenonT(30) DEF ReapplyWritePause, PauseClaimed
      <3>2. ASSUME NEW z \in Shards, GiveBack(z) PROVE faults' = faults + 1
        <4>1. z # s
            BY <3>2, <2>t, ZenonT(30) DEF GiveBack
        <4> QED
            BY <4>1, <3>2, <2>t, ZenonT(30) DEF GiveBack
      <3>3. ASSUME NEW z \in Shards, NEW promoted \in BOOLEAN, LosePause(z, promoted) PROVE faults' = faults + 1
          BY <3>3, ZenonT(30) DEF LosePause
      <3>4. ASSUME NEW z \in Shards, SeeUnpaused(z) \/ Claim(z) \/ Retire(z) PROVE faults' = faults + 1
          BY <3>4, <2>0, ZenonT(30) DEF SeeUnpaused, Claim, Retire
      <3>5. CASE CatalogRestart \/ \E g \in Groups : ArchiveSegment(g)
          BY <3>5, <2>0, Zenon DEF CatalogRestart, ArchiveSegment, pauses
      <3> QED
          BY <2>4, <3>1, <3>2, <3>3, <3>4, <3>5, ZenonT(30) DEF Surroundings
    <2> QED
        BY <2>1, <2>2, <2>3, <2>4, ZenonT(30) DEF Next, Barriers
  <1>2. Spec => [][P]_vars
      BY <1>1, Invariance, PTL DEF Spec
  <1> QED
      BY <1>2, ZenonT(30) DEF StandingPauseKept

----------------------------------------------------------------------------
(* Transactions *)

LEMMA FootShards == Types => \A t \in Txns : Foot[t] \subseteq Shards
  BY BarrierAssumption, ZenonT(30) DEF Types, DataTypes, Foot

(* How a branch may change in a step.                                       *)
LEMMA BranchMoves ==
    ASSUME Types, [Next]_vars, NEW t \in Txns, NEW s \in Foot[t]
    PROVE  LET b == br[t][s]
               c == br'[t][s]
           IN  \/ c = b
               \/ b = "none" /\ c = "open" /\ ~paused[s]
               \/ b = "open" /\ c = "wrote"
               \/ b = "wrote" /\ c = "prepared"
               \/ b = "wrote" /\ c = "committed" /\ Foot[t] = {s}
               \/ b = "prepared" /\ c = "committed" /\ (row[t] = "commit" \/ Kept(t))
               \/ b \notin {"prepared", "committed"} /\ c = "gone"
               \/ row[t] \in {"none", "preparing"} /\ \A z \in Foot[t] : br[t][z] # "committed" /\ br'[t][z] = "gone"
  <1>t. br \in [Txns -> [Shards -> Branches]] /\ s \in Shards /\ Foot[t] \subseteq Shards
      BY FootShards, ZenonT(30) DEF Types, DataTypes
  <1> DEFINE Goal == LET b == br[t][s]
                         c == br'[t][s]
                     IN  \/ c = b
                         \/ b = "none" /\ c = "open" /\ ~paused[s]
                         \/ b = "open" /\ c = "wrote"
                         \/ b = "wrote" /\ c = "prepared"
                         \/ b = "wrote" /\ c = "committed" /\ Foot[t] = {s}
                         \/ b = "prepared" /\ c = "committed" /\ (row[t] = "commit" \/ Kept(t))
                         \/ b \notin {"prepared", "committed"} /\ c = "gone"
                         \/ /\ row[t] \in {"none", "preparing"}
                            /\ \A z \in Foot[t] : br[t][z] # "committed" /\ br'[t][z] = "gone"
  <1> SUFFICES Goal
      BY ZenonT(30)
  <1>1. ASSUME NEW u \in Txns, NEW z \in Foot[u], Begin(u, z) \/ Write(u, z) PROVE Goal
    <2>1. CASE u = t /\ z = s
      <3>1. \/ br[t][s] = "none" /\ br'[t][s] = "open" /\ ~paused[s]
            \/ br[t][s] = "open" /\ br'[t][s] = "wrote"
        <4> HIDE DEF Goal
        <4> QED
            BY <2>1, <1>1, <1>t, SMTT(30) DEF Begin, Write
      <3> QED
          BY <3>1, ZenonT(30)
    <2>2. CASE ~(u = t /\ z = s)
      <3>1. br'[t][s] = br[t][s]
        <4> HIDE DEF Goal
        <4> QED
            BY <2>2, <1>1, <1>t, SMTT(30) DEF Begin, Write
      <3> QED
          BY <3>1, ZenonT(30)
    <2> QED
        BY <2>1, <2>2, ZenonT(30)
  <1>2. ASSUME NEW u \in Txns, NEW z \in Foot[u], Commit(u, z) \/ Prepare(u, z) PROVE Goal
    <2>1. CASE u = t /\ z = s
      <3>1. \/ br[t][s] = "wrote" /\ br'[t][s] = "prepared"
            \/ br[t][s] = "wrote" /\ br'[t][s] = "committed" /\ Foot[t] = {s}
        <4> HIDE DEF Goal
        <4> QED
            BY <2>1, <1>2, <1>t, SMTT(30) DEF Commit, Prepare
      <3> QED
          BY <3>1, ZenonT(30)
    <2>2. CASE ~(u = t /\ z = s)
      <3>1. br'[t][s] = br[t][s]
        <4> HIDE DEF Goal
        <4> QED
            BY <2>2, <1>2, <1>t, ZenonT(30) DEF Commit, Prepare
      <3> QED
          BY <3>1, ZenonT(30)
    <2> QED
        BY <2>1, <2>2, ZenonT(30)
  <1>3. ASSUME NEW u \in Txns, NEW z \in Foot[u], CommitPrepared(u, z) PROVE Goal
    <2>1. CASE u = t /\ z = s
        BY <2>1, <1>3, <1>t, ZenonT(30) DEF CommitPrepared, Kept
    <2>2. CASE ~(u = t /\ z = s)
      <3>1. br'[t][s] = br[t][s]
          BY <2>2, <1>3, <1>t, ZenonT(30) DEF CommitPrepared
      <3> QED
          BY <3>1, ZenonT(30)
    <2> QED
        BY <2>1, <2>2, ZenonT(30)
  <1>4. ASSUME NEW u \in Txns, Abort(u) PROVE Goal
    <2>1. CASE u = t
      <3>1. row[t] \in {"none", "preparing"} /\ \A z \in Foot[t] : br[t][z] # "committed"
          BY <2>1, <1>4, ZenonT(30) DEF Abort
      <3>2. br' = [br EXCEPT ![t] = [z \in Shards |-> IF z \in Foot[t] THEN "gone" ELSE br[t][z]]]
          BY <2>1, <1>4, ZenonT(30) DEF Abort
      <3>3. \A z \in Foot[t] : br'[t][z] = "gone"
          BY <3>2, <1>t, ZenonT(30)
      <3> QED
          BY <3>1, <3>3, ZenonT(30)
    <2>2. CASE u # t
      <3>1. br'[t][s] = br[t][s]
          BY <2>2, <1>4, <1>t, ZenonT(30) DEF Abort
      <3> QED
          BY <3>1, ZenonT(30)
    <2> QED
        BY <2>1, <2>2, ZenonT(30)
  <1>5. ASSUME NEW z \in Shards, NEW promoted \in BOOLEAN, LosePause(z, promoted) PROVE Goal
    <2>1. br' = [x \in Txns |-> [br[x] EXCEPT ![z] = IF @ \in {"open", "wrote"} THEN "gone" ELSE @]]
        BY <1>5, ZenonT(30) DEF LosePause
    <2> QED
        BY <2>1, <1>t, ZenonT(30)
  <1>6. CASE br' = br
      BY <1>6, ZenonT(30)
  <1>7. CASE Client
    <2>1. PICK u \in Txns : \/ LogPreparing(u) \/ Decide(u) \/ Forget(u) \/ Abort(u)
                            \/ \E z \in Foot[u] : Begin(u, z) \/ Write(u, z) \/ Commit(u, z)
                                                    \/ Prepare(u, z) \/ CommitPrepared(u, z)
        BY <1>7, ZenonT(30) DEF Client
    <2>2. CASE LogPreparing(u) \/ Decide(u) \/ Forget(u)
      <3>1. br' = br
          BY <2>2, ZenonT(30) DEF LogPreparing, Decide, Forget
      <3> QED
          BY <3>1, <1>6, ZenonT(30)
    <2> HIDE DEF Goal
    <2> QED
        BY <2>1, <2>2, <1>1, <1>2, <1>3, <1>4, ZenonT(30)
  <1>8. CASE Surroundings
    <2>1. br' = br \/ \E z \in Shards, promoted \in BOOLEAN : LosePause(z, promoted)
        BY <1>8, Zenon DEF Surroundings, CatalogRestart, ArchiveSegment, SeeUnpaused, ReapplyWritePause, Claim, PauseClaimed,
                    GiveBack, Retire, data
    <2> HIDE DEF Goal
    <2> QED
        BY <2>1, <1>5, <1>6, ZenonT(30)
  <1>9. CASE Barriers \/ Recover \/ UNCHANGED vars
    <2>1. br' = br
        BY <1>9, RunKeeps, RecoverKeeps, Zenon DEF Barriers, vars, data
    <2> HIDE DEF Goal
    <2> QED
        BY <2>1, <1>6, ZenonT(30)
  <1> QED
      BY <1>7, <1>8, <1>9, ZenonT(30) DEF Next

------------------------------------------------------------------------------
(* The cut *)

(* How the row of a transaction may change, and when its client's view is   *)
(* taken.                                                                   *)
LEMMA RowMoves ==
    ASSUME Types, [Next]_vars, NEW t \in Txns
    PROVE  /\ \/ row'[t] = row[t]
              \/ row'[t] \in {"preparing", "aborted"} /\ row[t] \in {"none", "preparing"}
              \/ row'[t] = "commit" /\ \A s \in Foot[t] : br[t][s] = "prepared" /\ br'[t][s] = "prepared"
              \/ row'[t] = "finished" /\ row[t] = "commit"
           /\ \/ seen'[t] = seen[t]
              \/ seen'[t] = Acked /\ \E s \in Foot[t] : br[t][s] = "none"
           /\ plan' = plan
  <1>t. /\ row \in [Txns -> {"none", "preparing", "commit", "finished", "aborted"}]
        /\ seen \in [Txns -> SUBSET Txns]
      BY ZenonT(30) DEF Types, DataTypes
  <1> DEFINE Goal == /\ \/ row'[t] = row[t]
                        \/ row'[t] \in {"preparing", "aborted"} /\ row[t] \in {"none", "preparing"}
                        \/ row'[t] = "commit" /\ \A s \in Foot[t] : br[t][s] = "prepared" /\ br'[t][s] = "prepared"
                        \/ row'[t] = "finished" /\ row[t] = "commit"
                     /\ \/ seen'[t] = seen[t]
                        \/ seen'[t] = Acked /\ \E s \in Foot[t] : br[t][s] = "none"
                     /\ plan' = plan
  <1> SUFFICES Goal
      BY ZenonT(30)
  <1>1. ASSUME NEW u \in Txns, LogPreparing(u) \/ Decide(u) \/ Forget(u) PROVE Goal
      BY <1>1, <1>t, ZenonT(30) DEF LogPreparing, Decide, Forget
  <1>2. ASSUME NEW u \in Txns, Abort(u) PROVE Goal
      BY <1>2, <1>t, ZenonT(30) DEF Abort
  <1>3. ASSUME NEW u \in Txns, NEW z \in Foot[u], Begin(u, z) PROVE Goal
    <2>1. row' = row /\ plan' = plan
        BY <1>3, ZenonT(30) DEF Begin
    <2>2. seen'[t] = seen[t] \/ (u = t /\ seen'[t] = Acked)
        BY <1>3, <1>t, ZenonT(30) DEF Begin
    <2>3. br[u][z] = "none"
        BY <1>3, ZenonT(30) DEF Begin
    <2> QED
        BY <2>1, <2>2, <2>3, ZenonT(30)
  <1>4. CASE row' = row /\ seen' = seen /\ plan' = plan
      BY <1>4, ZenonT(30)
  <1>5. ASSUME NEW u \in Txns, NEW z \in Foot[u], Write(u, z) \/ Commit(u, z) \/ Prepare(u, z) \/ CommitPrepared(u, z)
        PROVE  Goal
      BY <1>5, <1>4, ZenonT(30) DEF Write, Commit, Prepare, CommitPrepared
  <1>6. CASE Surroundings \/ Barriers \/ Recover \/ UNCHANGED vars
    <2>1. row' = row /\ seen' = seen /\ plan' = plan
        BY <1>6, RunKeeps, RecoverKeeps, SurroundingsKeep, ZenonT(30) DEF Barriers, vars, data
    <2> QED
        BY <2>1, <1>4, ZenonT(30)
  <1> HIDE DEF Goal
  <1> QED
      BY <1>1, <1>2, <1>3, <1>5, <1>6, ZenonT(30) DEF Next, Client

LEMMA CommittedStays ==
    ASSUME Types, [Next]_vars, NEW t \in Txns, NEW s \in Foot[t], br[t][s] = "committed"
    PROVE  br'[t][s] = "committed"
  BY BranchMoves, ZenonT(30)

LEMMA AckedGrows == Types /\ [Next]_vars => Acked \subseteq Acked'
  <1> SUFFICES ASSUME Types, [Next]_vars, NEW t \in Acked PROVE t \in Acked'
      BY ZenonT(30)
  <1>1. t \in Txns /\ Foot' = Foot /\ Coordinated' = Coordinated
      BY RowMoves, ZenonT(30) DEF Acked, Foot, Foreign, Coordinated
  <1>2. CASE t \in Coordinated
    <2>1. row[t] \in {"commit", "finished"}
        BY <1>2, ZenonT(30) DEF Acked
    <2>2. row'[t] \in {"commit", "finished"}
        BY <2>1, <1>1, RowMoves, ZenonT(30)
    <2> QED
        BY <2>2, <1>1, <1>2, ZenonT(30) DEF Acked
  <1>3. CASE t \notin Coordinated
    <2>1. Foot[t] # {} /\ \A s \in Foot[t] : br[t][s] = "committed"
        BY <1>3, ZenonT(30) DEF Acked
    <2>2. \A s \in Foot[t] : br'[t][s] = "committed"
        BY <2>1, <1>1, CommittedStays, ZenonT(30)
    <2> QED
        BY <2>1, <2>2, <1>1, <1>3, ZenonT(30) DEF Acked
  <1> QED
      BY <1>2, <1>3, ZenonT(30)

LEMMA NextTxn == Types /\ TxnOK /\ [Next]_vars => TxnOK'
  <1> SUFFICES ASSUME Types, TxnOK, [Next]_vars, NEW t \in Txns
               PROVE  /\ row'[t] \in {"commit", "finished"} => Kept(t)'
                      /\ (\E s \in Foot'[t] : br'[t][s] = "committed") => Kept(t)'
                      /\ seen'[t] \subseteq Acked'
      BY ZenonT(30) DEF TxnOK
  <1>f. Foot' = Foot
      BY RowMoves, ZenonT(30) DEF Foot
  <1>s. \A s \in Foot[t] : br[t][s] \in Branches /\ s \in Shards
      BY FootShards, ZenonT(30) DEF Types, DataTypes
  <1>0. /\ row[t] \in {"commit", "finished"} => Kept(t)
        /\ (\E s \in Foot[t] : br[t][s] = "committed") => Kept(t)
        /\ seen[t] \subseteq Acked
      BY ZenonT(30) DEF TxnOK
  <1>1. ASSUME Kept(t), row[t] \in {"commit", "finished"} \/ \E s \in Foot[t] : br[t][s] = "committed" PROVE Kept(t)'
    <2>1. ASSUME NEW s \in Foot[t] PROVE br'[t][s] \in {"prepared", "committed"}
      <3>1. br[t][s] \in {"prepared", "committed"}
          BY <1>1, ZenonT(30) DEF Kept
      <3> QED
          BY <3>1, <1>1, BranchMoves, ZenonT(30)
    <2> QED
        BY <2>1, <1>f, ZenonT(30) DEF Kept
  <1>2. ASSUME row'[t] \in {"commit", "finished"} PROVE Kept(t)'
    <2>1. CASE row[t] \in {"commit", "finished"}
        BY <2>1, <1>0, <1>1, ZenonT(30)
    <2>2. CASE \A s \in Foot[t] : br[t][s] = "prepared" /\ br'[t][s] = "prepared"
        BY <2>2, <1>f, ZenonT(30) DEF Kept
    <2> QED
        BY <1>2, <2>1, <2>2, RowMoves, ZenonT(30)
  <1>3. ASSUME NEW s \in Foot[t], br'[t][s] = "committed" PROVE Kept(t)'
    <2>1. CASE br[t][s] = "committed"
        BY <2>1, <1>0, <1>1, ZenonT(30)
    <2>2. CASE Foot[t] = {s}
        BY <2>2, <1>3, <1>f, ZenonT(30) DEF Kept
    <2>3. CASE row[t] = "commit"
        BY <2>3, <1>0, <1>1, ZenonT(30)
    <2>4. CASE br[t][s] = "prepared" /\ Kept(t) /\ row[t] # "commit"
      <3>1. CASE \E z \in Foot[t] : br[t][z] = "committed"
          BY <3>1, <2>4, <1>1, ZenonT(30)
      <3>2. CASE \A z \in Foot[t] : br[t][z] = "prepared"
        <4>1. ASSUME NEW z \in Foot[t] PROVE br'[t][z] \in {"prepared", "committed"}
            BY <3>2, <1>3, BranchMoves, SMTT(30)
        <4> QED
            BY <4>1, <1>f, ZenonT(30) DEF Kept
      <3> QED
          BY <3>1, <3>2, <2>4, ZenonT(30) DEF Kept
    <2> QED
        BY <1>3, <2>1, <2>2, <2>3, <2>4, BranchMoves, ZenonT(30)
  <1>4. seen'[t] \subseteq Acked'
      BY <1>0, RowMoves, AckedGrows, SMTT(30)
  <1> QED
      BY <1>2, <1>3, <1>4, <1>f, ZenonT(30)

----------------------------------------------------------------------------
(* The cut *)

(* A step of a run that is under way keeps the list of shards it made.      *)
LEMMA RunKeepsList ==
    ASSUME Types, ArchiveTypes, WalkOK, NEW r \in Runs, RunStep(r) \/ Die(r) \/ LoseLock(r)
    PROVE  /\ \/ run'[r].pc \in {"idle", "over"}
              \/ run'[r].groups = run[r].groups /\ run[r].pc \notin {"idle", "over"}
           /\ \/ run'[r].pc \notin {"idle", "fence", "pause", "fenced"}
              \/ run'[r].mark = run[r].mark /\ run[r].pc \in {"idle", "fence", "pause", "fenced"}
  <1>t. run \in [Runs -> RunType] /\ run[r] \in RunType /\ ControlTypes
      BY ZenonT(30) DEF Types, ControlTypes
  <1> DEFINE Goal == /\ \/ run'[r].pc \in {"idle", "over"}
                        \/ run'[r].groups = run[r].groups /\ run[r].pc \notin {"idle", "over"}
                     /\ \/ run'[r].pc \notin {"idle", "fence", "pause", "fenced"}
                        \/ run'[r].mark = run[r].mark /\ run[r].pc \in {"idle", "fence", "pause", "fenced"}
  <1> SUFFICES Goal
      BY ZenonT(30)
  <1>o. ASSUME NEW next \in Steps, run[r].pc \notin {"idle", "over"}
        PROVE  LET q == Onward(r, next)
               IN  q \in RunType /\ q.groups = run[r].groups /\ q.mark = run[r].mark /\ q.pc \in {run[r].pc, next}
      BY <1>o, <1>t, Walk, ZenonT(30)
  <1>s. {"fenced", "writers", "mark", "points", "archive", "remark", "record", "release"} \subseteq Steps
      BY ZenonT(30) DEF Steps, Certifying, Relying
  <1>1. CASE RaiseFence(r)
    <2>1. run[r].pc = "fence"
        BY <1>1, ZenonT(30) DEF RaiseFence
    <2>2. \/ run'[r] = [run[r] EXCEPT !.pc = "pause", !.k = Lead(run[r].groups)]
          \/ run'[r] = [run[r] EXCEPT !.pc = "finish", !.k = 0]
        BY <1>1, <1>t, ZenonT(30) DEF RaiseFence, Goto
    <2> QED
        BY <2>1, <2>2, <1>t, Zenon DEF RunType
  <1>2. CASE PauseAll(r)
    <2> DEFINE o == Onward(r, "fenced")
    <2>1. run[r].pc = "pause"
        BY <1>2, ZenonT(30) DEF PauseAll
    <2>2. run'[r] = [o EXCEPT !.at[Turn(r)] = {t \in Txns : br[t][Turn(r)] # "none"}]
        BY <1>2, <1>t, ZenonT(30) DEF PauseAll
    <2>3. o \in RunType /\ o.groups = run[r].groups /\ o.mark = run[r].mark /\ o.pc \in {"pause", "fenced"}
        BY <2>1, <1>o, <1>s, ZenonT(30)
    <2> HIDE DEF o
    <2>4. run'[r].pc = o.pc /\ run'[r].groups = o.groups /\ run'[r].mark = o.mark
        BY <2>2, <2>3, ZenonT(30) DEF RunType
    <2> QED
        BY <2>1, <2>3, <2>4, ZenonT(30)
  <1>3. CASE Fenced(r) \/ Remark(r) \/ ReleaseFence(r)
    <2>1. run[r].pc \in {"fenced", "remark", "release"}
        BY <1>3, ZenonT(30) DEF Fenced, Remark, ReleaseFence
    <2>2. PICK next \in {"drain", "verify", "finish"} : run'[r] = [run[r] EXCEPT !.pc = next, !.k = 0]
        BY <1>3, <1>t, ZenonT(30) DEF Fenced, Remark, ReleaseFence, Goto
    <2> QED
        BY <2>1, <2>2, <1>t, ZenonT(30) DEF RunType
  <1>4. CASE Drain(r)
    <2>1. run[r].pc = "drain"
        BY <1>4, ZenonT(30) DEF Drain
    <2>2. run'[r] = Onward(r, "writers") \/ run'[r] = [run[r] EXCEPT !.pc = "drain", !.k = 0]
        BY <1>4, <1>t, ZenonT(30) DEF Drain, Goto
    <2>3. CASE run'[r] = Onward(r, "writers")
        BY <2>1, <2>3, <1>o, <1>s, SMTT(30)
    <2>4. CASE run'[r] = [run[r] EXCEPT !.pc = "drain", !.k = 0]
        BY <2>1, <2>4, <1>t, ZenonT(30) DEF RunType
    <2> QED
        BY <2>2, <2>3, <2>4, ZenonT(30)
  <1>5. CASE DrainWriters(r)
    <2>1. run[r].pc = "writers"
        BY <1>5, ZenonT(30) DEF DrainWriters
    <2>2. \/ run'[r] = Onward(r, "mark") \/ run'[r] = Onward(r, "points")
          \/ run'[r] = [run[r] EXCEPT !.k = Lead(run[r].groups)]
        BY <1>5, <1>t, ZenonT(30) DEF DrainWriters
    <2>3. CASE run'[r] = Onward(r, "mark") \/ run'[r] = Onward(r, "points")
        BY <2>1, <2>3, <1>o, <1>s, SMTT(30)
    <2>4. CASE run'[r] = [run[r] EXCEPT !.k = Lead(run[r].groups)]
        BY <2>1, <2>4, <1>t, ZenonT(30) DEF RunType
    <2> QED
        BY <2>2, <2>3, <2>4, ZenonT(30)
  <1>6. CASE Mark(r)
    <2>1. run[r].pc = "mark" /\ run'[r] = [Goto(r, "drain") EXCEPT !.mark = DecisionWatermark]
        BY <1>6, <1>t, ZenonT(30) DEF Mark
    <2> QED
        BY <2>1, <1>t, ZenonT(30) DEF RunType, Goto
  <1>7. CASE CreateRestorePoint(r) \/ AwaitArchived(r) \/ Verify(r)
    <2>1. run[r].pc \in {"points", "archive", "verify"}
        BY <1>7, ZenonT(30) DEF CreateRestorePoint, AwaitArchived, Verify
    <2>2. PICK next \in {"archive", "remark", "record"} : run'[r] = Onward(r, next)
        BY <1>7, <1>t, ZenonT(30) DEF CreateRestorePoint, AwaitArchived, Verify
    <2> QED
        BY <2>1, <2>2, <1>o, <1>s, SMTT(30)
  <1>8. CASE Record(r) \/ Failing(r)
    <2>1. run[r].pc \notin {"idle", "over"} /\ run'[r] = Leaving(r)
        BY <1>8, <1>t, ZenonT(30) DEF Record, Failing
    <2> QED
        BY <2>1, ZenonT(30) DEF Leaving, Idle
  <1>9. CASE ResumeAll(r)
    <2> DEFINE o == Onward(r, "release")
    <2>1. run[r].pc = "resume"
        BY <1>9, ZenonT(30) DEF ResumeAll
    <2>2. run'[r] = o \/ run'[r] = [o EXCEPT !.stuck = TRUE]
        BY <1>9, <1>t, Zenon DEF ResumeAll
    <2>3. o \in RunType /\ o.groups = run[r].groups /\ o.mark = run[r].mark /\ o.pc \in {"resume", "release"}
        BY <2>1, <1>o, <1>s, ZenonT(30)
    <2> HIDE DEF o
    <2>4. run'[r].pc = o.pc /\ run'[r].groups = o.groups
        BY <2>2, <2>3, ZenonT(30) DEF RunType
    <2> QED
        BY <2>1, <2>3, <2>4, ZenonT(30)
  <1>10. CASE Finish(r) \/ Die(r)
    <2>1. run'[r] = [Idle EXCEPT !.pc = "over"]
        BY <1>10, <1>t, ZenonT(30) DEF Finish, Die
    <2> QED
        BY <2>1, ZenonT(30) DEF Idle
  <1>11. CASE LoseLock(r)
      BY <1>11, ZenonT(30) DEF LoseLock
  <1> HIDE DEF Goal
  <1> QED
      BY <1>1, <1>2, <1>3, <1>4, <1>5, <1>6, <1>7, <1>8, <1>9, <1>10, <1>11, ZenonT(30) DEF RunStep

LEMMA NextOwn ==
    ASSUME WritesApart
    PROVE  Types /\ ArchiveTypes /\ WalkOK /\ OwnOK /\ Unmarked /\ [Next]_vars => OwnOK' /\ Unmarked'
  <1> SUFFICES ASSUME Types, ArchiveTypes, WalkOK, OwnOK, Unmarked, [Next]_vars PROVE OwnOK' /\ Unmarked'
      BY ZenonT(30)
  <1>p. \A t \in Txns : Foot'[t] = Foot[t] /\ Foot[t] \subseteq Shards /\ Foot[t] \cap Claimable = {}
      BY RowMoves, FootShards, SMTT(30) DEF Foot, WritesApart, Types, DataTypes
  <1>w. own \in [Shards -> {"free", "claimed", "held", "returned", "retired"}]
      BY ZenonT(30) DEF Types, PauseTypes
  <1>1. ASSUME NEW t \in Txns, NEW s \in Foot[t] PROVE own'[s] = "free"
    <2>1. own[s] = "free" /\ s \in Shards /\ s \notin Claimable
        BY <1>p, ZenonT(30) DEF OwnOK
    <2>2. CASE own' = own
        BY <2>1, <2>2, ZenonT(30)
    <2>3. ASSUME NEW z \in Shards, Claim(z) \/ PauseClaimed(z) \/ GiveBack(z) \/ Retire(z) PROVE own'[s] = "free"
      <3>1. z # s
          BY <2>3, <2>1, ZenonT(30) DEF Claim, PauseClaimed, GiveBack, Retire
      <3> QED
          BY <3>1, <2>1, <2>3, <1>w, ZenonT(30) DEF Claim, PauseClaimed, GiveBack, Retire
    <2>4. CASE Surroundings
        BY <2>2, <2>3, <2>4, ZenonT(30) DEF Surroundings, CatalogRestart, ArchiveSegment, SeeUnpaused, ReapplyWritePause, LosePause, pauses
    <2>5. CASE Client \/ Barriers \/ Recover \/ UNCHANGED vars
      <3>1. own' = own
          BY <2>5, ClientKeeps, RunKeeps, RecoverKeeps, ZenonT(30) DEF Barriers, vars, pauses
      <3> QED
          BY <3>1, <2>2, ZenonT(30)
    <2> QED
        BY <2>4, <2>5, ZenonT(30) DEF Next
  <1>2. ASSUME NEW r \in Runs
        PROVE  /\ run'[r].pc \notin {"idle", "over"} => \A t \in Txns : Foot'[t] \subseteq run'[r].groups
               /\ run'[r].pc \in {"idle", "fence", "pause", "fenced"} => run'[r].mark < 0
    <2>0. /\ run[r].pc \notin {"idle", "over"} => \A t \in Txns : Foot[t] \subseteq run[r].groups
          /\ run[r].pc \in {"idle", "fence", "pause", "fenced"} => run[r].mark < 0
        BY ZenonT(30) DEF OwnOK, Unmarked
    <2>1. CASE run'[r] = run[r]
        BY <2>0, <2>1, <1>p, ZenonT(30)
    <2>2. CASE Starting(r)
      <3>1. run[r].pc = "idle" /\ run'[r].mark = run[r].mark /\ run'[r].groups = Active
          BY <2>2, ZenonT(30) DEF Starting, Types, ControlTypes, RunType
      <3>2. \A t \in Txns : Foot[t] \subseteq Active
          BY <1>p, ZenonT(30) DEF OwnOK, Active
      <3> QED
          BY <3>1, <3>2, <2>0, <1>p, ZenonT(30)
    <2>3. CASE RunStep(r) \/ Die(r) \/ LoseLock(r)
        BY <2>0, <2>3, <1>p, RunKeepsList, ZenonT(30)
    <2>4. ASSUME NEW x \in Runs, x # r, Starting(x) \/ RunStep(x) \/ Die(x) \/ LoseLock(x) PROVE run'[r] = run[r]
      <3>1. run' = [run EXCEPT ![x] = run'[x]]
          BY <2>4, RunMove, ZenonT(30)
      <3> QED
          BY <3>1, <2>4, ZenonT(30) DEF Types, ControlTypes
    <2>5. CASE Client \/ Surroundings \/ Recover \/ UNCHANGED vars
      <3>1. run' = run
          BY <2>5, ClientKeeps, SurroundingsKeep, RecoverKeeps, ZenonT(30) DEF vars, control
      <3> QED
          BY <3>1, <2>1, ZenonT(30)
    <2> QED
        BY <2>1, <2>2, <2>3, <2>4, <2>5, ZenonT(30) DEF Next, Barriers
  <1> QED
      BY <1>1, <1>2, <1>p, ZenonT(30) DEF OwnOK, Unmarked

(* What a run has made of a shard stays so while the shard is paused.       *)
LEMMA ShardKept ==
    ASSUME Types, [Next]_vars, NEW s \in Shards, paused[s]
    PROVE  /\ NoWriter(s) => NoWriter(s)'
           /\ Frozen(s) => Frozen(s)' /\ \A t \in Txns : s \in Foot[t] => (br'[t][s] = "committed" <=> br[t][s] = "committed")
           /\ \A r \in Runs : Known(r, s) /\ run'[r].at = run[r].at => Known(r, s)'
  <1>f. \A t \in Txns : Foot'[t] = Foot[t]
      BY RowMoves, ZenonT(30) DEF Foot
  <1>b. ASSUME NEW t \in Txns, s \in Foot[t]
        PROVE  LET b == br[t][s]
                   c == br'[t][s]
               IN  \/ c = b
                   \/ b = "open" /\ c = "wrote"
                   \/ b = "wrote" /\ c = "prepared"
                   \/ b = "wrote" /\ c = "committed"
                   \/ b = "prepared" /\ c = "committed"
                   \/ b # "committed" /\ c = "gone"
      BY <1>b, BranchMoves, ZenonT(30)
  <1>1. NoWriter(s) => NoWriter(s)'
      BY <1>b, <1>f, ZenonT(30) DEF NoWriter
  <1>2. Frozen(s) => Frozen(s)' /\ \A t \in Txns : s \in Foot[t] => (br'[t][s] = "committed" <=> br[t][s] = "committed")
      BY <1>b, <1>f, ZenonT(30) DEF Frozen
  <1>3. \A r \in Runs : Known(r, s) /\ run'[r].at = run[r].at => Known(r, s)'
      BY <1>b, <1>f, ZenonT(30) DEF Known
  <1> QED
      BY <1>1, <1>2, <1>3, ZenonT(30)

LEMMA CutGoodKept ==
    ASSUME Types, [Next]_vars, NEW r \in Runs, CutGood(r), cut'[r] = cut[r]
    PROVE  CutGood(r)'
  <1>f. \A t \in Txns : Foot'[t] = Foot[t]
      BY RowMoves, ZenonT(30) DEF Foot
  <1>1. ASSUME NEW t \in Txns, NEW s \in Foot[t], <<t, s>> \in cut[r].done
        PROVE  /\ \A z \in Foot[t] : br'[t][z] = "committed"
               /\ seen'[t] = seen[t]
    <2>1. \A z \in Foot[t] : br[t][z] = "committed"
        BY <1>1, ZenonT(30) DEF CutGood
    <2>2. \A z \in Foot[t] : br'[t][z] = "committed"
        BY <2>1, CommittedStays, ZenonT(30)
    <2>3. seen'[t] = seen[t]
        BY <2>1, RowMoves, ZenonT(30)
    <2> QED
        BY <2>2, <2>3, ZenonT(30)
  <1>2. seen \in [Txns -> SUBSET Txns]
      BY ZenonT(30) DEF Types, DataTypes
  <1>3. cut'[r].prep = {}
      BY ZenonT(30) DEF CutGood
  <1>4. ASSUME NEW t \in Txns, NEW s \in Foot[t], <<t, s>> \in cut[r].done
        PROVE  \A u \in seen'[t] \cup {t} : \A z \in Foot'[u] : <<u, z>> \in cut[r].done
    <2>1. \A u \in seen[t] \cup {t} : \A z \in Foot[u] : <<u, z>> \in cut[r].done
        BY <1>4, Zenon DEF CutGood
    <2>2. seen'[t] = seen[t]
        BY <1>1, <1>4, ZenonT(30)
    <2> QED
        BY <2>1, <2>2, <1>2, <1>f, Zenon
  <1> QED
      BY <1>1, <1>3, <1>4, <1>f, Zenon DEF CutGood

(* Steps of others leave a run what it knows.                               *)
LEMMA FactsKept ==
    ASSUME Types, [Next]_vars, NEW r \in Runs, run'[r] = run[r], cut'[r] = cut[r], point'[r] = point[r],
           Facts(r), run[r].pc \in Relying => Sound(r)
    PROVE  Facts(r)'
  <1>y. Types
      BY ZenonT(30)
  <1>t. run[r] \in RunType /\ run[r].groups \subseteq Shards /\ Passed(r) \subseteq run[r].groups /\ Passed(r)' = Passed(r)
      BY <1>y, ZenonT(30) DEF Types, ControlTypes, RunType, Passed, Before
  <1>2. Facts(r)
      BY ZenonT(30)
  <1>3. /\ run[r].pc = "pause" => \A s \in Passed(r) : paused[s]
        /\ run[r].pc \in Relying \ {"pause"} => \A s \in run[r].groups : paused[s]
      BY ZenonT(30) DEF Sound, Counted, Certifying, Relying
  <1> DEFINE pc == run[r].pc
             second == run[r].mark >= 0
  <1>4. pc = "pause" => \A s \in Passed(r) : Known(r, s)'
      BY <1>2, <1>3, <1>t, <1>y, ShardKept, ZenonT(30) DEF Facts
  <1>5. pc \in Relying \ {"pause"} => \A s \in run[r].groups : Known(r, s)'
      BY <1>2, <1>3, <1>t, <1>y, ShardKept, ZenonT(30) DEF Facts
  <1>6. pc = "writers" => \A s \in Passed(r) : NoWriter(s)'
      BY <1>2, <1>3, <1>t, <1>y, ShardKept, ZenonT(30) DEF Facts, Relying
  <1>7. pc \in {"mark", "points"} \/ (pc \in {"drain", "writers"} /\ second) => \A s \in run[r].groups : NoWriter(s)'
      BY <1>2, <1>3, <1>t, <1>y, ShardKept, ZenonT(30) DEF Facts, Relying
  <1>8. pc = "drain" /\ second => \A s \in Passed(r) : Frozen(s)'
      BY <1>2, <1>3, <1>t, <1>y, ShardKept, ZenonT(30) DEF Facts, Relying
  <1>9. pc = "points" \/ (pc = "writers" /\ second) => \A s \in run[r].groups : Frozen(s)'
      BY <1>2, <1>3, <1>t, <1>y, ShardKept, ZenonT(30) DEF Facts, Relying
  <1>10. pc = "points" => cut'[r].prep = {} /\ cut'[r].done = DoneOn(Passed(r))'
    <2> SUFFICES ASSUME pc = "points" PROVE cut'[r].prep = {} /\ cut'[r].done = DoneOn(Passed(r))'
        BY ZenonT(30)
    <2>1. cut[r].prep = {} /\ cut[r].done = DoneOn(Passed(r)) /\ \A s \in run[r].groups : paused[s] /\ Frozen(s)
        BY <1>2, <1>3, ZenonT(30) DEF Facts, Relying
    <2> DEFINE S == Passed(r)
    <2>2. S \in SUBSET Shards /\ \A s \in S : paused[s] /\ Frozen(s)
        BY <2>1, <1>t, ZenonT(30)
    <2>3. DoneOn(Passed(r))' = DoneOn(S)
      <3>1. DoneOn(Passed(r))' = {p \in Txns \X Passed(r)' : p[2] \in Foot'[p[1]] /\ br'[p[1]][p[2]] = "committed"}
          BY ZenonT(30) DEF DoneOn
      <3>2. {p \in Txns \X S : p[2] \in Foot'[p[1]] /\ br'[p[1]][p[2]] = "committed"} = DoneOn(S)
        <4> DEFINE A == {p \in Txns \X S : p[2] \in Foot'[p[1]] /\ br'[p[1]][p[2]] = "committed"}
        <4>f. \A t \in Txns : Foot'[t] = Foot[t]
            BY <1>y, RowMoves, ZenonT(30) DEF Foot
        <4>1. ASSUME NEW t \in Txns, NEW s \in S, s \in Foot[t] PROVE br'[t][s] = "committed" <=> br[t][s] = "committed"
            BY <4>1, <2>2, <1>y, ShardKept, ZenonT(30)
        <4> HIDE DEF S
        <4>2. \A p \in Txns \X S : p \in A <=> p \in DoneOn(S)
            BY <4>1, <4>f, ZenonT(30) DEF DoneOn
        <4> QED
            BY <4>2, ZenonT(30) DEF DoneOn
      <3> QED
          BY <3>1, <3>2, <1>t, ZenonT(30)
    <2> QED
        BY <2>1, <2>3, ZenonT(30)
  <1>11. pc \in {"archive", "remark", "verify", "record"} \/ point[r] = "certified" => CutGood(r)'
      BY <1>2, <1>y, CutGoodKept, ZenonT(30) DEF Facts
  <1> QED
      BY <1>4, <1>5, <1>6, <1>7, <1>8, <1>9, <1>10, <1>11, <1>t, ZenonT(30) DEF Facts

(* Once the last point is taken, every transaction on the shards is over.   *)
LEMMA CutTaken ==
    ASSUME Types, TxnOK, OwnOK, NEW r \in Runs, run[r].pc \notin {"idle", "over"},
           \A s \in run[r].groups : Frozen(s)
    PROVE  LET done == DoneOn(run[r].groups)
           IN  \A t \in Txns : (\E s \in Foot[t] : <<t, s>> \in done) =>
                   /\ \A s \in Foot[t] : br[t][s] = "committed"
                   /\ \A u \in seen[t] \cup {t} : \A s \in Foot[u] : <<u, s>> \in done
  <1> DEFINE done == DoneOn(run[r].groups)
  <1>s. seen \in [Txns -> SUBSET Txns] /\ run[r].groups \subseteq Shards
      BY ZenonT(30) DEF Types, DataTypes, ControlTypes, RunType
  <1>1. ASSUME NEW u \in Txns, Kept(u), NEW s \in Foot[u] PROVE br[u][s] = "committed" /\ <<u, s>> \in done
    <2>1. s \in run[r].groups
        BY ZenonT(30) DEF OwnOK
    <2>2. br[u][s] = "committed"
        BY <2>1, <1>1, ZenonT(30) DEF Frozen, Kept
    <2> QED
        BY <2>1, <2>2, ZenonT(30) DEF DoneOn
  <1>2. ASSUME NEW t \in Txns, NEW s \in Foot[t], <<t, s>> \in done
        PROVE  \A u \in seen[t] \cup {t} : u \in Txns /\ Kept(u)
    <2>1. br[t][s] = "committed"
        BY <1>2, ZenonT(30) DEF DoneOn
    <2>2. Kept(t)
        BY <2>1, ZenonT(30) DEF TxnOK
    <2>3. ASSUME NEW u \in seen[t] PROVE u \in Txns /\ Kept(u)
      <3>1. u \in Acked /\ u \in Txns
          BY <1>s, ZenonT(30) DEF TxnOK
      <3> QED
          BY <3>1, ZenonT(30) DEF Acked, TxnOK, Kept
    <2> QED
        BY <2>2, <2>3, ZenonT(30)
  <1> QED
      BY <1>1, <1>2, Zenon

(* A step of a run makes the facts of its next phase out of those of the    *)
(* one it was in, which hold if the shards it counts on are all in Q; the   *)
(* paused ones and those it still counts on are.                            *)
LEMMA FactsOf ==
    ASSUME Inv, TxnOK, OwnOK, Unmarked, [Next]_vars, NEW r \in Runs, Starting(r) \/ RunStep(r) \/ Die(r),
           NEW Q, \A s \in Counted(r) : paused[s] \/ s \in Counted(r)' => s \in Q,
           (\A s \in Counted(r) : s \in Q) => Facts(r)
    PROVE  Facts(r)'
  <1>y. Types /\ ArchiveTypes /\ WalkOK /\ CertOK /\ ControlTypes
      BY ZenonT(30) DEF Inv, Types
  <1>t. /\ run \in [Runs -> RunType] /\ cut \in [Runs -> CutType] /\ run[r] \in RunType /\ cut[r] \in CutType
        /\ run[r].groups \subseteq Shards /\ Passed(r) \subseteq run[r].groups /\ run[r].k \in 0 .. Len(Order)
        /\ point \in [Runs -> {"none", "reserved", "failed", "certified"}]
      BY <1>y, ZenonT(30) DEF ControlTypes, RunType, Passed, Before
  <1>w. Walks(run[r], point[r]) /\ Cert(r)
      BY <1>y, ZenonT(30) DEF WalkOK, CertOK
  <1>m. Walks(run'[r], point'[r])
      BY <1>y, RunMove, ZenonT(30)
  <1>d. br' = br /\ plan' = plan /\ seen' = seen /\ row' = row
      BY RunKeeps, ZenonT(30) DEF data
  <1>f. \A t \in Txns : Foot'[t] = Foot[t]
      BY <1>d, ZenonT(30) DEF Foot
  <1>n. \A s : (NoWriter(s)' <=> NoWriter(s)) /\ (Frozen(s)' <=> Frozen(s))
      BY <1>d, <1>f, ZenonT(30) DEF NoWriter, Frozen
  <1>k. \A s : run'[r].at = run[r].at => (Known(r, s)' <=> Known(r, s))
      BY <1>d, <1>f, ZenonT(30) DEF Known
  <1>e. /\ Relying = {"pause", "fenced", "drain", "writers", "mark", "points"}
        /\ Certifying = {"pause", "fenced", "drain", "writers", "mark", "points", "archive", "remark", "verify", "record"}
      BY ZenonT(30) DEF Certifying, Relying
  <1>z. Before(run[r].groups, 0) = {}
      BY <1>t, Places, SMTT(30) DEF Before
  <1>p. point'[r] = "certified" => point[r] = "certified" \/ Record(r)
    <2>1. CASE Starting(r) \/ Finish(r)
        BY <2>1, <1>t, ZenonT(30) DEF Starting, Finish
    <2>2. CASE point' = point
        BY <2>2, ZenonT(30)
    <2> QED
        BY <2>1, <2>2, Zenon DEF RunStep, RaiseFence, PauseAll, Fenced, Drain, DrainWriters, Mark, Failing, Die,
           CreateRestorePoint, AwaitArchived, Remark, Verify, ResumeAll, ReleaseFence
  <1>q. run'[r].pc \in Certifying \cup {"idle", "fence"} => point'[r] # "certified"
      BY <1>m, ZenonT(30) DEF Walks
  <1>a. \A s \in Counted(r) : paused[s] \/ s \in Counted(r)' => s \in Q
      BY ZenonT(30)
  <1>i. (\A s \in Counted(r) : s \in Q) => Facts(r)
      BY ZenonT(30)
  <1>o. ASSUME NEW next \in Steps, run[r].pc \notin {"idle", "over"}
        PROVE  LET q == Onward(r, next)
               IN  /\ q \in RunType
                   /\ q.groups = run[r].groups /\ q.at = run[r].at /\ q.mark = run[r].mark
                   /\ \/ q.pc = run[r].pc /\ q.k > 0 /\ Before(q.groups, q.k) = Passed(r) \cup Turns(r)
                      \/ /\ q.pc = next /\ Before(q.groups, q.k) = {}
                         /\ run[r].groups = Passed(r) \cup Turns(r)
      BY <1>o, <1>y, Walk, ZenonT(30)
  <1>s. {"fenced", "drain", "writers", "mark", "points", "archive", "remark", "verify", "record", "release"} \subseteq Steps
      BY ZenonT(30) DEF Steps, Certifying, Relying
  (* Steps that end what the run counts on. *)
  <1>1. ASSUME run'[r].pc \notin Certifying,
               point'[r] = "certified" => cut'[r] = cut[r] /\ (point[r] = "certified" \/ run[r].pc = "record")
        PROVE  Facts(r)'
    <2> SUFFICES ASSUME point'[r] = "certified" PROVE CutGood(r)'
        BY <1>1, <1>e, Zenon DEF Facts
    <2>1. Counted(r) = {}
        BY <1>1, <1>w, <1>e, ZenonT(30) DEF Walks, Counted
    <2>2. CutGood(r)
        BY <2>1, <1>i, <1>1, Zenon DEF Facts
    <2> QED
        BY <2>2, <1>1, <1>y, CutGoodKept, ZenonT(30)
  <1>2. CASE Starting(r) \/ RaiseFence(r)
    <2>1. run[r].pc \in {"idle", "fence"} /\ point'[r] # "certified" /\ run'[r].pc \in {"fence", "pause", "finish"}
      <3>1. CASE Starting(r)
          BY <3>1, <1>t, ZenonT(30) DEF Starting, RunType
      <3>2. CASE RaiseFence(r)
        <4>1. run[r].pc = "fence"
            BY <3>2, ZenonT(30) DEF RaiseFence
        <4>2. \/ run'[r] = [run[r] EXCEPT !.pc = "pause", !.k = Lead(run[r].groups)]
              \/ run'[r] = [run[r] EXCEPT !.pc = "finish", !.k = 0]
            BY <3>2, <1>t, ZenonT(30) DEF RaiseFence, Goto
        <4>3. run'[r].pc \in {"pause", "finish"}
            BY <4>2, <1>t, Zenon DEF RunType
        <4> QED
            BY <4>1, <4>3, <1>p, <1>w, ZenonT(30) DEF Walks, Record
      <3> QED
          BY <1>2, <3>1, <3>2, ZenonT(30)
    <2>2. CASE run'[r].pc # "pause"
        BY <2>1, <2>2, <1>1, <1>e, ZenonT(30)
    <2>3. CASE run'[r].pc = "pause"
      <3>1. RaiseFence(r)
        <4>1. Starting(r) => run'[r] = [run[r] EXCEPT !.pc = "fence", !.groups = Active]
            BY <1>t, ZenonT(30) DEF Starting
        <4>2. Starting(r) => run'[r].pc = "fence"
            BY <4>1, <1>t, Zenon DEF RunType
        <4> QED
            BY <4>2, <2>3, <1>2, ZenonT(30)
      <3>2. run[r].groups # {}
          BY <2>1, <1>w, <3>1, ZenonT(30) DEF Walks, RaiseFence
      <3>3. \/ run'[r] = [run[r] EXCEPT !.pc = "pause", !.k = Lead(run[r].groups)]
            \/ run'[r] = [run[r] EXCEPT !.pc = "finish", !.k = 0]
          BY <3>1, <1>t, ZenonT(30) DEF RaiseFence, Goto
      <3>4. run'[r].groups = run[r].groups /\ run'[r].k = Lead(run[r].groups)
          BY <3>3, <2>3, <1>t, ZenonT(30) DEF RunType
      <3>5. Passed(r)' = {}
          BY <3>2, <3>4, <1>t, LeadOf, Zenon DEF Passed
      <3> QED
          BY <3>5, <2>1, <2>3, <1>e, ZenonT(30) DEF Facts
    <2> QED
        BY <2>2, <2>3, ZenonT(30)
  <1>3. CASE PauseAll(r)
    <2> DEFINE o == Onward(r, "fenced")
               since == {t \in Txns : br[t][Turn(r)] # "none"}
    <2>1. run[r].pc = "pause" /\ run'[r] = [o EXCEPT !.at[Turn(r)] = since]
        BY <1>3, <1>t, ZenonT(30) DEF PauseAll
    <2>2. /\ o \in RunType /\ o.groups = run[r].groups /\ o.at = run[r].at
          /\ \/ o.pc = "pause" /\ o.k > 0 /\ Before(o.groups, o.k) = Passed(r) \cup Turns(r)
             \/ /\ o.pc = "fenced" /\ Before(o.groups, o.k) = {}
                /\ run[r].groups = Passed(r) \cup Turns(r)
        BY <2>1, <1>o, <1>s, ZenonT(30)
    <2>3. Turn(r) \in Shards /\ Turns(r) = {Turn(r)}
        BY <2>1, <1>w, <1>t, ZenonT(30) DEF Walks, Turn, Turns
    <2> HIDE DEF o, since
    <2>4. run'[r].pc = o.pc /\ run'[r].k = o.k /\ run'[r].groups = o.groups
        BY <2>1, <2>2, ZenonT(30) DEF RunType
    <2>5. run'[r].at = [run[r].at EXCEPT ![Turn(r)] = since]
        BY <2>1, <2>2, ZenonT(30) DEF RunType
    <2>6. Passed(r)' = Before(o.groups, o.k)
        BY <2>4, ZenonT(30) DEF Passed
    <2>7. Counted(r)' = Passed(r) \cup Turns(r) /\ Counted(r) = Passed(r)
        BY <2>1, <2>2, <2>4, <2>6, <1>e, ZenonT(30) DEF Counted
    <2>8. \A s \in Passed(r) : Known(r, s)
        BY <2>7, <2>1, <1>a, <1>i, ZenonT(30) DEF Facts
    <2>9. ASSUME NEW s \in Passed(r) \cup Turns(r) PROVE Known(r, s)'
      <3>1. CASE s = Turn(r)
        <4>1. run'[r].at[s] = since
            BY <3>1, <2>3, <2>5, <1>t, ZenonT(30) DEF RunType
        <4> QED
            BY <4>1, <3>1, <1>d, <1>f, ZenonT(30) DEF Known, since
      <3>2. CASE s # Turn(r)
        <4>1. run'[r].at[s] = run[r].at[s] /\ s \in Passed(r)
            BY <3>2, <2>3, <2>5, <2>9, <1>t, ZenonT(30) DEF RunType
        <4> QED
            BY <4>1, <2>8, <1>d, <1>f, ZenonT(30) DEF Known
      <3> QED
          BY <3>1, <3>2, ZenonT(30)
    <2> QED
        BY <2>2, <2>4, <2>6, <2>9, <1>q, <1>e, Zenon DEF Facts
  <1>4. CASE Fenced(r)
    <2>1. run[r].pc = "fenced" /\ run'[r] = [run[r] EXCEPT !.pc = "drain", !.k = 0]
        BY <1>4, <1>t, ZenonT(30) DEF Fenced, Goto
    <2>2. /\ run'[r].pc = "drain" /\ run'[r].k = 0 /\ run'[r].groups = run[r].groups
          /\ run'[r].at = run[r].at /\ run'[r].mark = run[r].mark
        BY <2>1, <1>t, ZenonT(30) DEF RunType
    <2>3. Counted(r)' = Counted(r)
        BY <2>1, <2>2, <1>e, ZenonT(30) DEF Counted
    <2>4. Facts(r)
        BY <2>3, <1>a, <1>i, ZenonT(30)
    <2>5. ~(run[r].mark >= 0)
        BY <2>1, <1>t, SMTT(30) DEF Unmarked, RunType
    <2> QED
        BY <2>1, <2>2, <2>4, <2>5, <1>k, <1>q, <1>e, ZenonT(30) DEF Facts
  <1>5. CASE Drain(r)
    <2> DEFINE clear == IF run[r].k = 0 THEN PreparingCount = 0 ELSE PreparedGIDs(Turn(r)) = {}
    <2>1. run[r].pc = "drain"
        BY <1>5, ZenonT(30) DEF Drain
    <2>2. CASE ~clear
      <3>1. run'[r] = [run[r] EXCEPT !.pc = "drain", !.k = 0]
          BY <1>5, <2>2, <1>t, ZenonT(30) DEF Drain, Goto
      <3>2. /\ run'[r].pc = "drain" /\ run'[r].k = 0 /\ run'[r].groups = run[r].groups
            /\ run'[r].at = run[r].at /\ run'[r].mark = run[r].mark
          BY <3>1, <1>t, ZenonT(30) DEF RunType
      <3>3. Counted(r)' = Counted(r) /\ Passed(r)' = {}
          BY <2>1, <3>2, <1>e, <1>z, ZenonT(30) DEF Counted, Passed
      <3>4. Facts(r)
          BY <3>3, <1>a, <1>i, ZenonT(30)
      <3> QED
          BY <2>1, <3>2, <3>3, <3>4, <1>k, <1>n, <1>q, <1>e, ZenonT(30) DEF Facts
    <2>3. CASE clear
      <3> DEFINE q == Onward(r, "writers")
      <3>1. run'[r] = q
          BY <1>5, <2>3, <1>t, ZenonT(30) DEF Drain
      <3>2. /\ q.groups = run[r].groups /\ q.at = run[r].at /\ q.mark = run[r].mark
            /\ \/ q.pc = "drain" /\ Before(q.groups, q.k) = Passed(r) \cup Turns(r)
               \/ /\ q.pc = "writers" /\ Before(q.groups, q.k) = {}
                  /\ run[r].groups = Passed(r) \cup Turns(r)
          BY <2>1, <1>o, <1>s, ZenonT(30)
      <3> HIDE DEF q
      <3>3. Counted(r)' = Counted(r) /\ Passed(r)' = Before(q.groups, q.k)
          BY <2>1, <3>1, <3>2, <1>e, ZenonT(30) DEF Counted, Passed
      <3>4. Facts(r)
          BY <3>3, <1>a, <1>i, ZenonT(30)
      <3>5. ASSUME run[r].mark >= 0, NEW s \in Passed(r) \cup Turns(r) PROVE Frozen(s)
        <4>1. CASE s \in Passed(r)
            BY <4>1, <3>4, <3>5, <2>1, ZenonT(30) DEF Facts
        <4>2. CASE s \in Turns(r)
          <5>1. s = Turn(r) /\ run[r].k > 0 /\ s \in run[r].groups
              BY <4>2, <1>w, ZenonT(30) DEF Turns, Turn, Walks
          <5>2. PreparedGIDs(s) = {}
              BY <5>1, <2>3, <1>t, SMTT(30)
          <5>3. NoWriter(s)
              BY <5>1, <3>4, <3>5, <2>1, ZenonT(30) DEF Facts
          <5>4. \A t \in Txns : s \in Foot[t] => br[t][s] \in Branches
              BY <1>y, FootShards, ZenonT(30) DEF Types, DataTypes
          <5> QED
              BY <5>2, <5>3, <5>4, ZenonT(30) DEF PreparedGIDs, NoWriter, Frozen, Branches
        <4> QED
            BY <3>5, <4>1, <4>2, ZenonT(30)
      <3>6. \A s \in run[r].groups : Known(r, s)'
          BY <3>1, <3>2, <3>4, <2>1, <1>k, <1>e, ZenonT(30) DEF Facts
      <3>7. run[r].mark >= 0 => \A s \in run[r].groups : NoWriter(s)'
          BY <3>4, <2>1, <1>n, ZenonT(30) DEF Facts
      <3>8. run[r].mark >= 0 => \A s \in Passed(r) \cup Turns(r) : Frozen(s)'
          BY <3>5, <1>n, ZenonT(30)
      <3> QED
          BY <2>1, <3>1, <3>2, <3>3, <3>6, <3>7, <3>8, <1>q, <1>e, ZenonT(30) DEF Facts
    <2> QED
        BY <2>2, <2>3, ZenonT(30)
  <1>6. CASE DrainWriters(r)
    <2>1. run[r].pc = "writers"
        BY <1>6, ZenonT(30) DEF DrainWriters
    <2>2. CASE WritersSince(Turn(r), run[r].at[Turn(r)]) # {}
      <3>1. run'[r] = [run[r] EXCEPT !.k = Lead(run[r].groups)]
          BY <1>6, <2>2, <1>t, ZenonT(30) DEF DrainWriters
      <3>2. /\ run'[r].pc = "writers" /\ run'[r].k = Lead(run[r].groups) /\ run'[r].groups = run[r].groups
            /\ run'[r].at = run[r].at /\ run'[r].mark = run[r].mark
          BY <2>1, <3>1, <1>t, ZenonT(30) DEF RunType
      <3>3. run[r].groups # {}
          BY <2>1, <1>w, Zenon DEF Walks
      <3>4. Counted(r)' = Counted(r)
          BY <2>1, <3>2, <1>e, ZenonT(30) DEF Counted
      <3>5. Passed(r)' = {}
          BY <3>2, <3>3, <1>t, LeadOf, ZenonT(30) DEF Passed
      <3>6. Facts(r)
          BY <3>4, <1>a, <1>i, ZenonT(30)
      <3> QED
          BY <2>1, <3>2, <3>5, <3>6, <1>k, <1>n, <1>q, <1>e, ZenonT(30) DEF Facts
    <2>3. CASE WritersSince(Turn(r), run[r].at[Turn(r)]) = {}
      <3> DEFINE next == IF run[r].mark < 0 THEN "mark" ELSE "points"
                 q == Onward(r, next)
      <3>1. run'[r] = q /\ cut' = cut
          BY <1>6, <2>3, <1>t, ZenonT(30) DEF DrainWriters
      <3>2. /\ q.groups = run[r].groups /\ q.at = run[r].at /\ q.mark = run[r].mark
            /\ \/ q.pc = "writers" /\ Before(q.groups, q.k) = Passed(r) \cup Turns(r)
               \/ /\ q.pc = next /\ Before(q.groups, q.k) = {}
                  /\ run[r].groups = Passed(r) \cup Turns(r)
        <4>1. next \in Steps
            BY <1>s, ZenonT(30)
        <4> HIDE DEF next
        <4> QED
            BY <4>1, <2>1, <1>o, ZenonT(30)
      <3>9. /\ q.pc \in {"writers", "mark", "points"}
            /\ q.pc = "mark" => run[r].mark < 0
            /\ q.pc = "points" => run[r].mark >= 0 /\ Before(q.groups, q.k) = {}
            /\ q.pc # "writers" => run[r].groups = Passed(r) \cup Turns(r)
        <4>1. run[r].mark \in Int
            BY <1>t, ZenonT(30) DEF RunType
        <4>2. next \in {"mark", "points"} /\ (next = "mark" => run[r].mark < 0) /\ (next = "points" => run[r].mark >= 0)
            BY <4>1, SMTT(30)
        <4> HIDE DEF q, next
        <4> QED
            BY <4>2, <3>2, ZenonT(30)
      <3> HIDE DEF q, next
      <3>3. Counted(r)' = Counted(r) /\ Passed(r)' = Before(q.groups, q.k)
          BY <2>1, <3>1, <3>2, <3>9, <1>e, ZenonT(30) DEF Counted, Passed
      <3>4. Facts(r)
          BY <3>3, <1>a, <1>i, ZenonT(30)
      <3>5. ASSUME NEW s \in Passed(r) \cup Turns(r) PROVE NoWriter(s)
        <4>1. CASE s \in Passed(r)
            BY <4>1, <3>4, <2>1, ZenonT(30) DEF Facts
        <4>2. CASE s \in Turns(r)
          <5>1. s = Turn(r) /\ s \in run[r].groups
              BY <4>2, <1>w, ZenonT(30) DEF Turns, Turn, Walks
          <5>2. Known(r, s)
              BY <5>1, <3>4, <2>1, <1>e, ZenonT(30) DEF Facts
          <5> QED
              BY <5>1, <5>2, <2>3, ZenonT(30) DEF WritersSince, NoWriter, Known
        <4> QED
            BY <3>5, <4>1, <4>2, ZenonT(30)
      <3>6. \A s \in run[r].groups : Known(r, s)'
          BY <3>1, <3>2, <3>4, <2>1, <1>k, <1>e, ZenonT(30) DEF Facts
      <3>7. \A s \in Passed(r) \cup Turns(r) : NoWriter(s)'
          BY <3>5, <1>n, ZenonT(30)
      <3>8. run[r].mark >= 0 => \A s \in run[r].groups : NoWriter(s)' /\ Frozen(s)'
          BY <3>4, <2>1, <1>n, ZenonT(30) DEF Facts
      <3>10. q.pc = "points" => cut'[r].prep = {} /\ cut'[r].done = DoneOn(Passed(r))'
        <4>1. cut[r] = NoCut
            BY <2>1, <1>w, <1>e, ZenonT(30) DEF Cert
        <4>2. q.pc = "points" => Passed(r)' = {}
            BY <3>3, <3>9, ZenonT(30)
        <4> QED
            BY <4>1, <4>2, <3>1, SMTT(30) DEF NoCut, DoneOn
      <3>11. CASE q.pc = "writers"
          BY <3>11, <3>1, <3>2, <3>3, <3>6, <3>7, <3>8, <3>9, <1>q, <1>e, ZenonT(30) DEF Facts
      <3>12. CASE q.pc = "mark"
          BY <3>12, <3>1, <3>2, <3>3, <3>6, <3>7, <3>9, <1>q, <1>e, ZenonT(30) DEF Facts
      <3>13. CASE q.pc = "points"
          BY <3>13, <3>1, <3>2, <3>6, <3>8, <3>9, <3>10, <1>q, <1>e, ZenonT(30) DEF Facts
      <3> QED
          BY <3>9, <3>11, <3>12, <3>13, ZenonT(30)
    <2> QED
        BY <2>2, <2>3, ZenonT(30)
  <1>7. CASE Mark(r)
    <2>1. run[r].pc = "mark" /\ run'[r] = [Goto(r, "drain") EXCEPT !.mark = DecisionWatermark]
        BY <1>7, <1>t, ZenonT(30) DEF Mark
    <2>2. /\ run'[r].pc = "drain" /\ run'[r].k = 0 /\ run'[r].groups = run[r].groups /\ run'[r].at = run[r].at
        BY <2>1, <1>t, ZenonT(30) DEF RunType, Goto
    <2>3. Counted(r)' = Counted(r) /\ Passed(r)' = {}
        BY <2>1, <2>2, <1>e, <1>z, ZenonT(30) DEF Counted, Passed
    <2>4. Facts(r)
        BY <2>3, <1>a, <1>i, Zenon
    <2> QED
        BY <2>1, <2>2, <2>3, <2>4, <1>k, <1>n, <1>q, <1>e, ZenonT(30) DEF Facts
  <1>8. CASE CreateRestorePoint(r)
    <2> DEFINE g == IF run[r].k = 0 THEN Catalog ELSE Turn(r)
               q == Onward(r, "archive")
    <2>1. run[r].pc = "points" /\ run'[r] = q
        BY <1>8, <1>t, ZenonT(30) DEF CreateRestorePoint
    <2>2. /\ cut'[r].done = cut[r].done \cup {p \in Txns \X {g} : g \in Foot[p[1]] /\ br[p[1]][g] = "committed"}
          /\ cut'[r].prep = cut[r].prep \cup {p \in Txns \X {g} : g \in Foot[p[1]] /\ br[p[1]][g] = "prepared"}
        BY <1>8, <1>y, Pointing, ZenonT(30)
    <2>3. /\ q.groups = run[r].groups /\ q.at = run[r].at /\ q.mark = run[r].mark
          /\ \/ q.pc = "points" /\ Before(q.groups, q.k) = Passed(r) \cup Turns(r)
             \/ q.pc = "archive" /\ run[r].groups = Passed(r) \cup Turns(r)
      <3>1. "archive" \in Steps /\ run[r].pc \notin {"idle", "over"}
          BY <2>1, <1>s, ZenonT(30)
      <3> QED
          BY <3>1, <2>1, <1>o, Zenon
    <2> HIDE DEF q
    <2>4. Counted(r)' = Counted(r) /\ Passed(r)' = Before(q.groups, q.k)
        BY <2>1, <2>3, <1>e, ZenonT(30) DEF Counted, Passed
    <2>5. Facts(r)
        BY <2>4, <1>a, <1>i, ZenonT(30)
    <2>6. /\ cut[r].prep = {} /\ cut[r].done = DoneOn(Passed(r))
          /\ \A s \in run[r].groups : Frozen(s) /\ NoWriter(s) /\ Known(r, s)
        BY <2>1, <2>5, <1>e, ZenonT(30) DEF Facts
    <2>7. (g \in Turns(r) /\ Turns(r) = {g}) \/ (g = Catalog /\ Turns(r) = {})
      <3>1. run[r].k \in Nat
          BY <1>t, Places, SMTT(30)
      <3>2. CASE run[r].k = 0
          BY <3>2, SMTT(30) DEF Turns
      <3>3. CASE run[r].k > 0
        <4>1. g = Order[run[r].k] /\ Turns(r) = {Order[run[r].k]}
            BY <3>3, SMTT(30) DEF Turns, Turn
        <4> QED
            BY <4>1, ZenonT(30)
      <3> QED
          BY <3>1, <3>2, <3>3, SMTT(30)
    <2>8. \A t \in Txns : Catalog \notin Foot[t]
        BY <1>y, FootShards, Places, ZenonT(30)
    <2>9. Turns(r) \subseteq run[r].groups
        BY <1>w, ZenonT(30) DEF Turns, Walks
    <2> HIDE DEF g
    <2>10. cut'[r].prep = {}
      <3>1. \A t \in Txns : ~(g \in Foot[t] /\ br[t][g] = "prepared")
          BY <2>6, <2>7, <2>8, <2>9, ZenonT(30) DEF Frozen
      <3> QED
          BY <3>1, <2>2, <2>6, ZenonT(30)
    <2>11. cut'[r].done = DoneOn(Passed(r) \cup Turns(r))
      <3>1. CASE Turns(r) = {g}
          BY <3>1, <2>2, <2>6, ZenonT(30) DEF DoneOn
      <3>2. CASE g = Catalog /\ Turns(r) = {}
        <4>1. {p \in Txns \X {g} : g \in Foot[p[1]] /\ br[p[1]][g] = "committed"} = {}
            BY <3>2, <2>8, ZenonT(30)
        <4>2. Passed(r) \cup Turns(r) = Passed(r)
            BY <3>2, ZenonT(30)
        <4> QED
            BY <4>1, <4>2, <2>2, <2>6, ZenonT(30)
      <3> QED
          BY <2>7, <3>1, <3>2, ZenonT(30)
    <2>12. CASE q.pc = "points" /\ Before(q.groups, q.k) = Passed(r) \cup Turns(r)
      <3>1. DoneOn(Passed(r))' = DoneOn(Passed(r) \cup Turns(r))
          BY <2>12, <2>4, <1>d, <1>f, ZenonT(30) DEF DoneOn
      <3>2. \A s \in run[r].groups : Frozen(s)' /\ NoWriter(s)' /\ Known(r, s)'
          BY <2>6, <2>1, <2>3, <1>n, <1>k, ZenonT(30)
      <3> QED
          BY <2>1, <2>3, <2>10, <2>11, <2>12, <3>1, <3>2, <1>q, <1>e, ZenonT(30) DEF Facts
    <2>13. CASE q.pc = "archive" /\ run[r].groups = Passed(r) \cup Turns(r)
      <3>1. \A t \in Txns : (\E s \in Foot[t] : <<t, s>> \in cut'[r].done) =>
               /\ \A s \in Foot[t] : br[t][s] = "committed"
               /\ \A u \in seen[t] \cup {t} : \A s \in Foot[u] : <<u, s>> \in cut'[r].done
        <4>1. cut'[r].done = DoneOn(run[r].groups)
            BY <2>11, <2>13, ZenonT(30)
        <4>2. OwnOK
            BY ZenonT(30)
        <4> QED
            BY <4>1, <4>2, <2>1, <2>6, <1>y, CutTaken, ZenonT(30)
      <3>2. \A t \in Txns : seen[t] \subseteq Txns
          BY <1>y, ZenonT(30) DEF Types, DataTypes
      <3>3. CutGood(r)'
          BY <3>1, <3>2, <2>10, <1>d, <1>f, ZenonT(30) DEF CutGood
      <3> QED
          BY <2>1, <2>13, <3>3, <1>e, ZenonT(30) DEF Facts
    <2> QED
        BY <2>3, <2>12, <2>13, ZenonT(30)
  <1>9. CASE AwaitArchived(r) \/ Remark(r) \/ Verify(r)
    <2>1. run[r].pc \in {"archive", "remark", "verify"} /\ cut' = cut
        BY <1>9, ZenonT(30) DEF AwaitArchived, Remark, Verify
    <2>2. run'[r].pc \in {"archive", "remark", "verify", "record"} /\ \A s \in Counted(r) : s \in Q
      <3>1. CASE AwaitArchived(r)
        <4> DEFINE q == Onward(r, "remark")
        <4>1. run[r].pc = "archive" /\ run'[r] = q
            BY <3>1, <1>t, ZenonT(30) DEF AwaitArchived
        <4>2. q.groups = run[r].groups /\ q.pc \in {"archive", "remark"}
            BY <4>1, <1>o, <1>s, Zenon
        <4> HIDE DEF q
        <4>3. Counted(r)' = Counted(r)
            BY <4>1, <4>2, <1>e, ZenonT(30) DEF Counted
        <4> QED
            BY <4>1, <4>2, <4>3, <1>a, ZenonT(30)
      <3>2. CASE Remark(r)
        <4>1. run[r].pc = "remark" /\ run'[r] = [run[r] EXCEPT !.pc = "verify", !.k = 0]
            BY <3>2, <1>t, ZenonT(30) DEF Remark, Goto
        <4>2. run'[r].pc = "verify" /\ run'[r].k = 0 /\ run'[r].groups = run[r].groups
            BY <4>1, <1>t, ZenonT(30) DEF RunType
        <4>3. Counted(r)' = Counted(r)
            BY <4>1, <4>2, <1>e, <1>z, ZenonT(30) DEF Counted, Passed
        <4> QED
            BY <4>2, <4>3, <1>a, ZenonT(30)
      <3>3. CASE Verify(r)
        <4> DEFINE q == Onward(r, "record")
        <4>1. run[r].pc = "verify" /\ run'[r] = q /\ (run[r].k # 0 => paused[Turn(r)])
            BY <3>3, <1>t, ZenonT(30) DEF Verify
        <4>2. /\ q.groups = run[r].groups
              /\ \/ q.pc = "verify" /\ Before(q.groups, q.k) = Passed(r) \cup Turns(r)
                 \/ q.pc = "record" /\ run[r].groups = Passed(r) \cup Turns(r)
            BY <4>1, <1>o, <1>s, ZenonT(30)
        <4> HIDE DEF q
        <4>3. \A s \in Turns(r) : paused[s]
          <5>1. CASE run[r].k = 0
              BY <5>1, <1>t, SMTT(30) DEF Turns
          <5>2. CASE run[r].k # 0
            <6>1. Turns(r) = {Turn(r)}
                BY <5>2, <1>t, Places, SMTT(30) DEF Turns, Turn
            <6> QED
                BY <6>1, <5>2, <4>1, ZenonT(30)
          <5> QED
              BY <5>1, <5>2, ZenonT(30)
        <4>4. Counted(r) = run[r].groups \ Passed(r)
            BY <4>1, <1>e, ZenonT(30) DEF Counted
        <4>5. \A s \in Counted(r) : s \in Counted(r)' \/ s \in Turns(r)
            BY <4>1, <4>2, <4>4, <1>e, ZenonT(30) DEF Counted, Passed
        <4> QED
            BY <4>1, <4>2, <4>3, <4>5, <1>a, ZenonT(30)
      <3> QED
          BY <1>9, <3>1, <3>2, <3>3, ZenonT(30)
    <2>3. CutGood(r)
        BY <2>1, <2>2, <1>i, ZenonT(30) DEF Facts
    <2>4. CutGood(r)'
        BY <2>1, <2>3, <1>y, CutGoodKept, ZenonT(30)
    <2> QED
        BY <2>2, <2>4, <1>e, ZenonT(30) DEF Facts
  <1>10. CASE Record(r)
    <2>1. run[r].pc = "record" /\ cut' = cut /\ run'[r] = Leaving(r)
        BY <1>10, <1>t, ZenonT(30) DEF Record
    <2>2. Leaving(r).pc = "resume"
        BY ZenonT(30) DEF Leaving, Idle
    <2> QED
        BY <2>1, <2>2, <1>1, <1>e, ZenonT(30)
  <1>11. CASE Failing(r)
    <2>1. run[r].pc \in Certifying /\ run'[r] = Leaving(r)
        BY <1>11, <1>e, <1>t, ZenonT(30) DEF Failing
    <2>2. Leaving(r).pc = "resume"
        BY ZenonT(30) DEF Leaving, Idle
    <2>3. point'[r] # "certified"
        BY <2>1, <1>11, <1>w, ZenonT(30) DEF Failing, Walks
    <2> QED
        BY <2>1, <2>2, <2>3, <1>1, <1>e, ZenonT(30)
  <1>12. CASE ResumeAll(r)
    <2> DEFINE o == Onward(r, "release")
    <2>1. run[r].pc = "resume" /\ cut' = cut /\ point' = point /\ (run'[r] = o \/ run'[r] = [o EXCEPT !.stuck = TRUE])
        BY <1>12, <1>t, ZenonT(30) DEF ResumeAll
    <2>2. o \in RunType /\ o.pc \in {"resume", "release"}
        BY <2>1, <1>o, <1>s, ZenonT(30)
    <2> HIDE DEF o
    <2>3. run'[r].pc \in {"resume", "release"}
        BY <2>1, <2>2, ZenonT(30) DEF RunType
    <2> QED
        BY <2>1, <2>3, <1>1, <1>e, ZenonT(30)
  <1>13. CASE ReleaseFence(r) \/ Finish(r) \/ Die(r)
    <2>1. run'[r] = [run[r] EXCEPT !.pc = "finish", !.k = 0] \/ run'[r] = [Idle EXCEPT !.pc = "over"]
        BY <1>13, <1>t, ZenonT(30) DEF ReleaseFence, Finish, Die, Goto
    <2>2. run'[r].pc \in {"finish", "over"}
        BY <2>1, <1>t, Zenon DEF RunType, Idle
    <2>3. point'[r] = "certified" => point[r] = "certified"
        BY <1>13, <1>t, ZenonT(30) DEF ReleaseFence, Finish, Die
    <2>4. point'[r] = "certified" => cut'[r] = cut[r]
        BY <1>13, <2>3, <1>t, ZenonT(30) DEF ReleaseFence, Finish, Die
    <2> QED
        BY <2>2, <2>3, <2>4, <1>1, <1>e, ZenonT(30)
  <1> QED
      BY <1>2, <1>3, <1>4, <1>5, <1>6, <1>7, <1>8, <1>9, <1>10, <1>11, <1>12, <1>13, ZenonT(30) DEF RunStep

LEMMA NextCut ==
    ASSUME WritesApart
    PROVE  Inv /\ TxnOK /\ CutInv /\ NotPausedAgain /\ [Next]_vars => CutInv'
  <1> SUFFICES ASSUME Inv, TxnOK, CutInv, NotPausedAgain, [Next]_vars PROVE CutInv'
      BY ZenonT(30)
  <1>y. Types /\ ArchiveTypes /\ WalkOK
      BY ZenonT(30) DEF Inv
  <1>1. OwnOK' /\ Unmarked'
      BY <1>y, NextOwn, ZenonT(30) DEF CutInv
  <1>2. ASSUME NEW r \in Runs, Sound(r)' PROVE Facts(r)'
    <2>1. CASE run'[r] = run[r] /\ cut'[r] = cut[r] /\ point'[r] = point[r]
      <3>1. Counted(r)' = Counted(r)
          BY <2>1, ZenonT(30) DEF Counted, Passed
      <3>2. Sound(r) /\ Facts(r)
          BY <3>1, <1>2, ZenonT(30) DEF Sound, NotPausedAgain, CutInv
      <3> QED
          BY <2>1, <3>2, <1>y, FactsKept, ZenonT(30)
    <2>2. CASE Starting(r) \/ RunStep(r) \/ Die(r)
      <3> DEFINE Q == {s \in Shards : paused[s]}
      <3>1. Counted(r) \subseteq Shards
          BY <1>y, ZenonT(30) DEF Types, ControlTypes, RunType, Counted, Passed, Before
      <3>2. \A s \in Counted(r) : paused[s] \/ s \in Counted(r)' => s \in Q
          BY <3>1, <1>2, ZenonT(30) DEF Sound, NotPausedAgain
      <3>3. (\A s \in Counted(r) : s \in Q) => Facts(r)
          BY ZenonT(30) DEF Sound, CutInv
      <3>4. OwnOK /\ Unmarked
          BY ZenonT(30) DEF CutInv
      <3> HIDE DEF Q
      <3> QED
          BY <2>2, <3>2, <3>3, <3>4, FactsOf, ZenonT(30)
    <2>3. ASSUME NEW x \in Runs, x # r, Starting(x) \/ RunStep(x) \/ Die(x) \/ LoseLock(x)
          PROVE  run'[r] = run[r] /\ cut'[r] = cut[r] /\ point'[r] = point[r]
      <3>1. /\ run' = [run EXCEPT ![x] = run'[x]] /\ cut' = [cut EXCEPT ![x] = cut'[x]]
            /\ point' = [point EXCEPT ![x] = point'[x]]
          BY <2>3, <1>y, RunMove, ZenonT(30)
      <3> QED
          BY <3>1, <2>3, <1>y, ZenonT(30) DEF Types, ControlTypes
    <2>4. CASE Client \/ Surroundings \/ Recover \/ LoseLock(r) \/ UNCHANGED vars
      <3>1. run' = run /\ cut' = cut /\ point' = point
          BY <2>4, ClientKeeps, SurroundingsKeep, RecoverKeeps, ZenonT(30) DEF vars, control, LoseLock
      <3> QED
          BY <3>1, <2>1, ZenonT(30)
    <2> QED
      <3>1. CASE Barriers
        <4> PICK x \in Runs : Starting(x) \/ RunStep(x) \/ Die(x) \/ LoseLock(x)
            BY <3>1, ZenonT(30) DEF Barriers
        <4>1. CASE x = r
            BY <4>1, <2>2, <2>4, ZenonT(30)
        <4>2. CASE x # r
            BY <4>2, <2>3, <2>1, ZenonT(30)
        <4> QED
            BY <4>1, <4>2, ZenonT(30)
      <3> QED
          BY <3>1, <2>4, ZenonT(30) DEF Next
  <1> QED
      BY <1>1, <1>2, ZenonT(30) DEF CutInv

LEMMA InitCut == ASSUME WritesApart PROVE Init => TxnOK /\ CutInv
  <1> SUFFICES ASSUME Init PROVE TxnOK /\ CutInv
      BY ZenonT(30)
  <1>0. Idle.pc = "idle" /\ Idle.mark = -1
      BY ZenonT(30) DEF Idle
  <1>1. \A r \in Runs : run[r].pc = "idle" /\ run[r].mark < 0 /\ point[r] = "none"
      BY <1>0, SMTT(30) DEF Init
  <1>2. \A t \in Txns : Foot[t] \subseteq Shards /\ Foot[t] \cap plan.retired = {}
      BY BarrierAssumption, ZenonT(30) DEF Init, Foot, WritesApart
  <1>3. TxnOK
      BY <1>2, ZenonT(30) DEF Init, TxnOK
  <1>4. OwnOK /\ Unmarked
      BY <1>1, <1>2, Zenon DEF Init, OwnOK, Unmarked
  <1> QED
      BY <1>1, <1>3, <1>4, Zenon DEF CutInv, Facts, Relying

(* A certified point is a cut clients could have seen, with any number of   *)
(* crashes, restarts, promotions and lost pauses and any number of runs at  *)
(* once, as long as transactions keep away from sets that are retired or    *)
(* being switched and nobody pauses again, behind a run's back, a shard     *)
(* that lost the pause the run gave it: Barrier.verify catches every pause  *)
(* that was lost, but not one that was lost and set again.                  *)
THEOREM VerifiedCut == ASSUME WritesApart PROVE Spec /\ [][NotPausedAgain]_vars => []ConsistentCut
  <1>1. Init => TxnOK /\ CutInv
      BY InitCut, ZenonT(30)
  <1>2. Inv /\ TxnOK /\ CutInv /\ [Next]_vars /\ [NotPausedAgain]_vars => TxnOK' /\ CutInv'
    <2> SUFFICES ASSUME Inv, TxnOK, CutInv, [Next]_vars, [NotPausedAgain]_vars PROVE TxnOK' /\ CutInv'
        BY ZenonT(30)
    <2>1. NotPausedAgain
      <3>1. CASE UNCHANGED vars
          BY <3>1, ZenonT(30) DEF vars, pauses, NotPausedAgain
      <3> QED
          BY <3>1, ZenonT(30)
    <2>2. TxnOK'
        BY NextTxn, ZenonT(30) DEF Inv
    <2>3. CutInv'
        BY <2>1, NextCut, ZenonT(30)
    <2> QED
        BY <2>2, <2>3, ZenonT(30)
  <1>3. Inv /\ CutInv => ConsistentCut
    <2> SUFFICES ASSUME Inv, CutInv, NEW r \in Runs, point[r] = "certified" PROVE CutGood(r)
        BY Zenon DEF ConsistentCut, Restored, CutGood
    <2>1. run[r].pc \notin Certifying
        BY ZenonT(30) DEF Inv, WalkOK, Walks
    <2>2. Sound(r)
        BY <2>1, ZenonT(30) DEF Sound, Counted, Certifying, Relying
    <2> QED
        BY <2>2, ZenonT(30) DEF CutInv, Facts
  <1> QED
      BY <1>1, <1>2, <1>3, Invariance, PTL DEF Spec

(* No shard loses its pause between the turn in which a run paused it and   *)
(* the last of the run's points.                                            *)
HeldToPoints == \A r \in Runs : run[r].pc \in Relying => \A s \in Counted(r) : paused[s] => paused'[s]

HeldInv ==
    /\ OwnOK /\ Unmarked
    /\ \A r \in Runs : Facts(r) /\ (run[r].pc \in Relying => Sound(r))

(* What a run counts on after a step it paused in that step, or counted on  *)
(* before.                                                                  *)
LEMMA CountedBefore ==
    ASSUME Types, ArchiveTypes, WalkOK, NEW r \in Runs, Starting(r) \/ RunStep(r) \/ Die(r), run'[r].pc \in Relying
    PROVE  \A s \in Counted(r)' : paused'[s] \/ (run[r].pc \in Relying /\ s \in Counted(r))
  <1>t. /\ run \in [Runs -> RunType] /\ run[r] \in RunType /\ ControlTypes /\ Walks(run[r], point[r])
        /\ run[r].groups \subseteq Shards /\ paused \in [Shards -> BOOLEAN]
      BY ZenonT(30) DEF Types, ControlTypes, PauseTypes, WalkOK, RunType
  <1>e. /\ Relying = {"pause", "fenced", "drain", "writers", "mark", "points"}
        /\ Certifying = {"pause", "fenced", "drain", "writers", "mark", "points", "archive", "remark", "verify", "record"}
      BY ZenonT(30) DEF Certifying, Relying
  <1>o. ASSUME NEW next \in Steps, run[r].pc \notin {"idle", "over"}
        PROVE  LET q == Onward(r, next)
               IN  /\ q \in RunType /\ q.groups = run[r].groups
                   /\ \/ q.pc = run[r].pc /\ Before(q.groups, q.k) = Passed(r) \cup Turns(r)
                      \/ q.pc = next /\ run[r].groups = Passed(r) \cup Turns(r)
      BY <1>o, <1>t, Walk, ZenonT(30)
  <1>s. {"fenced", "remark", "record", "release"} \subseteq Steps
      BY ZenonT(30) DEF Steps, Certifying, Relying
  <1>1. CASE RaiseFence(r)
    <2>1. run[r].pc = "fence" /\ run[r].groups # {}
        BY <1>1, <1>t, ZenonT(30) DEF RaiseFence, Walks
    <2>2. \/ run'[r] = [run[r] EXCEPT !.pc = "pause", !.k = Lead(run[r].groups)]
          \/ run'[r] = [run[r] EXCEPT !.pc = "finish", !.k = 0]
        BY <1>1, <1>t, ZenonT(30) DEF RaiseFence, Goto
    <2>3. run'[r].pc = "pause" /\ run'[r].groups = run[r].groups /\ run'[r].k = Lead(run[r].groups)
        BY <2>2, <1>t, <1>e, ZenonT(30) DEF RunType
    <2>4. Passed(r)' = {}
        BY <2>1, <2>3, <1>t, LeadOf, Zenon DEF Passed
    <2> QED
        BY <2>3, <2>4, ZenonT(30) DEF Counted
  <1>2. CASE PauseAll(r)
    <2> DEFINE o == Onward(r, "fenced")
               since == {t \in Txns : br[t][Turn(r)] # "none"}
    <2>1. run[r].pc = "pause" /\ run'[r] = [o EXCEPT !.at[Turn(r)] = since] /\ paused' = [paused EXCEPT ![Turn(r)] = TRUE]
        BY <1>2, <1>t, ZenonT(30) DEF PauseAll
    <2>2. /\ o \in RunType /\ o.groups = run[r].groups
          /\ \/ o.pc = "pause" /\ Before(o.groups, o.k) = Passed(r) \cup Turns(r)
             \/ o.pc = "fenced" /\ run[r].groups = Passed(r) \cup Turns(r)
        BY <2>1, <1>o, <1>s, ZenonT(30)
    <2>3. Turn(r) \in Shards /\ Turns(r) = {Turn(r)}
        BY <2>1, <1>t, ZenonT(30) DEF Walks, Turn, Turns
    <2> HIDE DEF o, since
    <2>4. run'[r].pc = o.pc /\ run'[r].k = o.k /\ run'[r].groups = o.groups
        BY <2>1, <2>2, ZenonT(30) DEF RunType
    <2>5. Counted(r)' = Passed(r) \cup Turns(r) /\ Counted(r) = Passed(r)
        BY <2>1, <2>2, <2>4, <1>e, ZenonT(30) DEF Counted, Passed
    <2>6. paused'[Turn(r)]
        BY <2>1, <2>3, <1>t, ZenonT(30)
    <2> QED
        BY <2>1, <2>3, <2>5, <2>6, <1>e, ZenonT(30)
  <1>3. CASE Fenced(r) \/ Drain(r) \/ DrainWriters(r) \/ Mark(r) \/ CreateRestorePoint(r)
    <2>1. run[r].pc \in Relying \ {"pause"} /\ RunStep(r)
        BY <1>3, <1>e, ZenonT(30) DEF Fenced, Drain, DrainWriters, Mark, CreateRestorePoint, RunStep
    <2>2. run'[r].groups = run[r].groups
        BY <2>1, <1>e, RunKeepsList, ZenonT(30)
    <2>3. run'[r].pc # "pause"
      <3>1. CASE Fenced(r)
        <4>1. run'[r] = [run[r] EXCEPT !.pc = "drain", !.k = 0]
            BY <3>1, <1>t, ZenonT(30) DEF Fenced, Goto
        <4> QED
            BY <4>1, <1>t, ZenonT(30) DEF RunType
      <3>2. CASE run[r].pc \notin {"idle", "fence", "pause", "fenced"}
          BY <3>2, <2>1, RunKeepsList, ZenonT(30)
      <3> QED
          BY <1>3, <3>1, <3>2, ZenonT(30) DEF Drain, DrainWriters, Mark, CreateRestorePoint
    <2> QED
        BY <2>1, <2>2, <2>3, <1>e, ZenonT(30) DEF Counted
  <1>4. CASE Starting(r) \/ Remark(r) \/ ReleaseFence(r)
    <2>1. \/ run'[r] = [run[r] EXCEPT !.pc = "fence", !.groups = Active]
          \/ run'[r] = [run[r] EXCEPT !.pc = "verify", !.k = 0]
          \/ run'[r] = [run[r] EXCEPT !.pc = "finish", !.k = 0]
        BY <1>4, <1>t, ZenonT(30) DEF Starting, Remark, ReleaseFence, Goto
    <2>2. run'[r].pc \in {"fence", "verify", "finish"}
        BY <2>1, <1>t, Zenon DEF RunType
    <2> QED
        BY <2>2, <1>e, ZenonT(30)
  <1>5. CASE AwaitArchived(r) \/ Verify(r) \/ ResumeAll(r)
    <2>1. run[r].pc \in {"archive", "verify", "resume"}
        BY <1>5, ZenonT(30) DEF AwaitArchived, Verify, ResumeAll
    <2>2. PICK next \in {"remark", "record", "release"} :
             run'[r] = Onward(r, next) \/ run'[r] = [Onward(r, next) EXCEPT !.stuck = TRUE]
        BY <1>5, <1>t, ZenonT(30) DEF AwaitArchived, Verify, ResumeAll
    <2> DEFINE o == Onward(r, next)
    <2>3. o \in RunType /\ o.pc \in {run[r].pc, next}
        BY <2>1, <1>o, <1>s, ZenonT(30)
    <2> HIDE DEF o
    <2>4. run'[r].pc = o.pc
        BY <2>2, <2>3, ZenonT(30) DEF RunType, o
    <2> QED
        BY <2>1, <2>3, <2>4, <1>e, ZenonT(30)
  <1>6. CASE Record(r) \/ Failing(r) \/ Finish(r) \/ Die(r)
    <2>1. run'[r] = Leaving(r) \/ run'[r] = [Idle EXCEPT !.pc = "over"]
        BY <1>6, <1>t, ZenonT(30) DEF Record, Failing, Finish, Die
    <2>2. run'[r].pc \in {"resume", "over"}
        BY <2>1, ZenonT(30) DEF Leaving, Idle
    <2> QED
        BY <2>2, <1>e, ZenonT(30)
  <1> QED
      BY <1>1, <1>2, <1>3, <1>4, <1>5, <1>6, ZenonT(30) DEF RunStep

LEMMA NextHeld ==
    ASSUME WritesApart
    PROVE  Inv /\ TxnOK /\ HeldInv /\ HeldToPoints /\ [Next]_vars => HeldInv'
  <1> SUFFICES ASSUME Inv, TxnOK, HeldInv, HeldToPoints, [Next]_vars PROVE HeldInv'
      BY ZenonT(30)
  <1>y. Types /\ ArchiveTypes /\ WalkOK
      BY ZenonT(30) DEF Inv
  <1>h. OwnOK /\ Unmarked /\ \A r \in Runs : Facts(r) /\ (run[r].pc \in Relying => Sound(r))
      BY ZenonT(30) DEF HeldInv
  <1>1. OwnOK' /\ Unmarked'
      BY <1>y, <1>h, NextOwn, ZenonT(30)
  <1>2. ASSUME NEW r \in Runs PROVE Facts(r)' /\ (run'[r].pc \in Relying => Sound(r)')
    <2>1. CASE run'[r] = run[r] /\ cut'[r] = cut[r] /\ point'[r] = point[r]
      <3>1. Counted(r)' = Counted(r)
          BY <2>1, ZenonT(30) DEF Counted, Passed
      <3>2. Facts(r)'
          BY <2>1, <1>h, <1>y, FactsKept, ZenonT(30)
      <3>3. run'[r].pc \in Relying => Sound(r)'
          BY <2>1, <3>1, <1>h, ZenonT(30) DEF Sound, HeldToPoints
      <3> QED
          BY <3>2, <3>3, ZenonT(30)
    <2>2. CASE Starting(r) \/ RunStep(r) \/ Die(r)
      <3> DEFINE Q == Counted(r)
      <3>1. /\ \A s \in Counted(r) : paused[s] \/ s \in Counted(r)' => s \in Q
            /\ (\A s \in Counted(r) : s \in Q) => Facts(r)
          BY <1>h, ZenonT(30)
      <3> HIDE DEF Q
      <3>2. Facts(r)'
          BY <2>2, <3>1, <1>h, FactsOf, ZenonT(30)
      <3>3. ASSUME run'[r].pc \in Relying, NEW s \in Counted(r)' PROVE paused'[s]
        <4>1. paused'[s] \/ (run[r].pc \in Relying /\ s \in Counted(r))
            BY <2>2, <3>3, <1>y, CountedBefore, ZenonT(30)
        <4> QED
            BY <4>1, <1>h, ZenonT(30) DEF Sound, HeldToPoints
      <3> QED
          BY <3>2, <3>3, ZenonT(30) DEF Sound
    <2>3. ASSUME NEW x \in Runs, x # r, Starting(x) \/ RunStep(x) \/ Die(x) \/ LoseLock(x)
          PROVE  run'[r] = run[r] /\ cut'[r] = cut[r] /\ point'[r] = point[r]
      <3>1. /\ run' = [run EXCEPT ![x] = run'[x]] /\ cut' = [cut EXCEPT ![x] = cut'[x]]
            /\ point' = [point EXCEPT ![x] = point'[x]]
          BY <2>3, <1>y, RunMove, ZenonT(30)
      <3> QED
          BY <3>1, <2>3, <1>y, ZenonT(30) DEF Types, ControlTypes
    <2>4. CASE Client \/ Surroundings \/ Recover \/ LoseLock(r) \/ UNCHANGED vars
      <3>1. run' = run /\ cut' = cut /\ point' = point
          BY <2>4, ClientKeeps, SurroundingsKeep, RecoverKeeps, ZenonT(30) DEF vars, control, LoseLock
      <3> QED
          BY <3>1, <2>1, ZenonT(30)
    <2> QED
      <3>1. CASE Barriers
        <4> PICK x \in Runs : Starting(x) \/ RunStep(x) \/ Die(x) \/ LoseLock(x)
            BY <3>1, ZenonT(30) DEF Barriers
        <4>1. CASE x = r
            BY <4>1, <2>2, <2>4, ZenonT(30)
        <4>2. CASE x # r
            BY <4>2, <2>3, <2>1, ZenonT(30)
        <4> QED
            BY <4>1, <4>2, ZenonT(30)
      <3> QED
          BY <3>1, <2>4, ZenonT(30) DEF Next
  <1> QED
      BY <1>1, <1>2, ZenonT(30) DEF HeldInv

(* A certified point is a cut clients could have seen as long as no shard   *)
(* loses its pause between the turn in which the run paused it and the      *)
(* run's last point: whatever is lost, resumed by Recover or paused again   *)
(* by reapplyWritePause afterwards, and whatever else the operator pauses.  *)
THEOREM HeldCut == ASSUME WritesApart PROVE Spec /\ [][HeldToPoints]_vars => []ConsistentCut
  <1>1. Init => TxnOK /\ HeldInv
    <2> SUFFICES ASSUME Init PROVE TxnOK /\ HeldInv
        BY ZenonT(30)
    <2>1. TxnOK /\ CutInv
        BY InitCut, ZenonT(30)
    <2>2. Idle.pc = "idle"
        BY ZenonT(30) DEF Idle
    <2>3. \A r \in Runs : run[r].pc = "idle"
        BY <2>2, ZenonT(30) DEF Init
    <2>4. \A r \in Runs : Sound(r)
        BY <2>3, ZenonT(30) DEF Sound, Counted, Certifying, Relying
    <2> QED
        BY <2>1, <2>4, ZenonT(30) DEF CutInv, HeldInv
  <1>2. Inv /\ TxnOK /\ HeldInv /\ [Next]_vars /\ [HeldToPoints]_vars => TxnOK' /\ HeldInv'
    <2> SUFFICES ASSUME Inv, TxnOK, HeldInv, [Next]_vars, [HeldToPoints]_vars PROVE TxnOK' /\ HeldInv'
        BY ZenonT(30)
    <2>1. HeldToPoints
      <3>1. CASE UNCHANGED vars
          BY <3>1, ZenonT(30) DEF vars, pauses, HeldToPoints
      <3> QED
          BY <3>1, ZenonT(30)
    <2>2. TxnOK'
        BY NextTxn, ZenonT(30) DEF Inv
    <2>3. HeldInv'
        BY <2>1, NextHeld, ZenonT(30)
    <2> QED
        BY <2>2, <2>3, ZenonT(30)
  <1>3. HeldInv => ConsistentCut
    <2> SUFFICES ASSUME HeldInv, NEW r \in Runs, point[r] = "certified" PROVE CutGood(r)
        BY Zenon DEF ConsistentCut, Restored, CutGood
    <2> QED
        BY ZenonT(30) DEF HeldInv, Facts
  <1> QED
      BY <1>1, <1>2, <1>3, Invariance, PTL DEF Spec
=============================================================================
