--------------------------- MODULE FailoverProofs ---------------------------
(***************************************************************************)
(* For every group, every bound on commits and epochs and any number of    *)
(* faults: at most one member is writable, no agent has accepted an epoch  *)
(* that was not published, and, where every standby acknowledges, no       *)
(* acknowledged commit is missing from any member.                         *)
(***************************************************************************)
EXTENDS Failover, FiniteSetTheorems, TLAPS

-----------------------------------------------------------------------------
(* The inductive invariant.                                                *)

(* What the operator's pass knows at each step.  The old primary's Pod is  *)
(* gone from fencePod until another member is designated, and nothing is   *)
(* promoted but the designated primary.                                    *)
OpOK ==
  /\ op.pc \in {"fencePod", "confirm", "publishRow", "publishStatus",
                "publishLease", "promote"} => op.cand \in Members
  /\ op.pc = "confirm" => ~pod[Old]
  /\ op.pc \in {"publishRow", "publishStatus"} => op.cand = Old \/ ~pod[Old]
  /\ op.pc \in {"publishLease", "promote"} => op.cand = Old

(* A member without a Pod runs nothing and renews nothing, and one whose   *)
(* agent is starting has no PostgreSQL yet.                                *)
PodGone ==
  \A m \in Members :
    /\ ~pod[m] => job[m] = "none" /\ pg[m] = "off" /\ ~hold[m]
    /\ job[m] = "boot" => pg[m] = "off"

(* Only the designated primary is writable or on its way to be.            *)
OnlyOld ==
  \A m \in Members :
    pg[m] = "primary" \/ job[m] \in {"acquire", "turn", "setup"} => m = Old

(* A ConfigMap that names another member than the designated one names one *)
(* that has no Pod to read it.                                             *)
ConfOK == conf # Old => ~pod[conf]

Control == OpOK /\ PodGone /\ OnlyOld /\ ConfOK

(* The epoch a pass carries is above every published one until the row,    *)
(* then the status, carry it.                                              *)
EpochOK ==
  /\ op.pc \in {"publishRow", "publishStatus"} => status.epoch <= op.epoch
  /\ op.pc = "publishStatus" => op.epoch <= row.epoch
  /\ op.pc \in {"publishLease", "promote"} => op.epoch = status.epoch

(* What a standby flushed is the beginning of what its primary wrote.      *)
Follows(s, t) == Len(s) <= Len(t) /\ \A i \in 1..Len(s) : s[i] = t[i]

StreamOK ==
  \A m \in Members : src[m] # None =>
    pg[m] = "standby" /\ pg[src[m]] = "primary" /\ Follows(wal[m], wal[src[m]])

(* Every standby acknowledges, and every member has what was acknowledged. *)
Unanimous == plan.sync = Cardinality(Members) - 1
AllHave == Unanimous => \A m \in Members : acked \subseteq Commits(m)

IInv == TypeOK /\ Control /\ EpochOK /\ FencePublishedFirst /\ StreamOK /\ AllHave

-----------------------------------------------------------------------------
(* Types.                                                                  *)

LEMMA InitType == Init => TypeOK
  <1> SUFFICES ASSUME Init PROVE TypeOK
      BY ZenonT(30)
  <1>1. plan \in PlanType
      BY BoundsAssumption, ZenonT(30) DEF Init
  <1>2. plan.writes \in Nat /\ plan.epochs \in Nat /\ plan.faults \in Nat
      BY <1>1, ZenonT(30) DEF PlanType
  <1>3. wal \in [Members -> Seq(1..plan.writes)]
      BY SMTT(30) DEF Init
  <1>4. op \in [pc : Steps, old : Maybe, planned : Maybe, cand : Maybe,
                epoch : 0..plan.epochs]
      BY <1>2, SMTT(30) DEF Init, Idle, Steps, Maybe
  <1>5. lease \in [holder : Maybe \union {Operator}, expired : BOOLEAN]
      BY MembersAssumption, ZenonT(30) DEF Init, Maybe
  <1> QED
      BY <1>1, <1>2, <1>3, <1>4, <1>5, MembersAssumption, SMTT(30)
      DEF Init, TypeOK, Running, Jobs, Maybe

(* A step that may count a fault stays within the plan.                    *)
LEMMA FaultType ==
  TypeOK /\ (Fault \/ NoFault) => plan' = plan /\ faults' \in 0..plan.faults
  <1> SUFFICES ASSUME TypeOK, Fault \/ NoFault PROVE plan' = plan /\ faults' \in 0..plan.faults
      BY ZenonT(30)
  <1>1. plan.faults \in Nat /\ faults \in 0..plan.faults
      BY ZenonT(30) DEF TypeOK, PlanType
  <1>2. CASE NoFault
      BY <1>1, <1>2, ZenonT(30) DEF NoFault
  <1>3. CASE Fault
      BY <1>1, <1>3, SMTT(30) DEF Fault
  <1> QED
      BY <1>2, <1>3, ZenonT(30)

(* The beginning of a WAL.                                                 *)
LEMMA Beginning ==
  ASSUME NEW S, NEW s \in Seq(S), NEW n \in Nat, n <= Len(s)
  PROVE  /\ SubSeq(s, 1, n) \in Seq(S) /\ Len(SubSeq(s, 1, n)) = n
         /\ \A i \in 1..n : SubSeq(s, 1, n)[i] = s[i]
  OBVIOUS

LEMMA InWal ==
  ASSUME NEW S, NEW s \in Seq(S), NEW c \in Range(s)
  PROVE  \E i \in 1..Len(s) : c = s[i] /\ c \in S
  BY SMTT(30) DEF Range

(* The agents and PostgreSQL keep the types.                               *)
LEMMA AgentType == TypeOK /\ (\E m \in Members : Agent(m)) => TypeOK'
  <1> SUFFICES ASSUME TypeOK, NEW m \in Members, Agent(m) PROVE TypeOK'
      BY ZenonT(30)
  <1>p. plan.writes \in Nat /\ plan.epochs \in Nat /\ plan.faults \in Nat
      BY ZenonT(30) DEF TypeOK, PlanType
  <1>1. CASE Renew(m)
      BY <1>1, ZenonT(30) DEF Renew, HeldBy, TypeOK, Maybe, NoFault, walVars, agentVars, recordVars
  <1>2. CASE SelfFence(m)
      BY <1>2, ZenonT(30) DEF SelfFence, Stopped, Unstream, Released, HeldBy, TypeOK, Maybe, Jobs,
                  NoFault, walVars, recordVars
  <1>3. CASE BootStandby(m)
      BY <1>3, ZenonT(30) DEF BootStandby, TypeOK, Running, Jobs, NoFault, walVars, sharedVars, recordVars
  <1>4. CASE BootPrimary(m)
      BY <1>4, ZenonT(30) DEF BootPrimary, HeldBy, TypeOK, Maybe, Running, Jobs, NoFault, walVars, recordVars
  <1>5. CASE \E p \in Members : BootRejoin(m, p)
    <2> PICK p \in Members : BootRejoin(m, p)
        BY <1>5, ZenonT(30)
    <2>1. wal' \in [Members -> Seq(1..plan.writes)]
        BY ZenonT(30) DEF BootRejoin, Rejoin, TypeOK
    <2> QED
        BY <2>1, ZenonT(30) DEF BootRejoin, Rejoin, TypeOK, Running, Jobs, NoFault, sharedVars, recordVars
  <1>6. CASE PromoteAccept(m)
      BY <1>6, ZenonT(30) DEF PromoteAccept, TypeOK, Jobs, NoFault, walVars, sharedVars, recordVars
  <1>7. CASE PromoteAcquire(m)
      BY <1>7, ZenonT(30) DEF PromoteAcquire, HeldBy, TypeOK, Maybe, Jobs, NoFault, walVars, recordVars
  <1>8. CASE PromoteTurn(m)
    <2>1. pending' \in [Members -> BOOLEAN]
        BY <1>8, ZenonT(30) DEF PromoteTurn, TypeOK
    <2> QED
        BY <1>8, <2>1, ZenonT(30) DEF PromoteTurn, TypeOK, Running, Jobs, Maybe, NoFault, walVars,
                          sharedVars, recordVars
  <1>9. CASE PromoteSetup(m)
      BY <1>9, ZenonT(30) DEF PromoteSetup, TypeOK, Jobs, NoFault, walVars, sharedVars, recordVars
  <1>10. CASE PromoteFails(m)
      BY <1>10, FaultType, ZenonT(30) DEF PromoteFails, TypeOK, Jobs, walVars, sharedVars, recordVars
  <1>11. CASE Crash(m)
    <2>1. src' \in [Members -> Maybe]
        BY <1>11, ZenonT(30) DEF Crash, Stopped, Unstream, TypeOK, Maybe
    <2>2. pg' \in [Members -> Running \union {"off"}] /\ hold' \in [Members -> BOOLEAN] /\ job' \in [Members -> Jobs]
        BY <1>11, ZenonT(30) DEF Crash, Stopped, TypeOK, Jobs
    <2>3. signal' = signal /\ pending' = pending /\ epoch' = epoch /\ pod' = pod /\ op' = op /\ Fault
        BY <1>11, Zenon DEF Crash, Stopped
    <2>4. UNCHANGED walVars /\ UNCHANGED sharedVars
        BY <1>11, Zenon DEF Crash
    <2> QED
        BY <2>1, <2>2, <2>3, <2>4, FaultType, ZenonT(30) DEF TypeOK, walVars, sharedVars, recordVars
  <1> QED
      BY <1>1, <1>2, <1>3, <1>4, <1>5, <1>6, <1>7, <1>8, <1>9, <1>10, <1>11, ZenonT(30) DEF Agent

LEMMA PostgresType == TypeOK /\ (Postgres \/ Expire) => TypeOK'
  <1> SUFFICES ASSUME TypeOK, Postgres \/ Expire PROVE TypeOK'
      BY ZenonT(30)
  <1>p. plan.writes \in Nat /\ plan.epochs \in Nat /\ plan.faults \in Nat
      BY ZenonT(30) DEF TypeOK, PlanType
  <1>1. ASSUME NEW m \in Members, Write(m) PROVE TypeOK'
    <2>0. written \in 0..plan.writes /\ written < plan.writes
        BY <1>1, ZenonT(30) DEF Write, TypeOK
    <2>1. written + 1 \in 1..plan.writes /\ written + 1 \in 0..plan.writes
        BY <1>p, <2>0, SMTT(30)
    <2>2. Append(wal[m], written + 1) \in Seq(1..plan.writes)
        BY <2>1, SMTT(30) DEF TypeOK
    <2>3. wal' \in [Members -> Seq(1..plan.writes)]
        BY <1>1, <2>2, ZenonT(30) DEF Write, TypeOK
    <2> QED
        BY <1>1, <2>1, <2>3, ZenonT(30) DEF Write, TypeOK, NoFault, agentVars, sharedVars, recordVars
  <1>2. ASSUME NEW m \in Members, Replicate(m) PROVE TypeOK'
    <2>1. src[m] \in Members
        BY <1>2, ZenonT(30) DEF Replicate, TypeOK, Maybe
    <2>2. SubSeq(wal[src[m]], 1, Len(wal[m]) + 1) \in Seq(1..plan.writes)
      <3> DEFINE s == wal[src[m]]  t == wal[m]
      <3>1. s \in Seq(1..plan.writes) /\ t \in Seq(1..plan.writes)
          BY <2>1, ZenonT(30) DEF TypeOK
      <3>2. Len(t) < Len(s)
          BY <1>2, ZenonT(30) DEF Replicate
      <3> HIDE DEF s, t
      <3>3. SubSeq(s, 1, Len(t) + 1) \in Seq(1..plan.writes)
        <4>1. Len(t) + 1 \in Nat /\ Len(t) + 1 <= Len(s)
            BY <3>1, <3>2, SMTT(30)
        <4> QED
            BY <3>1, <4>1, Beginning, ZenonT(30)
      <3> QED
          BY <3>3, ZenonT(30) DEF s, t
    <2>3. wal' \in [Members -> Seq(1..plan.writes)]
        BY <1>2, <2>2, ZenonT(30) DEF Replicate, TypeOK
    <2> QED
        BY <1>2, <2>3, ZenonT(30) DEF Replicate, TypeOK, NoFault, agentVars, sharedVars, recordVars
  <1>3. ASSUME NEW m \in Members, NEW p \in Members, Connect(m, p) PROVE TypeOK'
      BY <1>3, ZenonT(30) DEF Connect, TypeOK, Maybe, NoFault, walVars, sharedVars, recordVars
  <1>4. ASSUME NEW m \in Members, NEW c \in Commits(m), Ack(m, c) PROVE TypeOK'
    <2>1. c \in 1..plan.writes
      <3>1. wal[m] \in Seq(1..plan.writes) /\ c \in Range(wal[m])
          BY ZenonT(30) DEF TypeOK, Commits
      <3> QED
          BY <3>1, InWal, ZenonT(30)
    <2> QED
        BY <1>4, <2>1, ZenonT(30) DEF Ack, TypeOK, NoFault, agentVars, sharedVars, recordVars
  <1>5. CASE Expire
    <2>1. Fault \/ NoFault
        BY <1>5, ZenonT(30) DEF Expire
    <2>2. lease' \in [holder : Maybe \union {Operator}, expired : BOOLEAN]
        BY <1>5, ZenonT(30) DEF Expire, TypeOK
    <2> QED
        BY <1>5, <2>1, <2>2, FaultType, ZenonT(30) DEF Expire, TypeOK, walVars, agentVars, recordVars
  <1> QED
      BY <1>1, <1>2, <1>3, <1>4, <1>5, ZenonT(30) DEF Postgres

(* So does the operator's pass.                                            *)
LEMMA PassType == TypeOK /\ OpOK /\ Pass => TypeOK'
  <1> SUFFICES ASSUME TypeOK, OpOK, Pass PROVE TypeOK'
      BY ZenonT(30)
  <1>p. plan.writes \in Nat /\ plan.epochs \in Nat /\ plan.faults \in Nat
      BY ZenonT(30) DEF TypeOK, PlanType
  <1>i. Idle \in [pc : Steps, old : Maybe, planned : Maybe, cand : Maybe, epoch : 0..plan.epochs]
      BY <1>p, SMTT(30) DEF Idle, Steps, Maybe
  <1>o. Old \in Members
      BY ZenonT(30) DEF Old, TypeOK
  <1>c. ASSUME NEW ms, Create(ms) PROVE pod' \in [Members -> BOOLEAN] /\ job' \in [Members -> Jobs]
    <2>1. job' \in [Members -> Jobs]
        BY <1>c, ZenonT(30) DEF Create, TypeOK, Jobs
    <2>2. pod' \in [Members -> BOOLEAN]
        BY <1>c, Zenon DEF Create, TypeOK
    <2> QED
        BY <2>1, <2>2, ZenonT(30)
  <1>b. ASSUME BeginPass
        PROVE pod' \in [Members -> BOOLEAN] /\ job' \in [Members -> Jobs] /\ conf' \in Members
      BY <1>b, <1>c, <1>o, ZenonT(30) DEF BeginPass
  <1>1. CASE Observe
      BY <1>1, <1>b, ZenonT(30) DEF Observe, TypeOK, NoFault, walVars
  <1>2. CASE StartFailover
    <2>1. op' \in [pc : Steps, old : Maybe, planned : Maybe, cand : Maybe, epoch : 0..plan.epochs]
        BY <1>2, <1>i, <1>o, ZenonT(30) DEF StartFailover, Idle, Steps, Maybe
    <2> QED
        BY <1>2, <1>b, <2>1, FaultType, ZenonT(30) DEF StartFailover, TypeOK, walVars
  <1>3. CASE Fence
      BY <1>3, ZenonT(30) DEF Fence, FenceLease, HeldBy, TypeOK, Steps, Maybe, NoFault, walVars, agentVars
  <1>4. CASE FencePod
      BY <1>4, <1>o, ZenonT(30) DEF FencePod, Stopped, Unstream, TypeOK, Steps, Jobs, Maybe, NoFault, walVars,
                        sharedVars, recordVars
  <1>a. ASSUME NEW R, Answer(R) PROVE faults' \in 0..plan.faults /\ plan' = plan
      BY <1>a, FaultType, ZenonT(30) DEF Answer
  <1>5. ASSUME NEW R \in SUBSET Up, StillLive(R) PROVE TypeOK'
      BY <1>5, <1>a, <1>i, ZenonT(30) DEF StillLive, Abandon, Released, HeldBy, TypeOK, Maybe, walVars,
                              agentVars, recordVars
  <1>6. ASSUME NEW R \in SUBSET Up, NoCandidate(R) PROVE TypeOK'
      BY <1>6, <1>a, <1>c, <1>i, ZenonT(30) DEF NoCandidate, Abandon, Released, HeldBy, TypeOK, Maybe, walVars,
                                    recordVars
  <1>7. ASSUME NEW R \in SUBSET Up, Confirm(R) PROVE TypeOK'
    <2>1. NextEpoch(op.epoch) \in 0..plan.epochs
      <3>1. op.epoch \in 0..plan.epochs /\ status.epoch \in 0..plan.epochs
          BY ZenonT(30) DEF TypeOK
      <3> QED
          BY <1>7, <1>p, <3>1, SMTT(30) DEF Confirm, NextEpoch
    <2> QED
        BY <1>7, <1>a, <2>1, ZenonT(30) DEF Confirm, TypeOK, Steps, walVars, agentVars, sharedVars, recordVars
  <1>8. ASSUME NEW R \in SUBSET Up, LeaderChanged(R) PROVE TypeOK'
      BY <1>8, <1>a, <1>i, ZenonT(60) DEF LeaderChanged, Abandon, Released, HeldBy, TypeOK, Maybe, walVars,
                              agentVars, recordVars
  <1>9. ASSUME NEW R \in SUBSET Up, Repromote(R) PROVE TypeOK'
    <2>1. PromotionEpoch(Old) \in 0..plan.epochs
        BY <1>9, <1>p, <1>o, SMTT(30) DEF Repromote, PromotionEpoch, TypeOK
    <2>2. op' \in [pc : Steps, old : Maybe, planned : Maybe, cand : Maybe, epoch : 0..plan.epochs]
        BY <1>9, <2>1, <1>o, ZenonT(30) DEF Repromote, Idle, Steps, Maybe
    <2> QED
        BY <1>9, <1>a, <1>o, <2>2, ZenonT(30) DEF Repromote, TypeOK, walVars, agentVars
  <1>10. ASSUME NEW R \in SUBSET Up, NEW c \in Members, Quiesce(R, c) PROVE TypeOK'
    <2>1. plan' = plan /\ faults' \in 0..plan.faults
        BY <1>10, <1>a, FaultType, ZenonT(30) DEF Quiesce
    <2>2. epoch[c] \in 0..plan.epochs
        BY ZenonT(30) DEF TypeOK
    <2>3. op' \in [pc : Steps, old : Maybe, planned : Maybe, cand : Maybe, epoch : 0..plan.epochs]
        BY <1>10, <2>2, ZenonT(60) DEF Quiesce, TypeOK, Steps, Maybe
    <2> QED
        BY <1>10, <2>1, <2>3, ZenonT(30) DEF Quiesce, TypeOK, walVars, agentVars, sharedVars, recordVars
  <1>11. CASE PublishRow
      BY <1>11, ZenonT(30) DEF PublishRow, OpOK, TypeOK, Steps, NoFault, walVars, agentVars
  <1>12. CASE PublishStatus
      BY <1>12, ZenonT(30) DEF PublishStatus, OpOK, TypeOK, Steps, NoFault, walVars, agentVars
  <1>13. CASE PublishLease
      BY <1>13, ZenonT(30) DEF PublishLease, FenceLease, HeldBy, OpOK, TypeOK, Steps, Maybe, NoFault, walVars,
                   agentVars
  <1>14. CASE Promoted
      BY <1>14, <1>i, ZenonT(30) DEF Promoted, OpOK, TypeOK, NoFault, walVars, agentVars
  <1>15. CASE PromoteRefused \/ PassFails
      BY <1>15, <1>i, FaultType, ZenonT(30) DEF PromoteRefused, PassFails, TypeOK, walVars, agentVars, sharedVars,
                                    recordVars
  <1>16. CASE Relabel
      BY <1>16, <1>o, ZenonT(30) DEF Relabel, TypeOK, NoFault, walVars, agentVars
  <1>17. ASSUME NEW t \in Members, Switchover(t) PROVE TypeOK'
    <2>1. op' \in [pc : Steps, old : Maybe, planned : Maybe, cand : Maybe, epoch : 0..plan.epochs]
        BY <1>17, <1>i, <1>o, ZenonT(30) DEF Switchover, Steps, Maybe
    <2>2. lease' \in [holder : Maybe \union {Operator}, expired : BOOLEAN]
        BY <1>17, ZenonT(30) DEF Switchover, Released, HeldBy, TypeOK, Maybe
    <2> QED
        BY <1>17, <1>o, <2>1, <2>2, FaultType, ZenonT(60)
        DEF Switchover, Stopped, Unstream, TypeOK, Maybe, Jobs, walVars
  <1> QED
      BY <1>1, <1>2, <1>3, <1>4, <1>5, <1>6, <1>7, <1>8, <1>9, <1>10, <1>11, <1>12, <1>13, <1>14,
         <1>15, <1>16, <1>17, ZenonT(30)
      DEF Pass

LEMMA NextType == TypeOK /\ OpOK /\ [Next]_vars => TypeOK'
  <1>1. CASE UNCHANGED vars
      BY <1>1, ZenonT(30) DEF TypeOK, vars, walVars, agentVars, sharedVars, recordVars
  <1> QED
      BY <1>1, AgentType, PostgresType, PassType, ZenonT(30) DEF Next

-----------------------------------------------------------------------------
(* One writer.                                                             *)

(* The agents: a member boots as the primary only where the ConfigMap of a *)
(* running Pod names it, and is promoted only where it is designated.      *)
LEMMA AgentControl ==
  ASSUME TypeOK, Control, NEW m \in Members, Agent(m)
  PROVE  Control'
  <1>o. Old \in Members /\ conf \in Members /\ op' = op /\ status' = status /\ conf' = conf /\ pod' = pod
      BY ZenonT(30) DEF TypeOK, Old, Agent, Renew, SelfFence, BootStandby, BootPrimary, BootRejoin, Rejoin, PromoteAccept,
             PromoteAcquire, PromoteTurn, PromoteSetup, PromoteFails, Crash, agentVars, sharedVars, recordVars
  <1>1. OpOK' /\ ConfOK'
      BY <1>o, ZenonT(30) DEF Control, OpOK, ConfOK, Old
  <1>2. PodGone' /\ OnlyOld'
    <2>1. CASE Renew(m)
        BY <1>o, <2>1, ZenonT(30) DEF Renew, agentVars, Control, PodGone, OnlyOld, Old
    <2>2. CASE SelfFence(m)
        BY <1>o, <2>2, SMTT(30) DEF SelfFence, Stopped, TypeOK, Control, PodGone, OnlyOld, Old
    <2>9. CASE Crash(m)
        BY <1>o, <2>9, SMTT(30) DEF Crash, Stopped, TypeOK, Control, PodGone, OnlyOld, Old
    <2>3. CASE BootStandby(m)
        BY <1>o, <2>3, SMTT(30) DEF BootStandby, TypeOK, Control, PodGone, OnlyOld, Old
    <2>4. CASE BootPrimary(m)
        BY <1>o, <2>4, SMTT(30) DEF BootPrimary, TypeOK, Control, PodGone, OnlyOld, ConfOK, Old
    <2>5. CASE \E p \in Members : BootRejoin(m, p)
        BY <1>o, <2>5, SMTT(30) DEF BootRejoin, Rejoin, TypeOK, Control, PodGone, OnlyOld, Old
    <2>6. CASE PromoteAccept(m)
        BY <1>o, <2>6, SMTT(30) DEF PromoteAccept, TypeOK, Control, OpOK, PodGone, OnlyOld, Old
    <2>7. CASE PromoteAcquire(m)
        BY <1>o, <2>7, SMTT(30) DEF PromoteAcquire, TypeOK, Control, PodGone, OnlyOld, Old
    <2>10. CASE PromoteSetup(m)
        BY <1>o, <2>10, SMTT(30) DEF PromoteSetup, TypeOK, Control, PodGone, OnlyOld, Old
    <2>11. CASE PromoteFails(m)
        BY <1>o, <2>11, SMTT(30) DEF PromoteFails, TypeOK, Control, PodGone, OnlyOld, Old
    <2>8. CASE PromoteTurn(m)
        BY <1>o, <2>8, SMTT(30) DEF PromoteTurn, TypeOK, Control, PodGone, OnlyOld, Old
    <2> QED
        BY <2>1, <2>2, <2>3, <2>4, <2>5, <2>6, <2>7, <2>8, <2>9, <2>10, <2>11, ZenonT(30) DEF Agent
  <1> QED
      BY <1>1, <1>2, ZenonT(30) DEF Control

(* The pass: another member is designated only after the old primary was   *)
(* stopped with its Pod, and a Pod is created again only outside a pass.   *)
LEMMA PassControl ==
  ASSUME TypeOK, Control, Pass
  PROVE  Control'
  <1>o. Old \in Members /\ conf \in Members
      BY ZenonT(30) DEF TypeOK, Old
  <1>b. ASSUME NEW ms \in SUBSET Members, Create(ms), UNCHANGED <<pg, hold, status>>
        PROVE  PodGone' /\ OnlyOld' /\ \A m \in Members \ ms : pod'[m] = pod[m]
      BY <1>b, ZenonT(30) DEF Create, TypeOK, Control, PodGone, OnlyOld, Old
  <1>1. CASE Observe \/ StartFailover
    <2>1. PodGone' /\ OnlyOld'
        BY <1>1, <1>b, ZenonT(30) DEF Observe, StartFailover, BeginPass
    <2>2. conf' = Old /\ status' = status /\ op'.pc \in {"idle", "fence"}
        BY <1>1, ZenonT(30) DEF Observe, StartFailover, BeginPass, Idle
    <2>3. OpOK' /\ ConfOK'
        BY <2>2, ZenonT(30) DEF OpOK, ConfOK, Old
    <2> QED
        BY <2>1, <2>3, ZenonT(30) DEF Control
  <1>2. CASE Fence
      BY <1>2, ZenonT(30) DEF Fence, agentVars, TypeOK, Control, OpOK, PodGone, OnlyOld, ConfOK, Old
  <1>3. CASE FencePod
      BY <1>3, <1>o, SMTT(30) DEF FencePod, Stopped, sharedVars, recordVars, TypeOK, Control, OpOK, PodGone, OnlyOld,
                        ConfOK, Old
  <1>4. ASSUME NEW R \in SUBSET Up, StillLive(R) \/ LeaderChanged(R) PROVE Control'
      BY <1>4, SMTT(30) DEF StillLive, LeaderChanged, Abandon, Idle, agentVars, recordVars, Control, OpOK, PodGone,
                  OnlyOld, ConfOK, Old
  <1>5. ASSUME NEW R \in SUBSET Up, NoCandidate(R) PROVE Control'
    <2>1. PodGone' /\ OnlyOld' /\ \A m \in Members \ {Old} : pod'[m] = pod[m]
      <3> DEFINE ms == IF op.planned = None THEN {Old} ELSE {}
      <3>1. ms \in SUBSET Members /\ Members \ {Old} \subseteq Members \ ms
          BY <1>o, ZenonT(30)
      <3>2. Create(ms) /\ UNCHANGED <<pg, hold, status>>
          BY <1>5, ZenonT(30) DEF NoCandidate, recordVars
      <3> QED
          BY <3>1, <3>2, <1>b, ZenonT(30)
    <2>2. OpOK' /\ ConfOK'
        BY <1>5, <2>1, <1>o, ZenonT(30) DEF NoCandidate, Abandon, Idle, recordVars, Control, OpOK, ConfOK, Old
    <2> QED
        BY <2>1, <2>2, ZenonT(30) DEF Control
  <1>6. ASSUME NEW R \in SUBSET Up, Confirm(R) PROVE Control'
      BY <1>6, ZenonT(30) DEF Confirm, agentVars, sharedVars, recordVars, TypeOK, Control, OpOK, PodGone, OnlyOld, ConfOK, Old
  <1>7. ASSUME NEW R \in SUBSET Up, Repromote(R) PROVE Control'
      BY <1>7, <1>o, ZenonT(30) DEF Repromote, Idle, agentVars, Control, OpOK, PodGone, OnlyOld, ConfOK, Old
  <1>8. ASSUME NEW R \in SUBSET Up, NEW c \in Members, Quiesce(R, c) PROVE Control'
    <2>1. op'.pc = "fencePod" /\ op'.cand = c
        BY <1>8, ZenonT(30) DEF Quiesce, TypeOK
    <2> QED
        BY <1>8, <2>1, ZenonT(30) DEF Quiesce, agentVars, sharedVars, recordVars, Control, OpOK, PodGone, OnlyOld, ConfOK, Old
  <1>9. CASE PublishRow
      BY <1>9, ZenonT(30) DEF PublishRow, agentVars, TypeOK, Control, OpOK, PodGone, OnlyOld, ConfOK, Old
  <1>10. CASE PublishStatus
    <2>1. op.cand \in Members /\ status'.primary = op.cand /\ UNCHANGED <<pod, pg, job, hold, conf>>
        BY <1>10, ZenonT(30) DEF PublishStatus, agentVars, Control, OpOK
    <2>2. CASE op.cand = Old
        BY <1>10, <2>1, <2>2, ZenonT(30) DEF PublishStatus, TypeOK, Control, OpOK, PodGone, OnlyOld, ConfOK, Old
    <2>3. CASE ~pod[Old]
        BY <1>10, <1>o, <2>1, <2>3, SMTT(30) DEF PublishStatus, TypeOK, Control, OpOK, PodGone, OnlyOld, ConfOK, Old
    <2> QED
        BY <1>10, <2>2, <2>3, ZenonT(30) DEF PublishStatus, Control, OpOK
  <1>11. CASE PublishLease
      BY <1>11, ZenonT(30) DEF PublishLease, agentVars, TypeOK, Control, OpOK, PodGone, OnlyOld, ConfOK, Old
  <1>12. CASE Promoted
      BY <1>12, ZenonT(30) DEF Promoted, Idle, agentVars, Control, OpOK, PodGone, OnlyOld, ConfOK, Old
  <1>13. CASE PromoteRefused \/ PassFails
      BY <1>13, SMTT(30) DEF PromoteRefused, PassFails, Idle, agentVars, sharedVars, recordVars, Control, OpOK, PodGone,
                   OnlyOld, ConfOK, Old
  <1>14. CASE Relabel
      BY <1>14, ZenonT(30) DEF Relabel, agentVars, Control, OpOK, PodGone, OnlyOld, ConfOK, Old
  <1>15. ASSUME NEW t \in Members, Switchover(t) PROVE Control'
      BY <1>15, <1>o, SMTT(30) DEF Switchover, Stopped, Idle, TypeOK, Control, OpOK, PodGone, OnlyOld, ConfOK, Old
  <1> QED
      BY <1>1, <1>2, <1>3, <1>4, <1>5, <1>6, <1>7, <1>8, <1>9, <1>10, <1>11, <1>12, <1>13, <1>14, <1>15, ZenonT(30)
      DEF Pass

LEMMA NextControl == TypeOK /\ Control /\ [Next]_vars => Control'
  <1> SUFFICES ASSUME TypeOK, Control, [Next]_vars PROVE Control'
      BY ZenonT(30)
  <1>1. CASE Postgres \/ Expire \/ UNCHANGED vars
    <2>1. UNCHANGED <<pod, pg, job, hold, status, conf, op>>
        BY <1>1, ZenonT(30) DEF Postgres, Write, Replicate, Connect, Ack, Expire, vars, agentVars, sharedVars, recordVars
    <2> QED
        BY <2>1, ZenonT(30) DEF Control, OpOK, PodGone, OnlyOld, ConfOK, Old
  <1> QED
      BY <1>1, AgentControl, PassControl, ZenonT(30) DEF Next

-----------------------------------------------------------------------------
(* The epochs.                                                             *)

LEMMA NextEpochs ==
  TypeOK /\ EpochOK /\ FencePublishedFirst /\ [Next]_vars => EpochOK' /\ FencePublishedFirst'
  <1> SUFFICES ASSUME TypeOK, EpochOK, FencePublishedFirst, [Next]_vars
               PROVE  EpochOK' /\ FencePublishedFirst'
      BY ZenonT(30)
  <1> DEFINE Epochs == UNCHANGED <<epoch, row, status>>
  <1>n. /\ op \in [pc : Steps, old : Maybe, planned : Maybe, cand : Maybe, epoch : Nat]
        /\ status.epoch \in Nat /\ row.epoch \in Nat /\ epoch \in [Members -> Nat]
        /\ Old \in Members
      BY SMTT(30) DEF TypeOK, Old, PlanType
  <1>q. ASSUME Epochs, op' = op \/ op'.pc \in {"idle", "fence", "quiesce", "fencePod", "confirm"}
        PROVE  EpochOK' /\ FencePublishedFirst'
      BY <1>q, ZenonT(30) DEF EpochOK, FencePublishedFirst
  <1>1. ASSUME NEW m \in Members, PromoteAccept(m) PROVE EpochOK' /\ FencePublishedFirst'
      BY <1>1, <1>n, SMTT(30) DEF PromoteAccept, sharedVars, recordVars, EpochOK, FencePublishedFirst
  <1>2. ASSUME NEW m \in Members, Agent(m), ~PromoteAccept(m) PROVE Epochs /\ op' = op
      BY <1>2, ZenonT(30) DEF Agent, Renew, SelfFence, Stopped, BootStandby, BootPrimary, BootRejoin, Rejoin,
             PromoteAcquire, PromoteTurn, PromoteSetup, PromoteFails, Crash, agentVars, sharedVars, recordVars
  <1>3. CASE Postgres \/ Expire \/ UNCHANGED vars
    <2>1. Epochs /\ op' = op
        BY <1>3, ZenonT(30) DEF Postgres, Write, Replicate, Connect, Ack, Expire, vars, agentVars, sharedVars, recordVars
    <2> QED
        BY <2>1, <1>q, ZenonT(30)
  <1>4. CASE Observe \/ StartFailover \/ Fence \/ FencePod
    <2>1. Epochs /\ (op' = op \/ op'.pc \in {"fence", "quiesce", "confirm"})
        BY <1>4, <1>n, ZenonT(30) DEF Observe, StartFailover, Fence, FencePod, Stopped, Idle, agentVars, sharedVars, recordVars
    <2> QED
        BY <2>1, <1>q, ZenonT(30)
  <1>5. ASSUME NEW R, StillLive(R) \/ NoCandidate(R) \/ LeaderChanged(R)
        PROVE  EpochOK' /\ FencePublishedFirst'
    <2>1. Epochs /\ op'.pc = "idle"
        BY <1>5, SMTT(30) DEF StillLive, NoCandidate, LeaderChanged, Abandon, Idle, agentVars, recordVars
    <2> QED
        BY <2>1, <1>q, ZenonT(30)
  <1>6. ASSUME NEW R, NEW c, Quiesce(R, c) PROVE EpochOK' /\ FencePublishedFirst'
    <2>1. Epochs /\ op'.pc = "fencePod"
        BY <1>6, <1>n, ZenonT(30) DEF Quiesce, agentVars, sharedVars, recordVars
    <2> QED
        BY <2>1, <1>q, ZenonT(30)
  <1>7. ASSUME NEW R, Confirm(R) PROVE EpochOK' /\ FencePublishedFirst'
      BY <1>7, <1>n, SMTT(30) DEF Confirm, NextEpoch, agentVars, sharedVars, recordVars, EpochOK, FencePublishedFirst
  <1>8. ASSUME NEW R, Repromote(R) PROVE EpochOK' /\ FencePublishedFirst'
      BY <1>8, <1>n, SMTT(30) DEF Repromote, PromotionEpoch, Idle, agentVars, EpochOK, FencePublishedFirst
  <1>9. CASE PublishRow
      BY <1>9, <1>n, SMTT(30) DEF PublishRow, agentVars, EpochOK, FencePublishedFirst
  <1>10. CASE PublishStatus
      BY <1>10, <1>n, SMTT(30) DEF PublishStatus, agentVars, EpochOK, FencePublishedFirst
  <1>11. CASE PublishLease
      BY <1>11, <1>n, ZenonT(30) DEF PublishLease, agentVars, EpochOK, FencePublishedFirst
  <1>12. CASE Promoted \/ PromoteRefused \/ PassFails \/ Relabel \/ \E t \in Members : Switchover(t)
    <2>1. Epochs /\ (op' = op \/ op'.pc \in {"idle", "fence"})
      <3>1. CASE Promoted \/ PromoteRefused \/ PassFails \/ Relabel
          BY <3>1, SMTT(30) DEF Promoted, PromoteRefused, PassFails, Relabel, Idle, agentVars, sharedVars, recordVars
      <3>2. CASE \E t \in Members : Switchover(t)
          BY <3>2, ZenonT(30) DEF Switchover, Stopped, Idle
      <3> QED
          BY <1>12, <3>1, <3>2, ZenonT(30)
    <2> QED
        BY <2>1, <1>q, ZenonT(30)
  <1> QED
    <2>1. CASE \E m \in Members : Agent(m)
      <3> PICK m \in Members : Agent(m)
          BY <2>1, ZenonT(30)
      <3>1. CASE PromoteAccept(m)
          BY <3>1, <1>1, ZenonT(30)
      <3>2. CASE ~PromoteAccept(m)
        <4>1. Epochs /\ op' = op
            BY <3>2, <1>2, ZenonT(30)
        <4> QED
            BY <4>1, <1>q, ZenonT(30)
      <3> QED
          BY <3>1, <3>2, ZenonT(30)
    <2>2. CASE Pass
        BY <2>2, <1>4, <1>5, <1>6, <1>7, <1>8, <1>9, <1>10, <1>11, <1>12, ZenonT(30) DEF Pass
    <2> QED
        BY <1>3, <2>1, <2>2, ZenonT(30) DEF Next

-----------------------------------------------------------------------------
(* The WALs.                                                               *)

LEMMA PrefixFollows ==
  ASSUME NEW S, NEW s \in Seq(S), NEW t \in Seq(S), IsPrefix(s, t)
  PROVE  Follows(s, t)
  <1>1. Len(s) <= Len(t) /\ Len(s) \in Nat /\ SubSeq(s, 1, Len(s)) = SubSeq(t, 1, Len(s))
      BY SMTT(30) DEF IsPrefix
  <1>2. \A i \in 1..Len(s) : SubSeq(s, 1, Len(s))[i] = s[i]
      BY Beginning, SMTT(30)
  <1>3. \A i \in 1..Len(s) : SubSeq(t, 1, Len(s))[i] = t[i]
      BY <1>1, Beginning, ZenonT(30)
  <1> QED
      BY <1>1, <1>2, <1>3, ZenonT(30) DEF Follows

(* What one WAL has, a WAL it is the beginning of has too.                 *)
LEMMA FollowsHas ==
  ASSUME NEW S, NEW s \in Seq(S), NEW t \in Seq(S), Follows(s, t)
  PROVE  Range(s) \subseteq Range(t)
  <1> SUFFICES ASSUME NEW c \in Range(s) PROVE c \in Range(t)
      BY ZenonT(30)
  <1>1. PICK i \in 1..Len(s) : c = s[i]
      BY InWal, SMTT(30)
  <1>2. i \in 1..Len(t) /\ c = t[i]
      BY <1>1, SMTT(30) DEF Follows
  <1> QED
      BY <1>2, SMTT(30) DEF Range

(* A WAL that is written to, and one that receives the next commit.        *)
LEMMA Appended ==
  ASSUME NEW S, NEW s \in Seq(S), NEW x \in S
  PROVE  /\ Append(s, x) \in Seq(S) /\ Follows(s, Append(s, x))
         /\ \A t \in Seq(S) : Follows(t, s) => Follows(t, Append(s, x))
  BY SMTT(30) DEF Follows

LEMMA Received ==
  ASSUME NEW S, NEW s \in Seq(S), NEW t \in Seq(S), Follows(s, t), Len(s) < Len(t)
  PROVE  LET u == SubSeq(t, 1, Len(s) + 1)
         IN  u \in Seq(S) /\ Follows(s, u) /\ Follows(u, t)
  <1> DEFINE n == Len(s) + 1
  <1>1. n \in Nat /\ n <= Len(t)
      OBVIOUS
  <1>2. /\ SubSeq(t, 1, n) \in Seq(S) /\ Len(SubSeq(t, 1, n)) = n
        /\ \A i \in 1..n : SubSeq(t, 1, n)[i] = t[i]
    <2> HIDE DEF n
    <2> QED
        BY <1>1, Beginning, ZenonT(30)
  <1> QED
      BY <1>1, <1>2, SMTT(30) DEF Follows

(* A WAL only changes by a write, by replication or by becoming a copy of  *)
(* the primary's, and a stream ends with either of its two ends.           *)
LEMMA NextStream ==
  TypeOK /\ TypeOK' /\ Control /\ StreamOK /\ [Next]_vars => StreamOK'
  <1> SUFFICES ASSUME TypeOK, TypeOK', Control, StreamOK, [Next]_vars PROVE StreamOK'
      BY ZenonT(30)
  <1>t. /\ wal \in [Members -> Seq(1..plan.writes)] /\ pg \in [Members -> Running \union {"off"}]
        /\ src \in [Members -> Maybe] /\ Old \in Members
      BY ZenonT(30) DEF TypeOK, Old
  <1>s. ASSUME NEW m \in Members, NEW j, Stopped(m, j), wal' = wal PROVE StreamOK'
      BY <1>s, <1>t, MembersAssumption, ZenonT(30) DEF Stopped, Unstream, StreamOK, Maybe
  <1>k. ASSUME UNCHANGED <<wal, pg, src>> PROVE StreamOK'
      BY <1>k, ZenonT(30) DEF StreamOK
  <1>1. ASSUME NEW m \in Members, Write(m) PROVE StreamOK'
    <2>0. plan' = plan /\ written + 1 \in 1..plan.writes
      <3>1. plan.writes \in Nat /\ written \in 0..plan.writes /\ written < plan.writes
          BY <1>1, ZenonT(30) DEF TypeOK, PlanType, Write
      <3> QED
          BY <1>1, <3>1, SMTT(30) DEF Write, NoFault
    <2>1. wal' = [wal EXCEPT ![m] = Append(wal[m], written + 1)] /\ UNCHANGED <<pg, src>> /\ pg[m] = "primary"
        BY <1>1, ZenonT(30) DEF Write, agentVars
    <2>2. ASSUME NEW n \in Members, src[n] # None PROVE Follows(wal'[n], wal'[src[n]])
      <3>1. Follows(wal[n], wal[src[n]]) /\ n # m /\ src[n] \in Members
          BY <2>1, <2>2, <1>t, SMTT(30) DEF StreamOK, Maybe
      <3>2. wal'[n] = wal[n]
          BY <2>1, <3>1, <1>t, ZenonT(30)
      <3>3. CASE src[n] = m
        <4>1. wal'[m] = Append(wal[m], written + 1)
            BY <2>1, <1>t, ZenonT(30)
        <4>2. wal[m] \in Seq(1..plan.writes) /\ wal[n] \in Seq(1..plan.writes)
            BY <1>t, ZenonT(30)
        <4> QED
            BY <3>1, <3>2, <3>3, <4>1, <4>2, <2>0, Appended, ZenonT(30)
      <3>4. CASE src[n] # m
          BY <3>1, <3>2, <3>4, <2>1, <1>t, ZenonT(30)
      <3> QED
          BY <3>3, <3>4, ZenonT(30)
    <2> QED
        BY <2>1, <2>2, ZenonT(30) DEF StreamOK
  <1>2. ASSUME NEW m \in Members, Replicate(m) PROVE StreamOK'
    <2>1. /\ wal' = [wal EXCEPT ![m] = SubSeq(wal[src[m]], 1, Len(wal[m]) + 1)]
          /\ UNCHANGED <<pg, src>> /\ src[m] # None /\ Len(wal[m]) < Len(wal[src[m]])
        BY <1>2, ZenonT(30) DEF Replicate, agentVars
    <2>2. src[m] \in Members /\ pg[m] = "standby" /\ Follows(wal[m], wal[src[m]]) /\ src[m] # m
        BY <2>1, <1>t, SMTT(30) DEF StreamOK, Maybe
    <2>3. Follows(wal'[m], wal[src[m]])
        BY <2>1, <2>2, <1>t, Received, ZenonT(30)
    <2>4. ASSUME NEW n \in Members, src[n] # None PROVE Follows(wal'[n], wal'[src[n]])
      <3>1. Follows(wal[n], wal[src[n]]) /\ src[n] # m /\ src[n] \in Members
          BY <2>2, <2>4, <1>t, SMTT(30) DEF StreamOK, Maybe
      <3> QED
          BY <3>1, <2>1, <2>2, <2>3, <1>t, ZenonT(30)
    <2> QED
        BY <2>1, <2>4, ZenonT(30) DEF StreamOK
  <1>3. ASSUME NEW m \in Members, NEW p \in Members, Connect(m, p) PROVE StreamOK'
    <2>1. Follows(wal[m], wal[p])
      <3>1. wal[m] \in Seq(1..plan.writes) /\ wal[p] \in Seq(1..plan.writes) /\ IsPrefix(wal[m], wal[p])
          BY <1>3, <1>t, ZenonT(30) DEF Connect
      <3> QED
          BY <3>1, PrefixFollows, ZenonT(30)
    <2> QED
        BY <1>3, <1>t, <2>1, ZenonT(30) DEF Connect, walVars, StreamOK
  <1>4. ASSUME NEW m \in Members, NEW c \in Commits(m), Ack(m, c) PROVE StreamOK'
      BY <1>4, <1>k, ZenonT(30) DEF Ack, agentVars
  <1>5. CASE Expire \/ UNCHANGED vars
      BY <1>5, <1>k, ZenonT(30) DEF Expire, vars, walVars, agentVars
  <1>6. ASSUME NEW m \in Members, Agent(m) PROVE StreamOK'
    <2>1. CASE SelfFence(m) \/ Crash(m)
        BY <2>1, <1>s, ZenonT(30) DEF SelfFence, Crash, walVars
    <2>2. CASE BootStandby(m) \/ BootPrimary(m)
      <3>1. pg[m] = "off"
          BY <2>2, ZenonT(30) DEF BootStandby, BootPrimary, Control, PodGone
      <3>2. UNCHANGED <<wal, src>> /\ \E s \in {"standby", "primary"} : pg' = [pg EXCEPT ![m] = s]
          BY <2>2, ZenonT(30) DEF BootStandby, BootPrimary, walVars
      <3> QED
          BY <3>1, <3>2, <1>t, SMTT(30) DEF StreamOK, Maybe
    <2>3. CASE \E p \in Members : BootRejoin(m, p)
      <3>1. pg[m] = "off"
          BY <2>3, ZenonT(30) DEF BootRejoin, Control, PodGone
      <3>2. PICK s : wal' = [wal EXCEPT ![m] = s] /\ pg' = [pg EXCEPT ![m] = "standby"] /\ src' = src
          BY <2>3, ZenonT(30) DEF BootRejoin, Rejoin
      <3> QED
          BY <3>1, <3>2, <1>t, ZenonT(30) DEF StreamOK, Maybe
    <2>4. CASE PromoteTurn(m)
        BY <2>4, <1>t, ZenonT(30) DEF PromoteTurn, walVars, StreamOK, Maybe
    <2>5. CASE Renew(m) \/ PromoteAccept(m) \/ PromoteAcquire(m) \/ PromoteSetup(m) \/ PromoteFails(m)
        BY <2>5, <1>k, ZenonT(30) DEF Renew, PromoteAccept, PromoteAcquire, PromoteSetup, PromoteFails, walVars, agentVars
    <2> QED
        BY <1>6, <2>1, <2>2, <2>3, <2>4, <2>5, ZenonT(30) DEF Agent
  <1>7. CASE FencePod \/ \E t \in Members : Switchover(t)
      BY <1>7, <1>s, <1>t, ZenonT(30) DEF FencePod, Switchover, walVars
  <1>8. CASE Pass /\ ~FencePod /\ ~\E t \in Members : Switchover(t)
    <2>1. UNCHANGED <<wal, pg, src>>
        BY <1>8, ZenonT(30) DEF Pass, Observe, StartFailover, Fence, StillLive, NoCandidate, Confirm, LeaderChanged, Repromote,
                    Quiesce, PublishRow, PublishStatus, PublishLease, Promoted, PromoteRefused, PassFails, Relabel,
                    walVars, agentVars
    <2> QED
        BY <2>1, <1>k, ZenonT(30)
  <1> QED
      BY <1>1, <1>2, <1>3, <1>4, <1>5, <1>6, <1>7, <1>8, ZenonT(30) DEF Next, Postgres

(* Where every standby acknowledges, a commit a client is told of is in    *)
(* every member's WAL: all the others stream from its primary.             *)
LEMMA AckedByAll ==
  ASSUME TypeOK, StreamOK, Unanimous, NEW p \in Members, NEW c, Ack(p, c), NEW m \in Members
  PROVE  c \in Commits(m)
  <1> DEFINE A == Acknowledgers(p, c)
  <1>1. CASE m = p
      BY <1>1, ZenonT(30) DEF Ack
  <1>2. CASE m # p
    <2>1. A \subseteq Members \ {p}
        BY MembersAssumption, SMTT(30) DEF Acknowledgers, StreamOK, Ack
    <2>2. IsFiniteSet(Members \ {p}) /\ Cardinality(Members \ {p}) = Cardinality(Members) - 1
        BY MembersAssumption, FS_RemoveElement, ZenonT(30)
    <2>3. IsFiniteSet(A) /\ Cardinality(A) \in Nat /\ Cardinality(A) <= Cardinality(Members \ {p})
        BY <2>1, <2>2, FS_Subset, FS_CardinalityType, ZenonT(30)
    <2>4. Cardinality(A) = Cardinality(Members \ {p})
      <3>1. Cardinality(A) >= Cardinality(Members) - 1
          BY ZenonT(30) DEF Ack, Unanimous
      <3>2. Cardinality(Members \ {p}) \in Nat
          BY <2>2, FS_CardinalityType, ZenonT(30)
      <3> QED
          BY <2>2, <2>3, <3>1, <3>2, SMTT(30)
    <2>5. A = Members \ {p}
        BY <2>1, <2>2, <2>4, FS_Subset, ZenonT(30)
    <2> QED
        BY <1>2, <2>5, ZenonT(30) DEF Acknowledgers
  <1> QED
      BY <1>1, <1>2, ZenonT(30)

LEMMA NextAllHave ==
  TypeOK /\ StreamOK /\ AllHave /\ [Next]_vars => AllHave'
  <1> SUFFICES ASSUME TypeOK, StreamOK, AllHave, [Next]_vars, Unanimous'
               PROVE  (\A m \in Members : acked \subseteq Commits(m))'
      BY ZenonT(30) DEF AllHave
  <1>t. /\ wal \in [Members -> Seq(1..plan.writes)] /\ src \in [Members -> Maybe]
        /\ plan.writes \in Nat /\ written \in 0..plan.writes
      BY ZenonT(30) DEF TypeOK, PlanType
  <1>p. plan' = plan
      BY FaultType, ZenonT(30)
      DEF Next, Agent, Renew, SelfFence, BootStandby, BootPrimary, BootRejoin, PromoteAccept, PromoteAcquire,
          PromoteTurn, PromoteSetup, PromoteFails, Crash, Postgres, Write, Replicate, Connect, Ack, Expire, Pass,
          Answer, Observe, StartFailover, Fence, FencePod, StillLive, NoCandidate, Confirm, LeaderChanged, Repromote,
          Quiesce, PublishRow, PublishStatus, PublishLease, Promoted, PromoteRefused, PassFails, Relabel, Switchover,
          vars
  <1>u. Unanimous /\ \A m \in Members : acked \subseteq Commits(m)
      BY <1>p, ZenonT(30) DEF Unanimous, AllHave
  <1>k. ASSUME UNCHANGED <<wal, acked>> PROVE (\A m \in Members : acked \subseteq Commits(m))'
      BY <1>k, <1>u, ZenonT(30) DEF Commits
  <1>g. ASSUME NEW m \in Members, NEW s, wal' = [wal EXCEPT ![m] = s], acked' = acked, acked \subseteq Range(s)
        PROVE  (\A n \in Members : acked \subseteq Commits(n))'
      BY <1>g, <1>t, <1>u, ZenonT(30) DEF Commits
  <1>1. ASSUME NEW m \in Members, Write(m) PROVE (\A n \in Members : acked \subseteq Commits(n))'
    <2>1. wal[m] \in Seq(1..plan.writes) /\ written + 1 \in 1..plan.writes
        BY <1>1, <1>t, SMTT(30) DEF Write
    <2> DEFINE u == Append(wal[m], written + 1)
    <2>2. u \in Seq(1..plan.writes) /\ Follows(wal[m], u)
        BY <2>1, Appended, ZenonT(30)
    <2>3. wal' = [wal EXCEPT ![m] = u] /\ acked' = acked
        BY <1>1, ZenonT(30) DEF Write
    <2> HIDE DEF u
    <2>4. Range(wal[m]) \subseteq Range(u)
        BY <2>1, <2>2, FollowsHas, ZenonT(30)
    <2> QED
        BY <2>3, <2>4, <1>u, <1>g, ZenonT(30) DEF Commits
  <1>2. ASSUME NEW m \in Members, Replicate(m) PROVE (\A n \in Members : acked \subseteq Commits(n))'
    <2> DEFINE u == SubSeq(wal[src[m]], 1, Len(wal[m]) + 1)
    <2>1. src[m] \in Members /\ Follows(wal[m], wal[src[m]]) /\ Len(wal[m]) < Len(wal[src[m]])
        BY <1>2, <1>t, ZenonT(30) DEF Replicate, StreamOK, Maybe
    <2>2. wal[m] \in Seq(1..plan.writes) /\ wal[src[m]] \in Seq(1..plan.writes)
        BY <2>1, <1>t, ZenonT(30)
    <2>3. u \in Seq(1..plan.writes) /\ Follows(wal[m], u)
        BY <2>1, <2>2, Received, ZenonT(30)
    <2>4. wal' = [wal EXCEPT ![m] = u] /\ acked' = acked
        BY <1>2, ZenonT(30) DEF Replicate
    <2> HIDE DEF u
    <2>5. Range(wal[m]) \subseteq Range(u)
        BY <2>2, <2>3, FollowsHas, ZenonT(30)
    <2> QED
        BY <2>4, <2>5, <1>u, <1>g, ZenonT(30) DEF Commits
  <1>3. ASSUME NEW m \in Members, NEW c \in Commits(m), Ack(m, c)
        PROVE  (\A n \in Members : acked \subseteq Commits(n))'
    <2>1. \A n \in Members : c \in Commits(n)
        BY <1>3, <1>u, AckedByAll, ZenonT(30)
    <2> QED
        BY <1>3, <1>u, <2>1, ZenonT(30) DEF Ack, Commits
  <1>4. ASSUME NEW m \in Members, NEW p \in Members, BootRejoin(m, p)
        PROVE  (\A n \in Members : acked \subseteq Commits(n))'
    <2>1. wal' = [wal EXCEPT ![m] = wal[p]] /\ acked' = acked
        BY <1>4, ZenonT(30) DEF BootRejoin, Rejoin
    <2> QED
        BY <2>1, <1>u, <1>g, ZenonT(30) DEF Commits
  <1>5. ASSUME NEW m \in Members, Agent(m), ~\E p \in Members : BootRejoin(m, p) PROVE UNCHANGED <<wal, acked>>
      BY <1>5, ZenonT(30) DEF Agent, Renew, SelfFence, BootStandby, BootPrimary, PromoteAccept, PromoteAcquire,
                  PromoteTurn, PromoteSetup, PromoteFails, Crash, walVars
  <1>6. CASE Pass \/ Expire \/ UNCHANGED vars \/ \E m, p \in Members : Connect(m, p)
    <2>1. UNCHANGED <<wal, acked>>
        BY <1>6, ZenonT(30) DEF Pass, Observe, StartFailover, Fence, FencePod, StillLive, NoCandidate, Confirm, LeaderChanged,
                    Repromote, Quiesce, PublishRow, PublishStatus, PublishLease, Promoted, PromoteRefused, PassFails,
                    Relabel, Switchover, Expire, Connect, vars, walVars
    <2> QED
        BY <2>1, <1>k, ZenonT(30)
  <1>7. CASE \E m \in Members : Agent(m)
      BY <1>7, <1>4, <1>5, <1>k, ZenonT(30)
  <1>8. CASE Postgres
      BY <1>8, <1>1, <1>2, <1>3, <1>6, ZenonT(30) DEF Postgres
  <1> QED
      BY <1>6, <1>7, <1>8, ZenonT(30) DEF Next

-----------------------------------------------------------------------------
(* The theorems.                                                           *)

LEMMA InitInv == Init => IInv
  <1> SUFFICES ASSUME Init PROVE IInv
      BY ZenonT(30)
  <1>1. TypeOK
      BY InitType, ZenonT(30)
  <1>2. Control
      BY MembersAssumption, ZenonT(30) DEF Init, Control, OpOK, PodGone, OnlyOld, ConfOK, Idle, Old
  <1>3. EpochOK /\ FencePublishedFirst
      BY SMTT(30) DEF Init, EpochOK, FencePublishedFirst, Idle
  <1>4. StreamOK
      BY MembersAssumption, SMTT(30) DEF Init, StreamOK, Follows
  <1>5. AllHave
      BY ZenonT(30) DEF Init, AllHave
  <1> QED
      BY <1>1, <1>2, <1>3, <1>4, <1>5, ZenonT(30) DEF IInv

(* The invariant of the failover: types, who may become writable, the      *)
(* epochs, the streams and, where every standby acknowledges, the WALs.    *)
THEOREM Invariance == Spec => []IInv
  <1>1. IInv /\ [Next]_vars => IInv'
    <2> SUFFICES ASSUME IInv, [Next]_vars PROVE IInv'
        BY ZenonT(30)
    <2>1. TypeOK'
        BY NextType, ZenonT(30) DEF IInv, Control
    <2>2. Control'
        BY NextControl, ZenonT(30) DEF IInv
    <2>3. EpochOK' /\ FencePublishedFirst'
        BY NextEpochs, ZenonT(30) DEF IInv
    <2>4. StreamOK'
        BY <2>1, NextStream, ZenonT(30) DEF IInv
    <2>5. AllHave'
        BY NextAllHave, ZenonT(30) DEF IInv
    <2> QED
        BY <2>1, <2>2, <2>3, <2>4, <2>5, ZenonT(30) DEF IInv
  <1> QED
      BY InitInv, <1>1, PTL DEF Spec

(* No split brain, in a group of any size and whatever agents, passes and  *)
(* PostgreSQL fail: fencePod stops the old primary before the status names *)
(* another, and only the member the status names is ever promoted.         *)
THEOREM NoSplitBrain == Spec => []OneWriter
  <1>1. IInv => OneWriter
      BY ZenonT(30) DEF IInv, Control, OnlyOld, OneWriter
  <1> QED
      BY Invariance, <1>1, PTL

(* publishFence goes first, whatever fails after it: no agent has accepted *)
(* an epoch that the status and the catalog row do not carry.              *)
THEOREM PublishedFirst == Spec => []FencePublishedFirst
  <1>1. IInv => FencePublishedFirst
      BY ZenonT(30) DEF IInv
  <1> QED
      BY Invariance, <1>1, PTL

(* Durability of a group all of whose standbys acknowledge: a designated   *)
(* primary that serves has every commit a client was told of, through any  *)
(* number of failovers, switchovers and promotions begun again.            *)
THEOREM UnanimousSurvives == Spec => [](Unanimous => AckedSurvive)
  <1>1. IInv => (Unanimous => AckedSurvive)
      BY ZenonT(30) DEF IInv, AllHave, AckedSurvive
  <1> QED
      BY Invariance, <1>1, PTL
=============================================================================
