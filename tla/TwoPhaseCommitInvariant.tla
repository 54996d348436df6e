----------------------- MODULE TwoPhaseCommitInvariant -----------------------
(***************************************************************************)
(* Type correctness of the two-phase commit, its inductive invariant, the  *)
(* frame lemmas that carry the invariant past a step about one transaction *)
(* or one resolver pass, and the steps of the passes and of the shards.    *)
(***************************************************************************)
EXTENDS TwoPhaseCommit, TLAPS

LEMMA TypeInit == Init => TypeOK
  BY TxnsAssumption, WritersAssumption, ScopeAssumption, FaultsAssumption, SMTT(30)
  DEF Init, TypeOK, LogTypes, ShardTypes, CoordTypes, PassTypes,
      RowStates, PartStates, CoordSteps, Acks, Replies, Decisions

(* The building blocks of the actions keep the types of what they assign. *)
LEMMA IssueType ==
  ASSUME TypeOK, NEW t \in Txns, NEW step \in CoordSteps, NEW S \in SUBSET Shards,
         NEW verb \in [Shards -> Verbs], Issue(t, step, S, verb)
  PROVE  /\ pc' \in [Txns -> CoordSteps]
         /\ ack' \in [Txns -> [Shards -> Acks]]
         /\ net' \subseteq Messages
  BY SMTT(30) DEF Issue, TypeOK, ShardTypes, CoordTypes, Msg, Messages, Acks

LEMMA AnswerType ==
  ASSUME TypeOK, NEW t \in Txns, NEW a \in Replies, Answer(t, a)
  PROVE  CoordTypes'
  BY ZenonT(30) DEF Answer, All, TypeOK, CoordTypes, Acks, CoordSteps

LEMMA StreamLostType ==
  ASSUME TypeOK, NEW t \in Txns, NEW s \in Shards, StreamLost(t, s), UNCHANGED <<pc, reply>>
  PROVE  CoordTypes'
  BY ZenonT(30) DEF StreamLost, TypeOK, CoordTypes, Acks

LEMMA LogRunType ==
  ASSUME TypeOK, NEW t \in Txns, NEW stmt \in LogStatements, RunStatement(t, stmt)
  PROVE  /\ row' \in [Txns -> RowStates]
         /\ stale' \in [Txns -> BOOLEAN]
         /\ verdict' \in [Txns -> {"none"} \cup Decisions]
  <1>1. RowAfter(stmt, row[t], stale[t]) \in RowStates
    BY ZenonT(30) DEF RowAfter, Leaves, RowStates, Decisions, TypeOK, LogTypes
  <1>2. QED
    BY <1>1, ZenonT(30) DEF RunStatement, TypeOK, LogTypes, RowStates

LEMMA LogCallType ==
  ASSUME TypeOK, NEW t \in Txns, NEW stmt \in LogStatements,
         LogRun(t, stmt) \/ LogLost(t, stmt)
  PROVE  LogTypes'
  BY LogRunType, SMTT(30) DEF LogRun, LogLost, TypeOK, LogTypes

LEMMA PartAfterType ==
  ASSUME NEW verb, NEW p \in PartStates
  PROVE  PartAfter(verb, p) \in PartStates
  BY ZenonT(30) DEF PartAfter, PartStates

LEMMA FaultType == TypeOK /\ (Fault \/ NoFault) => faults' \in 0 .. MaxFaults
  BY FaultsAssumption, SMTT(30) DEF TypeOK, Fault, NoFault

LEMMA NextDecisionType ==
  ASSUME TypeOK, NEW r \in Resolvers, NEW t \in Txns, NextDecision(r, t),
         UNCHANGED <<rseen, runscanned, rheld, rfull>>
  PROVE  PassTypes'
  BY ZenonT(30) DEF NextDecision, TypeOK, PassTypes, Decisions

LEMMA FinishAsType ==
  ASSUME TypeOK, NEW r \in Resolvers, NEW t \in Txns, NEW d \in Decisions,
         NEW keep \in BOOLEAN, FinishAs(r, t, d, keep),
         UNCHANGED <<rseen, runscanned, rheld, rfull>>
  PROVE  PassTypes'
  BY ZenonT(30) DEF FinishAs, TypeOK, PassTypes

LEMMA FinishType ==
  ASSUME TypeOK, NEW r \in Resolvers, NEW s \in Shards,
         FinishRuns(r, s) \/ FinishLost(r, s)
  PROVE  ShardTypes'
  <1>1. rcur[r] \in Txns /\ FinishVerb(rstate[r] = "commit") \in Verbs
    BY ZenonT(30) DEF TypeOK, PassTypes, FinishVerb, Verbs
  <1>2. CASE FinishRuns(r, s)
    BY <1>1, <1>2, PartAfterType, ZenonT(30) DEF FinishRuns, TypeOK, ShardTypes
  <1>3. CASE FinishLost(r, s)
    BY <1>1, <1>3, SMTT(30) DEF FinishLost, Msg, Messages, TypeOK, ShardTypes
  <1>4. QED
    BY <1>2, <1>3, ZenonT(30)

(* Every action keeps every variable's type: TypeOK is inductive on its own. *)
LEMMA CollectXidsTypes ==
  ASSUME TypeOK, NEW t \in Txns, CollectXids(t)
  PROVE  TypeOK'
  <1>1. LogTypes'
    BY ZenonT(30) DEF TypeOK, LogTypes, logVars, CollectXids
  <1>2. ShardTypes'
    BY Zenon, IssueType, WritersAssumption DEF TypeOK, ShardTypes, CollectXids, All, CoordSteps, Verbs
  <1>3. CoordTypes'
    BY Zenon, IssueType, WritersAssumption DEF TypeOK, CoordTypes, CollectXids, All, CoordSteps, Verbs
  <1>4. PassTypes'
    BY ZenonT(30) DEF TypeOK, PassTypes, passVars, CollectXids
  <1>5. faults' \in 0 .. MaxFaults
    BY FaultType, ZenonT(30) DEF CollectXids, NoFault, Fault
  <1>6. QED
    BY <1>1, <1>2, <1>3, <1>4, <1>5, ZenonT(30) DEF TypeOK

LEMMA LogBeginTypes ==
  ASSUME TypeOK, NEW t \in Txns, LogBegin(t)
  PROVE  TypeOK'
  <1>1. LogTypes'
    BY LogCallType, ZenonT(30) DEF TypeOK, LogTypes, LogBegin, LogStatements
  <1>2. ShardTypes'
    BY Zenon, IssueType, WritersAssumption DEF TypeOK, ShardTypes, LogBegin, All, CoordSteps, Verbs
  <1>3. CoordTypes'
    BY Zenon, IssueType, WritersAssumption DEF TypeOK, CoordTypes, LogBegin, All, CoordSteps, Verbs
  <1>4. PassTypes'
    BY ZenonT(30) DEF TypeOK, PassTypes, passVars, LogBegin
  <1>5. faults' \in 0 .. MaxFaults
    BY FaultType, ZenonT(30) DEF LogBegin, NoFault, LogRun, LogLost
  <1>6. QED
    BY <1>1, <1>2, <1>3, <1>4, <1>5, ZenonT(30) DEF TypeOK

LEMMA QuitDoneTypes ==
  ASSUME TypeOK, NEW t \in Txns, QuitDone(t)
  PROVE  TypeOK'
  <1>1. LogTypes'
    BY ZenonT(30) DEF TypeOK, LogTypes, logVars, QuitDone
  <1>2. ShardTypes'
    BY ZenonT(30) DEF TypeOK, ShardTypes, QuitDone
  <1>3. CoordTypes'
    BY AnswerType, ZenonT(30) DEF TypeOK, CoordTypes, QuitDone, Replies
  <1>4. PassTypes'
    BY ZenonT(30) DEF TypeOK, PassTypes, passVars, QuitDone
  <1>5. faults' \in 0 .. MaxFaults
    BY FaultType, ZenonT(30) DEF QuitDone, NoFault
  <1>6. QED
    BY <1>1, <1>2, <1>3, <1>4, <1>5, ZenonT(30) DEF TypeOK

LEMMA PrepareDoneTypes ==
  ASSUME TypeOK, NEW t \in Txns, PrepareDone(t)
  PROVE  TypeOK'
  <1>1. LogTypes'
    BY ZenonT(30) DEF TypeOK, LogTypes, logVars, PrepareDone
  <1>2. ShardTypes'
    BY Zenon, IssueType, WritersAssumption DEF TypeOK, ShardTypes, PrepareDone, CoordSteps, Verbs
  <1>3. CoordTypes'
    BY Zenon, IssueType, WritersAssumption DEF TypeOK, CoordTypes, PrepareDone, CoordSteps, Verbs
  <1>4. PassTypes'
    BY ZenonT(30) DEF TypeOK, PassTypes, passVars, PrepareDone
  <1>5. faults' \in 0 .. MaxFaults
    BY FaultType, ZenonT(30) DEF PrepareDone, NoFault
  <1>6. QED
    BY <1>1, <1>2, <1>3, <1>4, <1>5, ZenonT(30) DEF TypeOK

LEMMA UndoDoneTypes ==
  ASSUME TypeOK, NEW t \in Txns, UndoDone(t)
  PROVE  TypeOK'
  <1>1. LogTypes'
    BY ZenonT(30) DEF TypeOK, LogTypes, logVars, UndoDone
  <1>2. ShardTypes'
    BY ZenonT(30) DEF TypeOK, ShardTypes, UndoDone
  <1>3. CoordTypes'
    BY ZenonT(30) DEF TypeOK, CoordTypes, UndoDone, CoordSteps
  <1>4. PassTypes'
    BY ZenonT(30) DEF TypeOK, PassTypes, passVars, UndoDone
  <1>5. faults' \in 0 .. MaxFaults
    BY FaultType, ZenonT(30) DEF UndoDone, NoFault
  <1>6. QED
    BY <1>1, <1>2, <1>3, <1>4, <1>5, ZenonT(30) DEF TypeOK

LEMMA LogAbortTypes ==
  ASSUME TypeOK, NEW t \in Txns, LogAbort(t)
  PROVE  TypeOK'
  <1>1. LogTypes'
    BY LogCallType, ZenonT(30) DEF TypeOK, LogTypes, LogAbort, LogStatements
  <1>2. ShardTypes'
    BY ZenonT(30) DEF TypeOK, ShardTypes, LogAbort
  <1>3. CoordTypes'
    BY AnswerType, ZenonT(30) DEF TypeOK, CoordTypes, LogAbort, Replies, CoordSteps
  <1>4. PassTypes'
    BY ZenonT(30) DEF TypeOK, PassTypes, passVars, LogAbort
  <1>5. faults' \in 0 .. MaxFaults
    BY FaultType, ZenonT(30) DEF LogAbort, NoFault, LogRun, LogLost
  <1>6. QED
    BY <1>1, <1>2, <1>3, <1>4, <1>5, ZenonT(30) DEF TypeOK

LEMMA LogCommitTypes ==
  ASSUME TypeOK, NEW t \in Txns, LogCommit(t)
  PROVE  TypeOK'
  <1>1. LogTypes'
    BY LogCallType, ZenonT(30) DEF TypeOK, LogTypes, LogCommit, LogStatements
  <1>2. ShardTypes'
    BY Zenon, IssueType, WritersAssumption DEF TypeOK, ShardTypes, LogCommit, All, CoordSteps, Verbs
  <1>3. CoordTypes'
    <2>1. CASE Answer(t, "inDoubt")
      BY <2>1, AnswerType, ZenonT(30) DEF Replies
    <2>2. CASE UNCHANGED <<reply, broken>> /\ Issue(t, "applyLead", {Lead[t]}, All("commitPrepared"))
      BY Zenon, <2>2, IssueType, WritersAssumption DEF TypeOK, CoordTypes, All, CoordSteps, Verbs
    <2>3. CASE UNCHANGED <<reply, broken>> /\ Issue(t, "retract", Writers[t], All("rollbackPrepared"))
      BY Zenon, <2>3, IssueType, WritersAssumption DEF TypeOK, CoordTypes, All, CoordSteps, Verbs
    <2>4. QED
      BY <2>1, <2>2, <2>3, ZenonT(30) DEF LogCommit
  <1>4. PassTypes'
    BY ZenonT(30) DEF TypeOK, PassTypes, passVars, LogCommit
  <1>5. faults' \in 0 .. MaxFaults
    BY FaultType, ZenonT(30) DEF LogCommit, NoFault, LogRun, LogLost
  <1>6. QED
    BY <1>1, <1>2, <1>3, <1>4, <1>5, ZenonT(30) DEF TypeOK

LEMMA RetractDoneTypes ==
  ASSUME TypeOK, NEW t \in Txns, RetractDone(t)
  PROVE  TypeOK'
  <1>1. LogTypes'
    BY ZenonT(30) DEF TypeOK, LogTypes, logVars, RetractDone
  <1>2. ShardTypes'
    BY ZenonT(30) DEF TypeOK, ShardTypes, RetractDone
  <1>3. CoordTypes'
    BY AnswerType, ZenonT(30) DEF TypeOK, CoordTypes, RetractDone, Replies
  <1>4. PassTypes'
    BY ZenonT(30) DEF TypeOK, PassTypes, passVars, RetractDone
  <1>5. faults' \in 0 .. MaxFaults
    BY FaultType, ZenonT(30) DEF RetractDone, NoFault
  <1>6. QED
    BY <1>1, <1>2, <1>3, <1>4, <1>5, ZenonT(30) DEF TypeOK

LEMMA ApplyLeadDoneTypes ==
  ASSUME TypeOK, NEW t \in Txns, ApplyLeadDone(t)
  PROVE  TypeOK'
  <1>1. LogTypes'
    BY ZenonT(30) DEF TypeOK, LogTypes, logVars, ApplyLeadDone
  <1>2. ShardTypes'
    BY Zenon, IssueType, WritersAssumption DEF TypeOK, ShardTypes, ApplyLeadDone, All, CoordSteps, Verbs
  <1>3. CoordTypes'
    BY Zenon, IssueType, WritersAssumption DEF TypeOK, CoordTypes, ApplyLeadDone, All, CoordSteps, Verbs
  <1>4. PassTypes'
    BY ZenonT(30) DEF TypeOK, PassTypes, passVars, ApplyLeadDone
  <1>5. faults' \in 0 .. MaxFaults
    BY FaultType, ZenonT(30) DEF ApplyLeadDone, NoFault
  <1>6. QED
    BY <1>1, <1>2, <1>3, <1>4, <1>5, ZenonT(30) DEF TypeOK

LEMMA ApplyDoneTypes ==
  ASSUME TypeOK, NEW t \in Txns, ApplyDone(t)
  PROVE  TypeOK'
  <1>1. LogTypes'
    BY ZenonT(30) DEF TypeOK, LogTypes, logVars, ApplyDone
  <1>2. ShardTypes'
    BY ZenonT(30) DEF TypeOK, ShardTypes, ApplyDone
  <1>3. CoordTypes'
    BY AnswerType, ZenonT(30) DEF TypeOK, CoordTypes, ApplyDone, Replies, CoordSteps
  <1>4. PassTypes'
    BY ZenonT(30) DEF TypeOK, PassTypes, passVars, ApplyDone
  <1>5. faults' \in 0 .. MaxFaults
    BY FaultType, ZenonT(30) DEF ApplyDone, NoFault
  <1>6. QED
    BY <1>1, <1>2, <1>3, <1>4, <1>5, ZenonT(30) DEF TypeOK

LEMMA LogDeleteTypes ==
  ASSUME TypeOK, NEW t \in Txns, LogDelete(t)
  PROVE  TypeOK'
  <1>1. LogTypes'
    BY LogCallType, ZenonT(30) DEF TypeOK, LogTypes, LogDelete, LogStatements
  <1>2. ShardTypes'
    BY ZenonT(30) DEF TypeOK, ShardTypes, LogDelete
  <1>3. CoordTypes'
    BY AnswerType, ZenonT(30) DEF TypeOK, CoordTypes, LogDelete, Replies
  <1>4. PassTypes'
    BY ZenonT(30) DEF TypeOK, PassTypes, passVars, LogDelete
  <1>5. faults' \in 0 .. MaxFaults
    BY FaultType, ZenonT(30) DEF LogDelete, NoFault, LogRun, LogLost
  <1>6. QED
    BY <1>1, <1>2, <1>3, <1>4, <1>5, ZenonT(30) DEF TypeOK

LEMMA HeartbeatTypes ==
  ASSUME TypeOK, NEW t \in Txns, Heartbeat(t)
  PROVE  TypeOK'
  <1>1. LogTypes'
    BY ZenonT(30) DEF TypeOK, LogTypes, Heartbeat
  <1>2. ShardTypes'
    BY ZenonT(30) DEF TypeOK, ShardTypes, Heartbeat
  <1>3. CoordTypes'
    BY ZenonT(30) DEF TypeOK, CoordTypes, coordVars, Heartbeat
  <1>4. PassTypes'
    BY ZenonT(30) DEF TypeOK, PassTypes, passVars, Heartbeat
  <1>5. faults' \in 0 .. MaxFaults
    BY FaultType, ZenonT(30) DEF Heartbeat, NoFault
  <1>6. QED
    BY <1>1, <1>2, <1>3, <1>4, <1>5, ZenonT(30) DEF TypeOK

LEMMA AgeTypes ==
  ASSUME TypeOK, NEW t \in Txns, Age(t)
  PROVE  TypeOK'
  <1>1. LogTypes'
    BY ZenonT(30) DEF TypeOK, LogTypes, Age
  <1>2. ShardTypes'
    BY ZenonT(30) DEF TypeOK, ShardTypes, Age
  <1>3. CoordTypes'
    BY ZenonT(30) DEF TypeOK, CoordTypes, coordVars, Age
  <1>4. PassTypes'
    BY ZenonT(30) DEF TypeOK, PassTypes, passVars, Age
  <1>5. faults' \in 0 .. MaxFaults
    BY FaultType, ZenonT(30) DEF Age, NoFault
  <1>6. QED
    BY <1>1, <1>2, <1>3, <1>4, <1>5, ZenonT(30) DEF TypeOK

LEMMA CrashTypes ==
  ASSUME TypeOK, NEW t \in Txns, Crash(t)
  PROVE  TypeOK'
  <1>1. LogTypes'
    BY ZenonT(30) DEF TypeOK, LogTypes, Crash, InFlight, LogStatements
  <1>2. ShardTypes'
    BY ZenonT(30) DEF TypeOK, ShardTypes, Crash
  <1>3. CoordTypes'
    BY ZenonT(30) DEF TypeOK, CoordTypes, Crash, All, Acks, CoordSteps
  <1>4. PassTypes'
    BY ZenonT(30) DEF TypeOK, PassTypes, passVars, Crash
  <1>5. faults' \in 0 .. MaxFaults
    BY FaultType, ZenonT(30) DEF Crash, NoFault
  <1>6. QED
    BY <1>1, <1>2, <1>3, <1>4, <1>5, ZenonT(30) DEF TypeOK

LEMMA LateLogTypes ==
  ASSUME TypeOK, NEW t \in Txns, NEW stmt \in LogStatements, LateLog(t, stmt)
  PROVE  TypeOK'
  <1>1. LogTypes'
    BY LogRunType, ZenonT(30) DEF TypeOK, LogTypes, LateLog
  <1>2. ShardTypes'
    BY ZenonT(30) DEF TypeOK, ShardTypes, LateLog
  <1>3. CoordTypes'
    BY ZenonT(30) DEF TypeOK, CoordTypes, coordVars, LateLog
  <1>4. PassTypes'
    BY ZenonT(30) DEF TypeOK, PassTypes, passVars, LateLog
  <1>5. faults' \in 0 .. MaxFaults
    BY FaultType, ZenonT(30) DEF LateLog, NoFault
  <1>6. QED
    BY <1>1, <1>2, <1>3, <1>4, <1>5, ZenonT(30) DEF TypeOK

LEMMA LateLogDroppedTypes ==
  ASSUME TypeOK, NEW t \in Txns, NEW stmt \in LogStatements, LateLogDropped(t, stmt)
  PROVE  TypeOK'
  <1>1. LogTypes'
    BY ZenonT(30) DEF TypeOK, LogTypes, LateLogDropped
  <1>2. ShardTypes'
    BY ZenonT(30) DEF TypeOK, ShardTypes, LateLogDropped
  <1>3. CoordTypes'
    BY ZenonT(30) DEF TypeOK, CoordTypes, coordVars, LateLogDropped
  <1>4. PassTypes'
    BY ZenonT(30) DEF TypeOK, PassTypes, passVars, LateLogDropped
  <1>5. faults' \in 0 .. MaxFaults
    BY FaultType, ZenonT(30) DEF LateLogDropped, NoFault
  <1>6. QED
    BY <1>1, <1>2, <1>3, <1>4, <1>5, ZenonT(30) DEF TypeOK

LEMMA ExecuteTypes ==
  ASSUME TypeOK, NEW m \in net, Execute(m)
  PROVE  TypeOK'
  <1>1. LogTypes'
    BY ZenonT(30) DEF TypeOK, LogTypes, logVars, Execute
  <1>2. ShardTypes'
    BY PartAfterType, ZenonT(30) DEF TypeOK, ShardTypes, Execute, Messages
  <1>3. CoordTypes'
    BY ZenonT(30) DEF TypeOK, CoordTypes, Execute, ShardTypes, Messages, Acks
  <1>4. PassTypes'
    BY ZenonT(30) DEF TypeOK, PassTypes, passVars, Execute
  <1>5. faults' \in 0 .. MaxFaults
    BY FaultType, ZenonT(30) DEF Execute, NoFault
  <1>6. QED
    BY <1>1, <1>2, <1>3, <1>4, <1>5, ZenonT(30) DEF TypeOK

LEMMA PrepareRefusedTypes ==
  ASSUME TypeOK, NEW m \in net, PrepareRefused(m)
  PROVE  TypeOK'
  <1>1. LogTypes'
    BY ZenonT(30) DEF TypeOK, LogTypes, logVars, PrepareRefused
  <1>2. ShardTypes'
    BY ZenonT(30) DEF TypeOK, ShardTypes, PrepareRefused, Messages, PartStates
  <1>3. CoordTypes'
    BY ZenonT(30) DEF TypeOK, CoordTypes, PrepareRefused, ShardTypes, Messages, Acks
  <1>4. PassTypes'
    BY ZenonT(30) DEF TypeOK, PassTypes, passVars, PrepareRefused
  <1>5. faults' \in 0 .. MaxFaults
    BY FaultType, ZenonT(30) DEF PrepareRefused, NoFault
  <1>6. QED
    BY <1>1, <1>2, <1>3, <1>4, <1>5, ZenonT(30) DEF TypeOK

LEMMA AnswerLostTypes ==
  ASSUME TypeOK, NEW m \in net, AnswerLost(m)
  PROVE  TypeOK'
  <1>1. LogTypes'
    BY ZenonT(30) DEF TypeOK, LogTypes, logVars, AnswerLost
  <1>2. ShardTypes'
    BY PartAfterType, ZenonT(30) DEF TypeOK, ShardTypes, AnswerLost, Messages
  <1>3. CoordTypes'
    BY StreamLostType, ZenonT(30) DEF TypeOK, CoordTypes, AnswerLost, ShardTypes, Messages
  <1>4. PassTypes'
    BY ZenonT(30) DEF TypeOK, PassTypes, passVars, AnswerLost
  <1>5. faults' \in 0 .. MaxFaults
    BY FaultType, ZenonT(30) DEF AnswerLost, NoFault
  <1>6. QED
    BY <1>1, <1>2, <1>3, <1>4, <1>5, ZenonT(30) DEF TypeOK

LEMMA StatementLostTypes ==
  ASSUME TypeOK, NEW m \in net, StatementLost(m)
  PROVE  TypeOK'
  <1>1. LogTypes'
    BY ZenonT(30) DEF TypeOK, LogTypes, logVars, StatementLost
  <1>2. ShardTypes'
    BY ZenonT(30) DEF TypeOK, ShardTypes, StatementLost
  <1>3. CoordTypes'
    BY StreamLostType, ZenonT(30) DEF TypeOK, CoordTypes, StatementLost, ShardTypes, Messages
  <1>4. PassTypes'
    BY ZenonT(30) DEF TypeOK, PassTypes, passVars, StatementLost
  <1>5. faults' \in 0 .. MaxFaults
    BY FaultType, ZenonT(30) DEF StatementLost, NoFault
  <1>6. QED
    BY <1>1, <1>2, <1>3, <1>4, <1>5, ZenonT(30) DEF TypeOK

LEMMA GiveUpTypes ==
  ASSUME TypeOK, NEW t \in Txns, NEW s \in Shards, GiveUp(t, s)
  PROVE  TypeOK'
  <1>1. LogTypes'
    BY ZenonT(30) DEF TypeOK, LogTypes, logVars, GiveUp
  <1>2. ShardTypes'
    BY ZenonT(30) DEF TypeOK, ShardTypes, GiveUp
  <1>3. CoordTypes'
    BY StreamLostType, ZenonT(30) DEF TypeOK, CoordTypes, GiveUp
  <1>4. PassTypes'
    BY ZenonT(30) DEF TypeOK, PassTypes, passVars, GiveUp
  <1>5. faults' \in 0 .. MaxFaults
    BY FaultType, ZenonT(30) DEF GiveUp, NoFault
  <1>6. QED
    BY <1>1, <1>2, <1>3, <1>4, <1>5, ZenonT(30) DEF TypeOK

LEMMA BackendEndsTypes ==
  ASSUME TypeOK, NEW t \in Txns, NEW s \in Shards, BackendEnds(t, s)
  PROVE  TypeOK'
  <1>1. LogTypes'
    BY ZenonT(30) DEF TypeOK, LogTypes, logVars, BackendEnds
  <1>2. ShardTypes'
    BY ZenonT(30) DEF TypeOK, ShardTypes, BackendEnds, PartStates
  <1>3. CoordTypes'
    BY Zenon DEF TypeOK, CoordTypes, coordVars, BackendEnds
  <1>4. PassTypes'
    BY Zenon DEF TypeOK, PassTypes, passVars, BackendEnds
  <1>5. faults' \in 0 .. MaxFaults
    BY Zenon, FaultType DEF BackendEnds, NoFault
  <1>6. QED
    BY <1>1, <1>2, <1>3, <1>4, <1>5, ZenonT(30) DEF TypeOK

LEMMA StartPassTypes ==
  ASSUME TypeOK, NEW r \in Resolvers, StartPass(r)
  PROVE  TypeOK'
  <1>1. LogTypes'
    BY Zenon DEF TypeOK, LogTypes, logVars, StartPass
  <1>2. ShardTypes'
    BY Zenon DEF TypeOK, ShardTypes, StartPass
  <1>3. CoordTypes'
    BY Zenon DEF TypeOK, CoordTypes, coordVars, StartPass
  <1>4. PassTypes'
    BY Zenon, ScopeAssumption DEF TypeOK, PassTypes, StartPass, LogTypes
  <1>5. faults' \in 0 .. MaxFaults
    BY Zenon, FaultType DEF StartPass, NoFault
  <1>6. QED
    BY <1>1, <1>2, <1>3, <1>4, <1>5, ZenonT(30) DEF TypeOK

LEMMA RereadTypes ==
  ASSUME TypeOK, NEW r \in Resolvers, Reread(r)
  PROVE  TypeOK'
  <1>1. LogTypes'
    BY Zenon DEF TypeOK, LogTypes, logVars, Reread
  <1>2. ShardTypes'
    BY Zenon DEF TypeOK, ShardTypes, Reread
  <1>3. CoordTypes'
    BY Zenon DEF TypeOK, CoordTypes, coordVars, Reread
  <1>4. PassTypes'
    <2>1. rcur[r] \in Txns
      BY ZenonT(30) DEF TypeOK, PassTypes
    <2>2. QED
      BY Zenon, <2>1, NextDecisionType, FinishAsType DEF Reread
  <1>5. faults' \in 0 .. MaxFaults
    BY ZenonT(60), FaultType DEF Reread, NoFault
  <1>6. QED
    BY <1>1, <1>2, <1>3, <1>4, <1>5, ZenonT(30) DEF TypeOK

LEMMA FinishDecisionTypes ==
  ASSUME TypeOK, NEW r \in Resolvers, FinishDecision(r)
  PROVE  TypeOK'
  <1>1. LogTypes'
    <2>1. rcur[r] \in Txns
      BY ZenonT(30) DEF TypeOK, PassTypes
    <2>2. CASE UNCHANGED logVars
      BY <2>2, ZenonT(30) DEF TypeOK, LogTypes, logVars
    <2>3. CASE rstate[r] = "commit"
      BY <2>1, <2>2, <2>3, LogCallType, ZenonT(30) DEF FinishDecision, LogStatements
    <2>4. CASE rstate[r] # "commit"
      BY <2>1, <2>2, <2>4, LogCallType, ZenonT(30) DEF FinishDecision, LogStatements
    <2>5. QED
      BY <2>3, <2>4, ZenonT(30)
  <1>2. ShardTypes'
    BY Zenon DEF TypeOK, ShardTypes, FinishDecision
  <1>3. CoordTypes'
    BY Zenon DEF TypeOK, CoordTypes, coordVars, FinishDecision
  <1>4. PassTypes'
    <2>1. rcur[r] \in Txns
      BY ZenonT(30) DEF TypeOK, PassTypes
    <2>2. QED
      BY <2>1, NextDecisionType, ZenonT(30) DEF FinishDecision
  <1>5. faults' \in 0 .. MaxFaults
    BY FaultType, ZenonT(30) DEF FinishDecision, NoFault, LogRun, LogLost
  <1>6. QED
    BY <1>1, <1>2, <1>3, <1>4, <1>5, ZenonT(30) DEF TypeOK

LEMMA SweepGidDoneTypes ==
  ASSUME TypeOK, NEW r \in Resolvers, SweepGidDone(r)
  PROVE  TypeOK'
  <1>1. LogTypes'
    BY Zenon DEF TypeOK, LogTypes, logVars, SweepGidDone
  <1>2. ShardTypes'
    BY Zenon DEF TypeOK, ShardTypes, SweepGidDone
  <1>3. CoordTypes'
    BY Zenon DEF TypeOK, CoordTypes, coordVars, SweepGidDone
  <1>4. PassTypes'
    BY ZenonT(30) DEF TypeOK, PassTypes, SweepGidDone, Decisions
  <1>5. faults' \in 0 .. MaxFaults
    BY Zenon, FaultType DEF SweepGidDone, NoFault
  <1>6. QED
    BY <1>1, <1>2, <1>3, <1>4, <1>5, ZenonT(30) DEF TypeOK

LEMMA EndPassTypes ==
  ASSUME TypeOK, NEW r \in Resolvers, EndPass(r)
  PROVE  TypeOK'
  <1>1. LogTypes'
    BY Zenon DEF TypeOK, LogTypes, logVars, EndPass
  <1>2. ShardTypes'
    BY Zenon DEF TypeOK, ShardTypes, EndPass
  <1>3. CoordTypes'
    BY Zenon DEF TypeOK, CoordTypes, coordVars, EndPass
  <1>4. PassTypes'
    BY ZenonT(30) DEF TypeOK, PassTypes, EndPass, Decisions, RowStates
  <1>5. faults' \in 0 .. MaxFaults
    BY Zenon, FaultType DEF EndPass, NoFault
  <1>6. QED
    BY <1>1, <1>2, <1>3, <1>4, <1>5, ZenonT(30) DEF TypeOK

LEMMA ScanShardTypes ==
  ASSUME TypeOK, NEW r \in Resolvers, NEW s \in Shards, ScanShard(r, s)
  PROVE  TypeOK'
  <1>1. LogTypes'
    BY Zenon DEF TypeOK, LogTypes, logVars, ScanShard
  <1>2. ShardTypes'
    BY Zenon DEF TypeOK, ShardTypes, ScanShard
  <1>3. CoordTypes'
    BY Zenon DEF TypeOK, CoordTypes, coordVars, ScanShard
  <1>4. PassTypes'
    <2>1. {<<t, s>> : t \in {u \in Txns : part[u][s] = "prepared"}} \subseteq Txns \X Shards
      OBVIOUS
    <2>2. rheld' \in [Resolvers -> SUBSET (Txns \X Shards)]
      BY <2>1, SMTT(30) DEF TypeOK, PassTypes, ScanShard
    <2>3. rfull' \in [Resolvers -> BOOLEAN] /\ runscanned' \in [Resolvers -> SUBSET Shards]
      BY ZenonT(60) DEF TypeOK, PassTypes, ScanShard
    <2>4. QED
      BY <2>2, <2>3, ZenonT(30) DEF TypeOK, PassTypes, ScanShard
  <1>5. faults' \in 0 .. MaxFaults
    BY Zenon, FaultType DEF ScanShard, NoFault
  <1>6. QED
    BY <1>1, <1>2, <1>3, <1>4, <1>5, ZenonT(30) DEF TypeOK

LEMMA FinishHolderTypes ==
  ASSUME TypeOK, NEW r \in Resolvers, NEW s \in Shards, FinishHolder(r, s)
  PROVE  TypeOK'
  <1>1. LogTypes'
    BY Zenon DEF TypeOK, LogTypes, logVars, FinishHolder
  <1>2. ShardTypes'
    BY FinishType, ZenonT(30) DEF TypeOK, ShardTypes, FinishHolder
  <1>3. CoordTypes'
    BY Zenon DEF TypeOK, CoordTypes, coordVars, FinishHolder
  <1>4. PassTypes'
    <2>1. rcur[r] \in Txns
      BY ZenonT(30) DEF TypeOK, PassTypes
    <2>2. CASE FinishRuns(r, s) /\ UNCHANGED <<rpc, rtodo, rcur, rstate, rkeep>>
      BY <2>2, ZenonT(30) DEF TypeOK, PassTypes, FinishHolder, FinishRuns
    <2>3. CASE UNCHANGED rheld /\ NextDecision(r, rcur[r])
      BY Zenon, <2>1, <2>3, NextDecisionType DEF FinishHolder
    <2>4. QED
      BY <2>2, <2>3, ZenonT(30) DEF FinishHolder
  <1>5. faults' \in 0 .. MaxFaults
    BY FaultType, ZenonT(30) DEF FinishHolder, NoFault, FinishRuns, FinishLost
  <1>6. QED
    BY <1>1, <1>2, <1>3, <1>4, <1>5, ZenonT(30) DEF TypeOK

LEMMA SweepHolderTypes ==
  ASSUME TypeOK, NEW r \in Resolvers, NEW s \in Shards, SweepHolder(r, s)
  PROVE  TypeOK'
  <1>1. LogTypes'
    BY Zenon DEF TypeOK, LogTypes, logVars, SweepHolder
  <1>2. ShardTypes'
    BY Zenon, FinishType DEF TypeOK, ShardTypes, SweepHolder
  <1>3. CoordTypes'
    BY Zenon DEF TypeOK, CoordTypes, coordVars, SweepHolder
  <1>4. PassTypes'
    <2>1. /\ rheld' = [rheld EXCEPT ![r] = @ \ {<<rcur[r], s>>}]
          /\ UNCHANGED <<rpc, rseen, runscanned, rfull, rtodo, rcur, rstate, rkeep>>
      BY Zenon DEF SweepHolder, FinishRuns
    <2>2. PassTypes
      BY ZenonT(30) DEF TypeOK
    <2>3. QED
      BY <2>1, <2>2, ZenonT(30) DEF PassTypes
  <1>5. faults' \in 0 .. MaxFaults
    BY FaultType, ZenonT(30) DEF SweepHolder, NoFault, FinishRuns, FinishLost
  <1>6. QED
    BY <1>1, <1>2, <1>3, <1>4, <1>5, ZenonT(30) DEF TypeOK

LEMMA SkipFreshTypes ==
  ASSUME TypeOK, NEW r \in Resolvers, NEW t \in Txns, SkipFresh(r, t)
  PROVE  TypeOK'
  <1>1. LogTypes'
    BY Zenon DEF TypeOK, LogTypes, logVars, SkipFresh
  <1>2. ShardTypes'
    BY Zenon DEF TypeOK, ShardTypes, SkipFresh
  <1>3. CoordTypes'
    BY Zenon DEF TypeOK, CoordTypes, coordVars, SkipFresh
  <1>4. PassTypes'
    BY NextDecisionType, ZenonT(30) DEF TypeOK, PassTypes, SkipFresh
  <1>5. faults' \in 0 .. MaxFaults
    BY Zenon, FaultType DEF SkipFresh, NoFault
  <1>6. QED
    BY <1>1, <1>2, <1>3, <1>4, <1>5, ZenonT(30) DEF TypeOK

LEMMA ExpireRowTypes ==
  ASSUME TypeOK, NEW r \in Resolvers, NEW t \in Txns, ExpireRow(r, t)
  PROVE  TypeOK'
  <1>1. LogTypes'
    BY ZenonT(60), LogCallType DEF TypeOK, LogTypes, ExpireRow, LogStatements
  <1>2. ShardTypes'
    BY ZenonT(60) DEF TypeOK, ShardTypes, ExpireRow
  <1>3. CoordTypes'
    BY Zenon DEF TypeOK, CoordTypes, coordVars, ExpireRow
  <1>4. PassTypes'
    <2>1. CASE FinishAs(r, t, "abort", ~rfull[r])
      BY ZenonT(60), <2>1, FinishAsType DEF ExpireRow, TypeOK, PassTypes, Decisions
    <2>2. CASE NextDecision(r, t)
      BY ZenonT(60), <2>2, NextDecisionType DEF ExpireRow
    <2>3. CASE /\ rpc' = [rpc EXCEPT ![r] = "reread"]
               /\ rcur' = [rcur EXCEPT ![r] = t]
               /\ UNCHANGED <<rtodo, rstate, rkeep>>
      <3>1. UNCHANGED <<rseen, runscanned, rheld, rfull>>
        BY Zenon DEF ExpireRow
      <3>2. QED
        BY <2>3, <3>1, ZenonT(30) DEF TypeOK, PassTypes
    <2>4. QED
      BY Zenon, <2>1, <2>2, <2>3 DEF ExpireRow
  <1>5. faults' \in 0 .. MaxFaults
    BY FaultType, ZenonT(30) DEF ExpireRow, NoFault, LogRun, LogLost
  <1>6. QED
    BY <1>1, <1>2, <1>3, <1>4, <1>5, ZenonT(30) DEF TypeOK

LEMMA TakeDecidedTypes ==
  ASSUME TypeOK, NEW r \in Resolvers, NEW t \in Txns, TakeDecided(r, t)
  PROVE  TypeOK'
  <1>1. LogTypes'
    BY Zenon DEF TypeOK, LogTypes, logVars, TakeDecided
  <1>2. ShardTypes'
    BY Zenon DEF TypeOK, ShardTypes, TakeDecided
  <1>3. CoordTypes'
    BY Zenon DEF TypeOK, CoordTypes, coordVars, TakeDecided
  <1>4. PassTypes'
    BY ZenonT(60), FinishAsType DEF TypeOK, PassTypes, TakeDecided
  <1>5. faults' \in 0 .. MaxFaults
    BY Zenon, FaultType DEF TakeDecided, NoFault
  <1>6. QED
    BY <1>1, <1>2, <1>3, <1>4, <1>5, ZenonT(30) DEF TypeOK

LEMMA SweepGidTypes ==
  ASSUME TypeOK, NEW r \in Resolvers, NEW t \in Txns, SweepGid(r, t)
  PROVE  TypeOK'
  <1>1. LogTypes'
    BY ZenonT(60) DEF TypeOK, LogTypes, logVars, SweepGid
  <1>2. ShardTypes'
    BY ZenonT(60) DEF TypeOK, ShardTypes, SweepGid
  <1>3. CoordTypes'
    BY ZenonT(60) DEF TypeOK, CoordTypes, coordVars, SweepGid
  <1>4. PassTypes'
    <2>1. CASE UNCHANGED <<rpc, rcur, rstate>>
      BY <2>1, SMTT(30) DEF TypeOK, PassTypes, SweepGid, Forget
    <2>2. CASE /\ row[t] # "preparing"
               /\ rpc' = [rpc EXCEPT ![r] = "sweep"]
               /\ rcur' = [rcur EXCEPT ![r] = t]
               /\ rstate' = [rstate EXCEPT ![r] = IF row[t] = "none" THEN "abort" ELSE row[t]]
               /\ UNCHANGED rheld
      <3>1. (IF row[t] = "none" THEN "abort" ELSE row[t]) \in Decisions
        BY <2>2, ZenonT(30) DEF TypeOK, LogTypes, RowStates, Decisions
      <3>2. QED
        BY <2>2, <3>1, ZenonT(30) DEF TypeOK, PassTypes, SweepGid
    <2>3. QED
      BY ZenonT(60), <2>1, <2>2 DEF SweepGid
  <1>5. faults' \in 0 .. MaxFaults
    BY ZenonT(60), FaultType DEF SweepGid, NoFault
  <1>6. QED
    BY <1>1, <1>2, <1>3, <1>4, <1>5, ZenonT(30) DEF TypeOK

LEMMA TypeNext == TypeOK /\ [Next]_vars => TypeOK'
  <1> SUFFICES ASSUME TypeOK, [Next]_vars PROVE TypeOK'
    BY ZenonT(30)
  <1>1. CASE UNCHANGED vars
    BY <1>1, ZenonT(30) DEF TypeOK, LogTypes, ShardTypes, CoordTypes, PassTypes, vars
  <1>2. QED
    BY <1>1,
       CollectXidsTypes, LogBeginTypes, QuitDoneTypes, PrepareDoneTypes, UndoDoneTypes,
       LogAbortTypes, LogCommitTypes, RetractDoneTypes, ApplyLeadDoneTypes, ApplyDoneTypes,
       LogDeleteTypes, HeartbeatTypes, AgeTypes, CrashTypes, LateLogTypes,
       LateLogDroppedTypes, ExecuteTypes, PrepareRefusedTypes, AnswerLostTypes, StatementLostTypes,
       GiveUpTypes, BackendEndsTypes, StartPassTypes, RereadTypes, FinishDecisionTypes,
       SweepGidDoneTypes, EndPassTypes, ScanShardTypes, FinishHolderTypes, SweepHolderTypes,
       SkipFreshTypes, ExpireRowTypes, TakeDecidedTypes, SweepGidTypes, ZenonT(30)
    DEF Next, Coordinate, Resolve, ShardStep

(* Every variable of the coordinators, the log, the shards and the passes
   keeps its type. *)
THEOREM TypeCorrect == Spec => []TypeOK
  BY TypeInit, TypeNext, PTL DEF Spec

-----------------------------------------------------------------------------
(***************************************************************************)
(* The inductive invariant, and the steps of the passes.                   *)
(***************************************************************************)

(* The decision row of t has been inserted at some time. *)
Begun(t) == row[t] # "none" \/ verdict[t] # "none"

AllCommitted(t) == \A s \in Writers[t] : part[t][s] = "committed"

(* Nothing that can still run decides commit for t. *)
Dead(t) ==
  \/ verdict[t] = "abort"
  \/ /\ verdict[t] # "commit"
     /\ <<t, "commit">> \notin late
     /\ pc[t] \notin {"running", "begin", "prepare", "decide"}

(* The row says what was decided, and is inserted once. *)
LogInv(t) ==
  /\ row[t] \in Decisions => verdict[t] = row[t]
  /\ row[t] = "preparing" => verdict[t] = "none"
  /\ <<t, "begin">> \in late => ~Begun(t) /\ pc[t] \in {"quit", "done", "crashed"}
  /\ <<t, "commit">> \in late =>
       /\ Begun(t) /\ pc[t] \in {"done", "crashed"}
       /\ row[t] = "preparing" => \A s \in Writers[t] : part[t][s] = "prepared"
  /\ <<t, "delete">> \in late => verdict[t] = "abort" \/ AllCommitted(t)
  /\ <<t, "deleteCommit">> \in late => AllCommitted(t)

(* What the state of a participant says about the decision. *)
PartInv(t) ==
  /\ verdict[t] = "commit" => \A s \in Writers[t] : part[t][s] \in {"prepared", "committed"}
  /\ verdict[t] = "commit" /\ row[t] = "none" => AllCommitted(t)
  /\ \A s \in Shards :
       /\ part[t][s] = "prepared" => Begun(t)
       /\ part[t][s] = "committed" => verdict[t] = "commit"
       /\ s \notin Writers[t] => part[t][s] = "aborted"

(* Statements on their way to a shard agree with the decision. *)
NetInv(m) ==
  /\ m.shard \in Writers[m.txn]
  /\ m.verb = "prepare" => Begun(m.txn)
  /\ m.verb = "commitPrepared" => verdict[m.txn] = "commit"
  /\ m.verb = "rollbackPrepared" => Dead(m.txn) \/ part[m.txn][m.shard] = "committed"
  /\ m.by = "router" /\ pc[m.txn] \notin {"done", "crashed"} =>
       ack[m.txn][m.shard] = "wait" \/ m.shard \in broken[m.txn]
  /\ m.by = "router" /\ ack[m.txn][m.shard] = "wait" =>
       /\ pc[m.txn] = "prepare" => m.verb = "prepare"
       /\ pc[m.txn] \in {"applyLead", "applyRest"} => m.verb = "commitPrepared"
       /\ \A n \in net :
            n.by = "router" /\ n.txn = m.txn /\ n.shard = m.shard => n = m

(* Where the coordinator is, what it heard, and what is true by then. *)
CoordInv(t) ==
  /\ \A s \in broken[t] : ack[t][s] = "lost"
  /\ \A s \in Shards \ Writers[t] : ack[t][s] = "ok"
  /\ pc[t] \in {"running", "begin"} => ~Begun(t)
  /\ pc[t] \in {"prepare", "undo", "logAbort", "decide"} => Begun(t)
  /\ pc[t] \in {"running", "begin", "quit", "prepare", "undo", "logAbort", "decide",
                "retract", "deleteAbort"} =>
       verdict[t] # "commit" /\ <<t, "commit">> \notin late
  /\ pc[t] \in {"retract", "deleteAbort"} => verdict[t] = "abort"
  /\ pc[t] = "prepare" => \A s \in Writers[t] :
       ack[t][s] = "ok" => part[t][s] = "prepared" \/ verdict[t] = "abort"
  /\ pc[t] \in {"running", "begin", "decide"} => AllOk(t)
  /\ pc[t] = "decide" =>
       verdict[t] = "abort" \/ \A s \in Writers[t] : part[t][s] = "prepared"
  /\ pc[t] \in {"applyLead", "applyRest", "deleteCommit"} => verdict[t] = "commit"
  /\ pc[t] = "applyLead" =>
       /\ ack[t][Lead[t]] = "ok" => part[t][Lead[t]] = "committed"
       /\ \A s \in Writers[t] \ {Lead[t]} : ack[t][s] = "ok"
  /\ pc[t] = "applyRest" => \A s \in Writers[t] :
       ack[t][s] = "ok" => part[t][s] = "committed"
  /\ pc[t] = "deleteCommit" => AllCommitted(t)
  /\ reply[t] # "none" => pc[t] = "done"
  /\ reply[t] = "commit" => verdict[t] = "commit"
  /\ reply[t] \in {"retry", "error"} => Dead(t)

(* What a resolver pass read stays true until it acts on it. *)
HeldInv(r) ==
  \A t \in Txns, s \in Shards : <<t, s>> \in rheld[r] => Begun(t) /\ s \in Writers[t]
TodoInv(r) ==
  \A t \in rtodo[r] :
    /\ rseen[r][t] \in Decisions => verdict[t] = rseen[r][t]
    /\ rseen[r][t] = "commit" /\ rfull[r] => \A s \in Writers[t] :
         part[t][s] = "committed" \/ s \in runscanned[r] \/ <<t, s>> \in rheld[r]
HandInv(r) ==
  /\ rpc[r] \in {"finish", "sweep"} /\ rstate[r] = "commit" => verdict[rcur[r]] = "commit"
  /\ rpc[r] = "finish" /\ rstate[r] = "abort" => verdict[rcur[r]] = "abort"
  /\ rpc[r] = "sweep" /\ rstate[r] = "abort" =>
       verdict[rcur[r]] = "abort" \/ AllCommitted(rcur[r])
  /\ rpc[r] = "finish" /\ rstate[r] = "commit" /\ ~rkeep[r] =>
       \A s \in Writers[rcur[r]] :
         part[rcur[r]][s] = "committed" \/ <<rcur[r], s>> \in rheld[r]
  /\ rpc[r] \in {"finish", "reread"} => rcur[r] \in rtodo[r]
  /\ rpc[r] # "pass" => runscanned[r] = {}
  /\ rpc[r] \in {"idle", "sweep"} => rtodo[r] = {}
PassInv(r) == HeldInv(r) /\ TodoInv(r) /\ HandInv(r)

(* The inductive invariant. *)
IInv ==
  /\ TypeOK
  /\ \A t \in Txns : LogInv(t) /\ PartInv(t) /\ CoordInv(t)
  /\ \A m \in net : NetInv(m)
  /\ \A r \in Resolvers : PassInv(r)


-----------------------------------------------------------------------------
(***************************************************************************)
(* The frame of a step.  A step of the protocol is about one transaction:  *)
(* what is known of the others, of statements in flight for them and of    *)
(* passes that do not move carries over.                                   *)
(***************************************************************************)

TxnInv(t) == LogInv(t) /\ PartInv(t) /\ CoordInv(t)

(* Nothing about transaction u changes. *)
SameTxn(u) ==
  /\ row'[u] = row[u] /\ verdict'[u] = verdict[u] /\ part'[u] = part[u]
  /\ pc'[u] = pc[u] /\ ack'[u] = ack[u] /\ broken'[u] = broken[u] /\ reply'[u] = reply[u]
  /\ \A stmt \in LogStatements : <<u, stmt>> \in late' <=> <<u, stmt>> \in late

(* Nothing about pass r changes. *)
SamePass(r) ==
  /\ rpc'[r] = rpc[r] /\ rseen'[r] = rseen[r] /\ runscanned'[r] = runscanned[r]
  /\ rheld'[r] = rheld[r] /\ rfull'[r] = rfull[r] /\ rtodo'[r] = rtodo[r]
  /\ rcur'[r] = rcur[r] /\ rstate'[r] = rstate[r] /\ rkeep'[r] = rkeep[r]

(* What no step takes back. *)
Mono(t) ==
  /\ Begun(t) => Begun(t)'
  /\ verdict[t] # "none" => verdict'[t] = verdict[t]
  /\ \A s \in Shards : part[t][s] = "committed" => part'[t][s] = "committed"
  /\ Dead(t) => Dead(t)'

(* Of the statements in flight to the log, only a commit matters to the
   participants and to the coordinator. *)
LEMMA LateFrame ==
  ASSUME NEW u \in Txns, PartInv(u), CoordInv(u),
         row'[u] = row[u], verdict'[u] = verdict[u], part'[u] = part[u], pc'[u] = pc[u],
         ack'[u] = ack[u], broken'[u] = broken[u], reply'[u] = reply[u],
         <<u, "commit">> \in late' <=> <<u, "commit">> \in late
  PROVE  PartInv(u)' /\ CoordInv(u)' /\ Mono(u)
  <1>1. /\ Begun(u)' <=> Begun(u)
        /\ AllCommitted(u)' <=> AllCommitted(u)
        /\ AllOk(u)' <=> AllOk(u)
    BY ZenonT(30) DEF Begun, AllCommitted, AllOk
  <1>2. Dead(u)' <=> Dead(u)
    BY ZenonT(30) DEF Dead
  <1>3. PartInv(u)'
    BY <1>1, ZenonT(30) DEF PartInv
  <1>4. CoordInv(u)'
    <2>1. /\ \A s \in broken'[u] : ack'[u][s] = "lost"
          /\ \A s \in Shards \ Writers[u] : ack'[u][s] = "ok"
          /\ pc'[u] \in {"running", "begin"} => ~Begun(u)'
          /\ pc'[u] \in {"prepare", "undo", "logAbort", "decide"} => Begun(u)'
        BY <1>1, <1>2, ZenonT(30) DEF CoordInv
    <2>2. /\ pc'[u] \in {"running", "begin", "quit", "prepare", "undo", "logAbort", "decide",
                        "retract", "deleteAbort"} =>
               verdict'[u] # "commit" /\ <<u, "commit">> \notin late'
          /\ pc'[u] \in {"retract", "deleteAbort"} => verdict'[u] = "abort"
          /\ pc'[u] = "prepare" => \A s \in Writers[u] :
               ack'[u][s] = "ok" => part'[u][s] = "prepared" \/ verdict'[u] = "abort"
          /\ pc'[u] \in {"running", "begin", "decide"} => AllOk(u)'
        BY <1>1, <1>2, ZenonT(30) DEF CoordInv
    <2>3. /\ pc'[u] = "decide" =>
               verdict'[u] = "abort" \/ \A s \in Writers[u] : part'[u][s] = "prepared"
          /\ pc'[u] \in {"applyLead", "applyRest", "deleteCommit"} => verdict'[u] = "commit"
          /\ pc'[u] = "applyLead" =>
               /\ ack'[u][Lead[u]] = "ok" => part'[u][Lead[u]] = "committed"
               /\ \A s \in Writers[u] \ {Lead[u]} : ack'[u][s] = "ok"
        BY <1>1, <1>2, ZenonT(30) DEF CoordInv
    <2>4. /\ pc'[u] = "applyRest" => \A s \in Writers[u] :
               ack'[u][s] = "ok" => part'[u][s] = "committed"
          /\ pc'[u] = "deleteCommit" => AllCommitted(u)'
          /\ reply'[u] # "none" => pc'[u] = "done"
          /\ reply'[u] = "commit" => verdict'[u] = "commit"
          /\ reply'[u] \in {"retry", "error"} => Dead(u)'
        BY <1>1, <1>2, ZenonT(30) DEF CoordInv
    <2>5. QED
      BY <2>1, <2>2, <2>3, <2>4, ZenonT(30) DEF CoordInv
  <1>5. Mono(u)
    BY <1>1, <1>2, ZenonT(30) DEF Mono
  <1>6. QED
    BY <1>3, <1>4, <1>5, ZenonT(30)

LEMMA SameTxnFrame ==
  ASSUME NEW u \in Txns, TxnInv(u), SameTxn(u)
  PROVE  TxnInv(u)' /\ Mono(u)
  <1>1. \A stmt \in {"begin", "commit", "delete", "deleteCommit"} :
          <<u, stmt>> \in late' <=> <<u, stmt>> \in late
    BY ZenonT(30) DEF SameTxn, LogStatements
  <1>2. LogInv(u)'
    BY <1>1, ZenonT(30) DEF TxnInv, LogInv, SameTxn, Begun, AllCommitted
  <1>3. PartInv(u)' /\ CoordInv(u)' /\ Mono(u)
    BY <1>1, LateFrame, ZenonT(30) DEF TxnInv, SameTxn
  <1>4. QED
    BY <1>2, <1>3, ZenonT(30) DEF TxnInv

LEMMA NetFrame ==
  ASSUME TypeOK, NEW m \in net, NetInv(m), Mono(m.txn),
         pc'[m.txn] = pc[m.txn], ack'[m.txn] = ack[m.txn], broken'[m.txn] = broken[m.txn],
         \A n \in net' : n \in net \/ n.txn # m.txn \/ n.by = "resolver"
  PROVE  NetInv(m)'
  <1>1. m.txn \in Txns /\ m.shard \in Shards
    BY ZenonT(30) DEF TypeOK, ShardTypes, Messages
  <1>2. QED
    BY Zenon, <1>1 DEF NetInv, Mono

(* What a pass holds, and what it has to do, stays true as long as it keeps
   what it read. *)
LEMMA HeldKept ==
  ASSUME NEW r \in Resolvers, HeldInv(r), rheld'[r] = rheld[r], \A t \in Txns : Mono(t)
  PROVE  HeldInv(r)'
  BY ZenonT(30) DEF HeldInv, Mono

LEMMA TodoKept ==
  ASSUME NEW r \in Resolvers, TodoInv(r), rtodo'[r] \subseteq rtodo[r], rtodo[r] \subseteq Txns,
         rseen'[r] = rseen[r], rfull'[r] = rfull[r], runscanned'[r] = runscanned[r],
         rheld'[r] = rheld[r], \A t \in Txns : Mono(t)
  PROVE  TodoInv(r)'
  <1> SUFFICES ASSUME NEW t \in rtodo'[r]
               PROVE  /\ rseen'[r][t] \in Decisions => verdict'[t] = rseen'[r][t]
                      /\ rseen'[r][t] = "commit" /\ rfull'[r] => \A s \in Writers[t] :
                           \/ part'[t][s] = "committed"
                           \/ s \in runscanned'[r] \/ <<t, s>> \in rheld'[r]
    BY ZenonT(30) DEF TodoInv
  <1>1. t \in rtodo[r] /\ t \in Txns /\ Writers[t] \subseteq Shards
    BY WritersAssumption, ZenonT(30)
  <1>2. QED
    BY <1>1, ZenonT(30) DEF TodoInv, Mono, Decisions

LEMMA PassFrame ==
  ASSUME TypeOK, NEW r \in Resolvers, PassInv(r), SamePass(r), \A t \in Txns : Mono(t)
  PROVE  PassInv(r)'
  <1>1. rcur[r] \in Txns /\ rtodo[r] \subseteq Txns
    BY ZenonT(30) DEF TypeOK, PassTypes
  <1>2. \A t \in Txns : Writers[t] \subseteq Shards
    BY WritersAssumption, ZenonT(30)
  <1>3. \A t \in Txns : AllCommitted(t) => AllCommitted(t)'
    BY <1>2, ZenonT(30) DEF Mono, AllCommitted
  <1>4. HandInv(r)'
    BY <1>1, <1>2, <1>3, SMTT(30) DEF PassInv, HandInv, SamePass, Mono
  <1>5. QED
    BY <1>1, <1>4, HeldKept, TodoKept, ZenonT(30) DEF PassInv, SamePass

(* A step about t alone, during which no pass moves. *)
LEMMA TxnStep ==
  ASSUME IInv, TypeOK', NEW t \in Txns, UNCHANGED passVars,
         \A u \in Txns \ {t} : SameTxn(u),
         TxnInv(t)', Mono(t),
         \A m \in net' : m \in net \/ m.txn = t,
         \A m \in net' : (m \in net /\ m.txn # t) \/ NetInv(m)'
  PROVE  IInv'
  <1>1. \A u \in Txns : TxnInv(u)' /\ Mono(u)
    BY SameTxnFrame, ZenonT(30) DEF IInv, TxnInv
  <1>2. ASSUME NEW m \in net' PROVE NetInv(m)'
    <2>1. CASE m \in net /\ m.txn # t
      <3>1. m.txn \in Txns
        BY <2>1, ZenonT(30) DEF IInv, TypeOK, ShardTypes, Messages
      <3>2. QED
        BY <1>1, <2>1, <3>1, NetFrame, ZenonT(30) DEF IInv, SameTxn
    <2>2. QED
      BY <2>1, ZenonT(30)
  <1>3. ASSUME NEW r \in Resolvers PROVE PassInv(r)'
    BY <1>1, PassFrame, ZenonT(30) DEF IInv, passVars, SamePass
  <1>4. QED
    BY <1>1, <1>2, <1>3, ZenonT(30) DEF IInv, TxnInv

(* A step of pass r that touches neither the log, nor a shard, nor a
   coordinator. *)
LEMMA PassStep ==
  ASSUME IInv, TypeOK', NEW r \in Resolvers,
         UNCHANGED <<row, late, verdict, part, net, coordVars>>,
         \A q \in Resolvers \ {r} : SamePass(q),
         PassInv(r)'
  PROVE  IInv'
  <1>1. \A u \in Txns : SameTxn(u)
    BY Zenon DEF SameTxn, coordVars
  <1>2. \A u \in Txns : TxnInv(u)' /\ Mono(u)
    BY <1>1, SameTxnFrame, ZenonT(30) DEF IInv, TxnInv
  <1>3. ASSUME NEW m \in net' PROVE NetInv(m)'
    <2>1. m \in net /\ m.txn \in Txns
      BY <1>3, ZenonT(30) DEF IInv, TypeOK, ShardTypes, Messages
    <2>2. QED
      BY <1>2, <2>1, NetFrame, ZenonT(30) DEF IInv, coordVars
  <1>4. ASSUME NEW q \in Resolvers PROVE PassInv(q)'
    BY <1>2, PassFrame, ZenonT(30) DEF IInv
  <1>5. QED
    BY <1>2, <1>3, <1>4, ZenonT(30) DEF IInv, TxnInv

(* A step of pass r that leaves coordinators and their statements alone. *)
LEMMA PassMoves ==
  ASSUME IInv, TypeOK', NEW r \in Resolvers, UNCHANGED <<pc, ack, broken>>,
         \A m \in net' : m \in net \/ (m.by = "resolver" /\ NetInv(m)'),
         \A u \in Txns : TxnInv(u)' /\ Mono(u),
         \A q \in Resolvers \ {r} : SamePass(q),
         PassInv(r)'
  PROVE  IInv'
  <1>1. ASSUME NEW m \in net' PROVE NetInv(m)'
    <2>1. CASE m \in net
      <3>1. m.txn \in Txns
        BY <2>1, ZenonT(30) DEF IInv, TypeOK, ShardTypes, Messages
      <3>2. QED
        BY <2>1, <3>1, NetFrame, ZenonT(30) DEF IInv
    <2>2. QED
      BY <2>1, ZenonT(30)
  <1>2. ASSUME NEW q \in Resolvers PROVE PassInv(q)'
    BY PassFrame, ZenonT(30) DEF IInv
  <1>3. QED
    BY <1>1, <1>2, ZenonT(30) DEF IInv, TxnInv

-----------------------------------------------------------------------------
(***************************************************************************)
(* The steps of a pass that only read.                                     *)
(***************************************************************************)

LEMMA StartPassInv ==
  ASSUME IInv, TypeOK', NEW r \in Resolvers, StartPass(r)
  PROVE  IInv'
  <1>1. PassInv(r)'
    <2>1. rheld'[r] = {} /\ runscanned'[r] = Scope[r] /\ rpc'[r] = "pass"
          /\ (rfull'[r] <=> Scope[r] = Shards)
          /\ rtodo'[r] \subseteq Txns
          /\ \A t \in Txns : rseen'[r][t] \in Decisions => rseen'[r][t] = row[t]
      BY ZenonT(60) DEF StartPass, IInv, TypeOK, PassTypes, Decisions
    <2>2. \A t \in Txns : row[t] \in Decisions => verdict'[t] = row[t]
      BY Zenon DEF StartPass, IInv, LogInv, logVars
    <2>3. QED
      BY <2>1, <2>2, WritersAssumption, ZenonT(30) DEF PassInv, HeldInv, TodoInv, HandInv, Decisions
  <1>2. \A q \in Resolvers \ {r} : SamePass(q)
    BY SMTT(30) DEF StartPass, SamePass, IInv, TypeOK, PassTypes
  <1>3. QED
    BY <1>1, <1>2, PassStep, ZenonT(30) DEF StartPass, logVars

(* A shard listed after a commit decision was read shows every participant
   that still has to be finished there. *)
LEMMA ScanShardInv ==
  ASSUME IInv, TypeOK', NEW r \in Resolvers, NEW s \in Shards, ScanShard(r, s)
  PROVE  IInv'
  <1> DEFINE found == {<<t, s>> : t \in {u \in Txns : part[u][s] = "prepared"}}
  <1>1. \A t \in Txns, x \in Shards :
          <<t, x>> \in found <=> (x = s /\ part[t][s] = "prepared")
    BY ZenonT(30)
  <1>2. /\ rpc'[r] = rpc[r] /\ rpc[r] = "pass" /\ rseen'[r] = rseen[r] /\ rtodo'[r] = rtodo[r]
        /\ runscanned'[r] = runscanned[r] \ {s}
        /\ (rheld'[r] = rheld[r] \cup found /\ rfull'[r] = rfull[r])
           \/ (rheld'[r] = rheld[r] /\ ~rfull'[r])
    BY ZenonT(60) DEF ScanShard, IInv, TypeOK, PassTypes
  <1>3. \A t \in Txns : /\ verdict'[t] = verdict[t] /\ part'[t] = part[t]
                        /\ Begun(t)' <=> Begun(t)
    BY ZenonT(60) DEF ScanShard, logVars, Begun
  <1>4. PassInv(r)'
    <2>1. ASSUME NEW t \in Txns, NEW x \in Shards, <<t, x>> \in rheld'[r]
          PROVE  Begun(t)' /\ x \in Writers[t]
      BY <1>1, <1>2, <1>3, <2>1, SMTT(30) DEF IInv, PassInv, HeldInv, TodoInv, HandInv, PartInv
    <2>2. ASSUME NEW t \in rtodo'[r]
          PROVE  /\ rseen'[r][t] \in Decisions => verdict'[t] = rseen'[r][t]
                 /\ rseen'[r][t] = "commit" /\ rfull'[r] => \A x \in Writers[t] :
                      part'[t][x] = "committed" \/ x \in runscanned'[r] \/ <<t, x>> \in rheld'[r]
      <3>1. t \in Txns /\ t \in rtodo[r] /\ Writers[t] \subseteq Shards
        BY Zenon, <1>2, <2>2, WritersAssumption DEF IInv, TypeOK, PassTypes
      <3>2. rseen[r][t] \in Decisions => verdict[t] = rseen[r][t]
        BY ZenonT(60), <3>1 DEF IInv, PassInv, HeldInv, TodoInv, HandInv
      <3>3. ASSUME rseen'[r][t] = "commit", rfull'[r], NEW x \in Writers[t]
            PROVE  part'[t][x] = "committed" \/ x \in runscanned'[r] \/ <<t, x>> \in rheld'[r]
        <4>1. part[t][x] = "committed" \/ x \in runscanned[r] \/ <<t, x>> \in rheld[r]
          BY ZenonT(60), <1>2, <3>1, <3>3 DEF IInv, PassInv, HeldInv, TodoInv, HandInv
        <4>2. part[t][x] \in {"prepared", "committed"}
          BY <1>2, <3>1, <3>2, <3>3, SMTT(30) DEF IInv, PartInv, Decisions
        <4>3. QED
          BY ZenonT(60), <1>1, <1>2, <1>3, <3>1, <3>3, <4>1, <4>2
      <3>4. QED
        BY <1>2, <1>3, <3>1, <3>2, <3>3, ZenonT(30)
    <2>3. QED
      BY <1>2, <2>1, <2>2, ZenonT(30) DEF PassInv, HeldInv, TodoInv, HandInv
  <1>5. \A q \in Resolvers \ {r} : SamePass(q)
    BY ZenonT(60) DEF ScanShard, SamePass, IInv, TypeOK, PassTypes
  <1>6. QED
    BY Zenon, <1>4, <1>5, PassStep DEF ScanShard, logVars

(* Moving on to the next decision forgets the one in hand. *)
LEMMA NextDecisionInv ==
  ASSUME IInv, NEW r \in Resolvers, NEW t \in Txns, NextDecision(r, t),
         rpc[r] \in {"pass", "reread", "finish"}, runscanned[r] = {},
         UNCHANGED <<rseen, runscanned, rheld, rfull>>,
         \A u \in Txns : Mono(u)
  PROVE  PassInv(r)' /\ \A q \in Resolvers \ {r} : SamePass(q)
  <1>1. /\ rpc'[r] = "pass" /\ rtodo'[r] = rtodo[r] \ {t} /\ rtodo[r] \subseteq Txns
        /\ \A q \in Resolvers \ {r} : SamePass(q)
    BY ZenonT(30) DEF NextDecision, IInv, TypeOK, PassTypes, SamePass
  <1>2. HandInv(r)'
    BY Zenon, <1>1 DEF HandInv
  <1>3. QED
    BY <1>1, <1>2, HeldKept, TodoKept, ZenonT(30) DEF IInv, PassInv

(* Taking a decision in hand: the pass must know it, and must know every
   holder if it is to delete the row of a commit. *)
LEMMA FinishAsInv ==
  ASSUME IInv, NEW r \in Resolvers, NEW t \in rtodo[r], NEW d \in Decisions,
         NEW keep \in BOOLEAN, FinishAs(r, t, d, keep),
         runscanned[r] = {}, rpc[r] # "idle", rpc[r] # "sweep",
         UNCHANGED <<rseen, runscanned, rheld, rfull>>,
         \A u \in Txns : Mono(u),
         verdict'[t] = d,
         d = "commit" /\ ~keep =>
           \A s \in Writers[t] : part'[t][s] = "committed" \/ <<t, s>> \in rheld[r]
  PROVE  PassInv(r)' /\ \A q \in Resolvers \ {r} : SamePass(q)
  <1>1. /\ rpc'[r] = "finish" /\ rcur'[r] = t /\ rstate'[r] = d /\ rkeep'[r] = keep
        /\ rtodo'[r] = rtodo[r] /\ rtodo[r] \subseteq Txns
        /\ \A q \in Resolvers \ {r} : SamePass(q)
    BY Zenon DEF FinishAs, IInv, TypeOK, PassTypes, SamePass
  <1>2. HandInv(r)'
    BY <1>1, ZenonT(30) DEF HandInv, Decisions
  <1>3. QED
    BY <1>1, <1>2, HeldKept, TodoKept, ZenonT(30) DEF IInv, PassInv

LEMMA SameTxns ==
  ASSUME IInv, UNCHANGED <<row, late, verdict, part, net, coordVars>>
  PROVE  \A u \in Txns : Mono(u)
  BY ZenonT(60), SameTxnFrame DEF IInv, TxnInv, SameTxn, coordVars

LEMMA SkipFreshInv ==
  ASSUME IInv, TypeOK', NEW r \in Resolvers, NEW t \in Txns, SkipFresh(r, t)
  PROVE  IInv'
  BY Zenon, SameTxns, NextDecisionInv, PassStep DEF SkipFresh, Scanned, logVars

LEMMA TakeDecidedInv ==
  ASSUME IInv, TypeOK', NEW r \in Resolvers, NEW t \in Txns, TakeDecided(r, t)
  PROVE  IInv'
  <1> DEFINE d == rseen[r][t]
  <1>1. UNCHANGED <<row, late, verdict, part, net, coordVars>> /\ \A u \in Txns : Mono(u)
    BY ZenonT(60), SameTxns DEF TakeDecided, logVars
  <1>2. verdict'[t] = d /\ t \in rtodo[r] /\ d \in Decisions
    BY ZenonT(60), <1>1 DEF TakeDecided, IInv, PassInv, HeldInv, TodoInv, HandInv
  <1>3. d = "commit" /\ rfull[r] =>
          \A s \in Writers[t] : part'[t][s] = "committed" \/ <<t, s>> \in rheld[r]
    <2>1. TodoInv(r) /\ t \in rtodo[r] /\ runscanned[r] = {}
      BY ZenonT(30) DEF TakeDecided, Scanned, IInv, PassInv
    <2>2. QED
      BY <1>1, <2>1, ZenonT(30) DEF TodoInv
  <1>4. rfull[r] \in BOOLEAN
    BY ZenonT(30) DEF IInv, TypeOK, PassTypes
  <1>5. PassInv(r)' /\ \A q \in Resolvers \ {r} : SamePass(q)
    BY ZenonT(60), <1>1, <1>2, <1>3, <1>4, FinishAsInv DEF TakeDecided, Scanned
  <1>6. QED
    BY <1>1, <1>5, PassStep, ZenonT(30)

LEMMA RereadInv ==
  ASSUME IInv, TypeOK', NEW r \in Resolvers, Reread(r)
  PROVE  IInv'
  <1> DEFINE t == rcur[r]
  <1>1. UNCHANGED <<row, late, verdict, part, net, coordVars>> /\ \A u \in Txns : Mono(u)
    BY ZenonT(60), SameTxns DEF Reread, logVars
  <1>2. t \in Txns /\ t \in rtodo[r] /\ runscanned[r] = {} /\ rpc[r] = "reread"
    BY ZenonT(60) DEF Reread, IInv, TypeOK, PassTypes, PassInv, HeldInv, TodoInv, HandInv
  <1>3. CASE NextDecision(r, t)
    BY Zenon, <1>1, <1>2, <1>3, NextDecisionInv, PassStep DEF Reread
  <1>4. CASE row[t] \in Decisions /\ FinishAs(r, t, row[t], TRUE)
    <2>1. verdict'[t] = row[t]
      BY ZenonT(60), <1>1, <1>2, <1>4 DEF IInv, LogInv
    <2>2. PassInv(r)' /\ \A q \in Resolvers \ {r} : SamePass(q)
      BY Zenon, <1>1, <1>2, <1>4, <2>1, FinishAsInv DEF Reread
    <2>3. QED
      BY <1>1, <2>2, PassStep, ZenonT(30)
  <1>5. QED
    BY Zenon, <1>3, <1>4 DEF Reread

(* A gid still held without a row was decided before: its row is gone. *)
LEMMA SweepGidInv ==
  ASSUME IInv, TypeOK', NEW r \in Resolvers, NEW t \in Txns, SweepGid(r, t)
  PROVE  IInv'
  <1>1. UNCHANGED <<row, late, verdict, part, net, coordVars>> /\ \A u \in Txns : Mono(u)
    BY SameTxns, ZenonT(30) DEF SweepGid, logVars
  <1>2. Begun(t) /\ rtodo[r] = {} /\ runscanned[r] = {} /\ rpc[r] = "pass"
    BY ZenonT(60) DEF SweepGid, Scanned, HeldOn, IInv, PassInv, HeldInv, TodoInv, HandInv
  <1>3. \A q \in Resolvers \ {r} : SamePass(q)
    BY ZenonT(60) DEF SweepGid, Forget, SamePass, IInv, TypeOK, PassTypes
  <1>4. PassInv(r)'
    <2>1. CASE UNCHANGED <<rpc, rcur, rstate>> /\ Forget(r, t)
      <3>1. rheld'[r] \subseteq rheld[r] /\ rtodo'[r] = {} /\ runscanned'[r] = {} /\ rpc'[r] = "pass"
        BY ZenonT(60), <1>2, <2>1 DEF Forget, SweepGid, IInv, TypeOK, PassTypes
      <3>2. QED
        BY ZenonT(60), <1>1, <3>1 DEF IInv, PassInv, HeldInv, TodoInv, HandInv, Mono
    <2>2. CASE /\ row[t] # "preparing"
               /\ rpc' = [rpc EXCEPT ![r] = "sweep"]
               /\ rcur' = [rcur EXCEPT ![r] = t]
               /\ rstate' = [rstate EXCEPT ![r] = IF row[t] = "none" THEN "abort" ELSE row[t]]
               /\ UNCHANGED rheld
      <3>1. /\ rpc'[r] = "sweep" /\ rcur'[r] = t
            /\ rstate'[r] = IF row[t] = "none" THEN "abort" ELSE row[t]
            /\ rheld'[r] = rheld[r] /\ rtodo'[r] = {} /\ runscanned'[r] = {}
        BY ZenonT(60), <1>2, <2>2 DEF SweepGid, IInv, TypeOK, PassTypes
      <3>2. row[t] \in Decisions => verdict[t] = row[t]
        BY Zenon DEF IInv, LogInv
      <3>3. row[t] = "none" => verdict[t] = "abort" \/ AllCommitted(t)
        BY <1>2, ZenonT(30) DEF Begun, IInv, PartInv, TypeOK, LogTypes, Decisions
      <3>4. row[t] \in Decisions \cup {"none"}
        BY <2>2, ZenonT(30) DEF IInv, TypeOK, LogTypes, RowStates
      <3>5. AllCommitted(t) => AllCommitted(t)'
        BY <1>1, ZenonT(30) DEF AllCommitted
      <3>6. QED
        BY ZenonT(60), <1>1, <3>1, <3>2, <3>3, <3>4, <3>5 DEF IInv, PassInv, HeldInv, TodoInv, HandInv, Mono, Decisions
    <2>3. QED
      BY <2>1, <2>2, ZenonT(30) DEF SweepGid
  <1>5. QED
    BY <1>1, <1>3, <1>4, PassStep, ZenonT(30)

LEMMA SweepGidDoneInv ==
  ASSUME IInv, TypeOK', NEW r \in Resolvers, SweepGidDone(r)
  PROVE  IInv'
  <1>1. UNCHANGED <<row, late, verdict, part, net, coordVars>> /\ \A u \in Txns : Mono(u)
    BY ZenonT(60), SameTxns DEF SweepGidDone, logVars
  <1>2. /\ rpc'[r] = "pass" /\ rheld'[r] = rheld[r]
        /\ rtodo'[r] = {} /\ runscanned'[r] = {}
    BY ZenonT(60) DEF SweepGidDone, IInv, TypeOK, PassTypes, PassInv, HeldInv, TodoInv, HandInv
  <1>3. PassInv(r)'
    BY ZenonT(60), <1>1, <1>2 DEF IInv, PassInv, HeldInv, TodoInv, HandInv, Mono
  <1>4. \A q \in Resolvers \ {r} : SamePass(q)
    BY ZenonT(60) DEF SweepGidDone, SamePass, IInv, TypeOK, PassTypes
  <1>5. QED
    BY <1>1, <1>3, <1>4, PassStep, ZenonT(30)

LEMMA EndPassInv ==
  ASSUME IInv, TypeOK', NEW r \in Resolvers, EndPass(r)
  PROVE  IInv'
  <1>1. rpc'[r] = "idle" /\ rheld'[r] = {} /\ rtodo'[r] = {} /\ runscanned'[r] = {}
    BY ZenonT(60) DEF EndPass, IInv, TypeOK, PassTypes
  <1>2. PassInv(r)'
    BY Zenon, <1>1 DEF PassInv, HeldInv, TodoInv, HandInv
  <1>3. \A q \in Resolvers \ {r} : SamePass(q)
    BY SMTT(30) DEF EndPass, SamePass, IInv, TypeOK, PassTypes
  <1>4. QED
    BY <1>2, <1>3, PassStep, ZenonT(30) DEF EndPass, logVars

-----------------------------------------------------------------------------
(***************************************************************************)
(* The decision log.                                                       *)
(***************************************************************************)

(* What must hold of t for stmt to run on its row without harm. *)
Allowed(t, stmt) ==
  /\ stmt = "begin" => ~Begun(t)
  /\ stmt = "commit" /\ row[t] = "preparing" => \A s \in Writers[t] : part[t][s] = "prepared"
  /\ stmt = "delete" => verdict[t] = "abort" \/ AllCommitted(t)
  /\ stmt = "deleteCommit" => AllCommitted(t)

(* A statement decides an undecided row, or deletes a decided one. *)
LEMMA RunStatementInv ==
  ASSUME IInv, NEW t \in Txns, NEW stmt \in LogStatements, RunStatement(t, stmt),
         Allowed(t, stmt), UNCHANGED part
  PROVE  /\ \A u \in Txns \ {t} : row'[u] = row[u] /\ verdict'[u] = verdict[u]
         /\ Begun(t) => Begun(t)'
         /\ stmt = "begin" => row'[t] = "preparing"
         /\ verdict[t] # "none" => verdict'[t] = verdict[t]
         /\ row'[t] \in Decisions => verdict'[t] = row'[t]
         /\ row'[t] = "preparing" => verdict'[t] = "none" /\ (row[t] = "preparing" \/ stmt = "begin")
         /\ verdict'[t] = "commit" /\ verdict[t] # "commit" =>
              stmt = "commit" /\ row[t] = "preparing"
         /\ PartInv(t)'
  <1> DEFINE after == RowAfter(stmt, row[t], stale[t])
  <1>1. /\ row'[t] = after
        /\ verdict'[t] = IF after \in Decisions THEN after ELSE verdict[t]
        /\ \A u \in Txns \ {t} : row'[u] = row[u] /\ verdict'[u] = verdict[u]
    BY ZenonT(30) DEF RunStatement, IInv, TypeOK, LogTypes
  <1>2. /\ row[t] \in Decisions => verdict[t] = row[t]
        /\ row[t] = "preparing" => verdict[t] = "none"
        /\ row[t] \in {"none", "preparing", "commit", "abort"}
        /\ verdict[t] \in {"none", "commit", "abort"}
    BY ZenonT(60) DEF IInv, LogInv, TypeOK, LogTypes, RowStates, Decisions
  <1>3. AllCommitted(t) => verdict[t] = "commit"
    BY WritersAssumption, ZenonT(30) DEF AllCommitted, IInv, PartInv
  <1>4. /\ Begun(t) => Begun(t)'
        /\ stmt = "begin" => row'[t] = "preparing"
        /\ verdict[t] # "none" => verdict'[t] = verdict[t]
        /\ row'[t] \in Decisions => verdict'[t] = row'[t]
        /\ row'[t] = "preparing" => verdict'[t] = "none" /\ (row[t] = "preparing" \/ stmt = "begin")
        /\ verdict'[t] = "commit" /\ verdict[t] # "commit" => stmt = "commit" /\ row[t] = "preparing"
        /\ row'[t] = "none" /\ verdict'[t] = "commit" =>
             verdict[t] = "commit" /\ (row[t] = "none" \/ AllCommitted(t))
    BY ZenonT(60), <1>1, <1>2, <1>3 DEF RowAfter, Matches, Leaves, Allowed, Begun, Decisions, LogStatements
  <1>5. PartInv(t)'
    BY <1>3, <1>4, SMTT(30) DEF IInv, PartInv, Allowed, AllCommitted
  <1>6. QED
    BY Zenon, <1>1, <1>4, <1>5

(* A late statement reaches the log. *)
LEMMA LateLogInv ==
  ASSUME IInv, TypeOK', NEW t \in Txns, NEW stmt \in LogStatements, LateLog(t, stmt)
  PROVE  IInv'
  <1>1. Allowed(t, stmt)
    BY ZenonT(60) DEF LateLog, Allowed, IInv, LogInv
  <1>2. /\ \A u \in Txns \ {t} : row'[u] = row[u] /\ verdict'[u] = verdict[u]
        /\ Begun(t) => Begun(t)'
        /\ verdict[t] # "none" => verdict'[t] = verdict[t]
        /\ row'[t] \in Decisions => verdict'[t] = row'[t]
        /\ row'[t] = "preparing" => verdict'[t] = "none" /\ (row[t] = "preparing" \/ stmt = "begin")
        /\ verdict'[t] = "commit" /\ verdict[t] # "commit" => stmt = "commit" /\ row[t] = "preparing"
        /\ PartInv(t)'
    BY Zenon, <1>1, RunStatementInv DEF LateLog
  <1>3. /\ late' = late \ {<<t, stmt>>} /\ <<t, stmt>> \in late
        /\ UNCHANGED <<part, net, pc, ack, broken, reply>> /\ UNCHANGED passVars
    BY ZenonT(30) DEF LateLog, coordVars
  <1>4. AllCommitted(t) => AllCommitted(t)'
    BY <1>3, ZenonT(30) DEF AllCommitted
  <1>5. LogInv(t)'
    <2>1. LogInv(t)
      BY ZenonT(30) DEF IInv
    <2>2. <<t, "begin">> \in late' => ~Begun(t)'
      <3>1. SUFFICES ASSUME <<t, "begin">> \in late' PROVE ~Begun(t)'
        BY ZenonT(30)
      <3>2. row[t] = "none" /\ verdict[t] = "none" /\ stmt # "begin"
        BY <1>3, <2>1, <3>1, ZenonT(30) DEF LogInv, Begun
      <3>3. QED
        BY <3>2, ZenonT(30) DEF LateLog, RunStatement, RowAfter, Matches, Leaves, Begun, Decisions,
                    IInv, TypeOK, LogTypes, LogStatements
    <2>3. <<t, "commit">> \in late' => stmt # "begin"
      BY ZenonT(60), <1>3, <2>1 DEF LogInv
    <2>4. QED
      BY Zenon, <1>2, <1>3, <1>4, <2>1, <2>2, <2>3 DEF LogInv
  <1>6. stmt = "commit" => pc[t] \in {"done", "crashed"}
    BY ZenonT(60), <1>3 DEF IInv, LogInv
  <1>7. Dead(t) => Dead(t)'
    BY ZenonT(60), <1>2, <1>3 DEF Dead
  <1>8. stmt = "begin" => pc[t] \in {"quit", "done", "crashed"}
    BY ZenonT(60), <1>3 DEF IInv, LogInv
  <1>9. pc[t] \in {"running", "begin"} => ~Begun(t)'
    <2>1. SUFFICES ASSUME pc[t] \in {"running", "begin"} PROVE ~Begun(t)'
      BY ZenonT(30)
    <2>2. row[t] = "none" /\ verdict[t] = "none" /\ stmt \notin {"begin", "commit"}
      BY ZenonT(60), <2>1, <1>6, <1>8 DEF IInv, CoordInv, Begun
    <2>3. QED
      BY Zenon, <2>2 DEF LateLog, RunStatement, RowAfter, Matches, Leaves, Begun, Decisions,
                  IInv, TypeOK, LogTypes, LogStatements
  <1>10. CoordInv(t)'
    BY ZenonT(60), <1>2, <1>3, <1>4, <1>6, <1>7, <1>9 DEF IInv, CoordInv, AllOk
  <1>11. Mono(t)
    BY ZenonT(60), <1>2, <1>3, <1>7 DEF Mono
  <1>12. \A u \in Txns \ {t} : SameTxn(u)
    BY ZenonT(60), <1>2, <1>3 DEF SameTxn
  <1>13. ASSUME NEW m \in net' PROVE (m \in net /\ m.txn # t) \/ NetInv(m)'
    BY <1>3, <1>11, NetFrame, ZenonT(30) DEF IInv
  <1>14. QED
    BY ZenonT(60), <1>2, <1>3, <1>5, <1>10, <1>11, <1>12, <1>13, TxnStep DEF TxnInv

LEMMA LateLogDroppedInv ==
  ASSUME IInv, TypeOK', NEW t \in Txns, NEW stmt \in LogStatements, LateLogDropped(t, stmt)
  PROVE  IInv'
  <1>1. /\ late' = late \ {<<t, stmt>>}
        /\ UNCHANGED <<row, verdict, part, net, pc, ack, broken, reply>> /\ UNCHANGED passVars
    BY ZenonT(30) DEF LateLogDropped, coordVars
  <1>2. TxnInv(t)' /\ Mono(t)
    <2>1. LogInv(t) /\ PartInv(t) /\ CoordInv(t)
      BY ZenonT(30) DEF IInv
    <2>2. /\ Begun(t)' <=> Begun(t)
          /\ AllCommitted(t)' <=> AllCommitted(t)
          /\ AllOk(t)' <=> AllOk(t)
      BY Zenon, <1>1 DEF Begun, AllCommitted, AllOk
    <2>4. Dead(t) => Dead(t)'
      BY Zenon, <1>1 DEF Dead
    <2>5. LogInv(t)'
      BY Zenon, <1>1, <2>1, <2>2 DEF LogInv
    <2>6. PartInv(t)'
      BY Zenon, <1>1, <2>1, <2>2 DEF PartInv
    <2>7. CoordInv(t)'
      BY ZenonT(60), <1>1, <2>1, <2>2, <2>4 DEF CoordInv
    <2>8. Mono(t)
      BY Zenon, <1>1, <2>2, <2>4 DEF Mono
    <2>9. QED
      BY Zenon, <2>5, <2>6, <2>7, <2>8 DEF TxnInv
  <1>3. \A u \in Txns \ {t} : SameTxn(u)
    BY <1>1, ZenonT(30) DEF SameTxn
  <1>4. ASSUME NEW m \in net' PROVE (m \in net /\ m.txn # t) \/ NetInv(m)'
    BY <1>1, <1>2, NetFrame, ZenonT(30) DEF IInv
  <1>5. QED
    BY <1>1, <1>2, <1>3, <1>4, TxnStep, ZenonT(30)

(* The heartbeat of a row says nothing about its decision. *)
LEMMA StaleInv ==
  ASSUME IInv, TypeOK', NEW t \in Txns, Heartbeat(t) \/ Age(t)
  PROVE  IInv'
  <1>1. UNCHANGED <<row, late, verdict, part, net, pc, ack, broken, reply>> /\ UNCHANGED passVars
    BY ZenonT(30) DEF Heartbeat, Age, coordVars
  <1>2. \A u \in Txns : SameTxn(u)
    BY <1>1, ZenonT(30) DEF SameTxn
  <1>3. TxnInv(t)' /\ Mono(t)
    BY <1>2, SameTxnFrame, ZenonT(30) DEF IInv, TxnInv
  <1>4. ASSUME NEW m \in net' PROVE (m \in net /\ m.txn # t) \/ NetInv(m)'
    BY ZenonT(60), <1>1, <1>3, NetFrame DEF IInv
  <1>5. QED
    BY <1>1, <1>2, <1>3, <1>4, TxnStep, ZenonT(30)

(* The guarded abort of a stale row, and what the pass does next. *)
LEMMA ExpireRowInv ==
  ASSUME IInv, TypeOK', NEW r \in Resolvers, NEW t \in Txns, ExpireRow(r, t)
  PROVE  IInv'
  <1>1. /\ UNCHANGED <<part, net, pc, ack, broken, reply>>
        /\ UNCHANGED <<rseen, runscanned, rheld, rfull>>
        /\ rpc[r] = "pass" /\ runscanned[r] = {} /\ t \in rtodo[r]
    BY ZenonT(60) DEF ExpireRow, Scanned, coordVars
  <1>2. /\ \A u \in Txns : TxnInv(u)' /\ Mono(u)
    <2>1. CASE LogRun(t, "expire")
      <3>1. /\ \A u \in Txns \ {t} : row'[u] = row[u] /\ verdict'[u] = verdict[u]
            /\ Begun(t) => Begun(t)'
            /\ verdict[t] # "none" => verdict'[t] = verdict[t]
            /\ row'[t] \in Decisions => verdict'[t] = row'[t]
            /\ row'[t] = "preparing" => verdict'[t] = "none" /\ row[t] = "preparing"
            /\ verdict'[t] = "commit" => verdict[t] = "commit"
            /\ PartInv(t)'
            /\ late' = late
        BY ZenonT(60), <1>1, <2>1, RunStatementInv DEF LogRun, Allowed, LogStatements
      <3>2. AllCommitted(t) => AllCommitted(t)'
        BY <1>1, ZenonT(30) DEF AllCommitted
      <3>3. Dead(t) => Dead(t)'
        BY ZenonT(60), <1>1, <3>1 DEF Dead
      <3>4. ~Begun(t) => ~Begun(t)'
        BY ZenonT(60), <2>1 DEF LogRun, RunStatement, RowAfter, Matches, Leaves, Begun, Decisions,
                    IInv, TypeOK, LogTypes
      <3>5. LogInv(t)'
        BY ZenonT(60), <1>1, <3>1, <3>2, <3>4 DEF IInv, LogInv
      <3>6. CoordInv(t)'
        BY ZenonT(60), <1>1, <3>1, <3>2, <3>3, <3>4 DEF IInv, CoordInv, AllOk
      <3>7. Mono(t)
        BY Zenon, <1>1, <3>1, <3>3 DEF Mono
      <3>8. \A u \in Txns \ {t} : SameTxn(u)
        BY ZenonT(60), <1>1, <3>1 DEF SameTxn
      <3>9. QED
        BY Zenon, <3>1, <3>5, <3>6, <3>7, <3>8, SameTxnFrame DEF IInv, TxnInv
    <2>2. CASE LogLost(t, "expire")
      <3>1. \A u \in Txns : TxnInv(u)
        BY ZenonT(30) DEF IInv, TxnInv
      <3>2. UNCHANGED <<row, verdict>> /\ late' = late \cup {<<t, "expire">>}
        BY <2>2, ZenonT(30) DEF LogLost
      <3>3. \A u \in Txns : \A stmt \in LogStatements \ {"expire"} :
              <<u, stmt>> \in late' <=> <<u, stmt>> \in late
        BY <3>2, ZenonT(30)
      <3>4. ASSUME NEW u \in Txns PROVE TxnInv(u)' /\ Mono(u)
        <4>1. \A x \in {"begin", "commit", "delete", "deleteCommit"} :
                <<u, x>> \in late' <=> <<u, x>> \in late
          BY <3>3, ZenonT(30) DEF LogStatements
        <4>2. LogInv(u)'
          BY Zenon, <1>1, <3>1, <3>2, <4>1 DEF TxnInv, LogInv, Begun, AllCommitted
        <4>3. PartInv(u)' /\ CoordInv(u)' /\ Mono(u)
          BY <1>1, <3>1, <3>2, <4>1, LateFrame, ZenonT(30) DEF TxnInv
        <4>4. QED
          BY <4>2, <4>3, ZenonT(30) DEF TxnInv
      <3>5. QED
        BY <3>4, ZenonT(30)
    <2>3. QED
      BY ZenonT(60), <2>1, <2>2 DEF ExpireRow
  <1>3. PassInv(r)' /\ \A q \in Resolvers \ {r} : SamePass(q)
    <2>1. CASE NextDecision(r, t)
      BY Zenon, <1>1, <1>2, <2>1, NextDecisionInv
    <2>2. CASE LogRun(t, "expire") /\ row[t] = "preparing" /\ stale[t] /\ FinishAs(r, t, "abort", ~rfull[r])
      <3>1. verdict'[t] = "abort"
        BY ZenonT(60), <2>2 DEF LogRun, RunStatement, RowAfter, Matches, Leaves, Decisions, IInv, TypeOK, LogTypes
      <3>2. (~rfull[r]) \in BOOLEAN /\ "abort" \in Decisions
        BY ZenonT(30) DEF Decisions
      <3>3. QED
        BY ZenonT(60), <1>1, <1>2, <2>2, <3>1, <3>2, FinishAsInv
    <2>3. CASE /\ rpc' = [rpc EXCEPT ![r] = "reread"]
               /\ rcur' = [rcur EXCEPT ![r] = t]
               /\ UNCHANGED <<rtodo, rstate, rkeep>>
      <3>1. /\ rpc'[r] = "reread" /\ rcur'[r] = t /\ rtodo'[r] = rtodo[r] /\ rtodo[r] \subseteq Txns
            /\ \A q \in Resolvers \ {r} : SamePass(q)
        BY ZenonT(60), <1>1, <2>3 DEF SamePass, IInv, TypeOK, PassTypes
      <3>2. HandInv(r)'
        BY Zenon, <1>1, <3>1 DEF HandInv
      <3>3. QED
        BY Zenon, <1>1, <1>2, <3>1, <3>2, HeldKept, TodoKept DEF IInv, PassInv
    <2>4. QED
      BY Zenon, <2>1, <2>2, <2>3 DEF ExpireRow
  <1>4. QED
    BY ZenonT(60), <1>1, <1>2, <1>3, PassMoves

(* No holder is left: the row of a commit goes only when all have committed. *)
LEMMA FinishDecisionInv ==
  ASSUME IInv, TypeOK', NEW r \in Resolvers, FinishDecision(r)
  PROVE  IInv'
  <1>1. PICK t \in Txns : t = rcur[r]
    BY ZenonT(30) DEF IInv, TypeOK, PassTypes
  <1>2. PICK stmt \in {"deleteCommit", "deleteAbort"} :
          stmt = IF rstate[r] = "commit" THEN "deleteCommit" ELSE "deleteAbort"
    BY ZenonT(30)
  <1>3. /\ UNCHANGED <<part, net, pc, ack, broken, reply>>
        /\ UNCHANGED <<rseen, runscanned, rheld, rfull>>
        /\ rpc[r] = "finish" /\ runscanned[r] = {}
        /\ stmt \in LogStatements
    BY ZenonT(60) DEF FinishDecision, coordVars, IInv, PassInv, HeldInv, TodoInv, HandInv, LogStatements
  <1>4. ~rkeep[r] /\ stmt = "deleteCommit" => AllCommitted(t)
    <2>1. SUFFICES ASSUME ~rkeep[r], stmt = "deleteCommit", NEW s \in Writers[t]
                   PROVE  part[t][s] = "committed"
      BY ZenonT(30) DEF AllCommitted
    <2>2. s \in Shards /\ <<t, s>> \notin rheld[r]
      BY <1>1, WritersAssumption, ZenonT(30) DEF FinishDecision, HeldOn
    <2>3. rstate[r] = "commit"
      BY <1>2, <2>1, ZenonT(30)
    <2>4. QED
      BY Zenon, <1>1, <1>3, <2>1, <2>2, <2>3 DEF IInv, PassInv, HeldInv, TodoInv, HandInv
  <1>5. \A u \in Txns : TxnInv(u)' /\ Mono(u)
    <2>1. CASE ~rkeep[r] /\ LogRun(t, stmt)
      <3>1. Allowed(t, stmt)
        BY <1>4, <2>1, ZenonT(30) DEF Allowed
      <3>2. /\ \A u \in Txns \ {t} : row'[u] = row[u] /\ verdict'[u] = verdict[u]
            /\ Begun(t) => Begun(t)'
            /\ verdict[t] # "none" => verdict'[t] = verdict[t]
            /\ row'[t] \in Decisions => verdict'[t] = row'[t]
            /\ row'[t] = "preparing" => verdict'[t] = "none" /\ row[t] = "preparing"
            /\ verdict'[t] = "commit" => verdict[t] = "commit"
            /\ PartInv(t)'
            /\ late' = late
        BY ZenonT(60), <1>3, <2>1, <3>1, RunStatementInv DEF LogRun
      <3>3. AllCommitted(t) => AllCommitted(t)'
        BY <1>3, ZenonT(30) DEF AllCommitted
      <3>4. Dead(t) => Dead(t)'
        BY <1>3, <3>2, ZenonT(30) DEF Dead
      <3>5. ~Begun(t) => ~Begun(t)'
        BY ZenonT(60), <1>3, <2>1 DEF LogRun, RunStatement, RowAfter, Matches, Leaves, Begun, Decisions,
                    IInv, TypeOK, LogTypes
      <3>6. LogInv(t)'
        BY ZenonT(60), <1>3, <3>2, <3>3, <3>5 DEF IInv, LogInv
      <3>7. CoordInv(t)'
        BY ZenonT(60), <1>3, <3>2, <3>3, <3>4, <3>5 DEF IInv, CoordInv, AllOk
      <3>8. Mono(t)
        BY Zenon, <1>3, <3>2, <3>4 DEF Mono
      <3>9. \A u \in Txns \ {t} : SameTxn(u)
        BY Zenon, <1>3, <3>2 DEF SameTxn
      <3>10. QED
        BY ZenonT(60), <1>3, <3>2, <3>6, <3>7, <3>8, <3>9, SameTxnFrame DEF IInv, TxnInv
    <2>2. CASE ~rkeep[r] /\ LogLost(t, stmt)
      <3>1. \A u \in Txns : TxnInv(u)
        BY ZenonT(30) DEF IInv, TxnInv
      <3>2. UNCHANGED <<row, verdict>> /\ late' = late \cup {<<t, stmt>>}
        BY <2>2, ZenonT(30) DEF LogLost
      <3>3. \A u \in Txns : \A x \in LogStatements \ {stmt} :
              <<u, x>> \in late' <=> <<u, x>> \in late
        BY <3>2, ZenonT(30)
      <3>4. \A u \in Txns : <<u, stmt>> \in late' => <<u, stmt>> \in late \/ u = t
        BY <3>2, ZenonT(30)
      <3>5. ASSUME NEW u \in Txns PROVE TxnInv(u)' /\ Mono(u)
        <4>1. LogInv(u)'
          <5>1. <<u, "deleteCommit">> \in late' => AllCommitted(u)
            BY ZenonT(60), <1>4, <2>2, <3>1, <3>3, <3>4 DEF TxnInv, LogInv, LogStatements
          <5>2. QED
            BY Zenon, <1>3, <3>1, <3>2, <3>3, <5>1 DEF TxnInv, LogInv, Begun, AllCommitted, LogStatements
        <4>2. PartInv(u)' /\ CoordInv(u)' /\ Mono(u)
          BY Zenon, <1>3, <3>1, <3>2, <3>3, LateFrame DEF TxnInv, LogStatements
        <4>3. QED
          BY <4>1, <4>2, ZenonT(30) DEF TxnInv
      <3>6. QED
        BY <3>5, ZenonT(30)
    <2>3. CASE UNCHANGED logVars
      BY Zenon, <1>3, <2>3, SameTxnFrame DEF IInv, TxnInv, SameTxn, logVars
    <2>4. QED
      BY <1>1, <1>2, <2>1, <2>2, <2>3, ZenonT(30) DEF FinishDecision
  <1>6. PassInv(r)' /\ \A q \in Resolvers \ {r} : SamePass(q)
    BY ZenonT(60), <1>1, <1>3, <1>5, NextDecisionInv DEF FinishDecision
  <1>7. QED
    BY Zenon, <1>3, <1>5, <1>6, PassMoves

-----------------------------------------------------------------------------
(***************************************************************************)
(* The shards.                                                             *)
(***************************************************************************)

(* What must hold of t for verb to run on shard s without harm. *)
Harmless(t, s, verb) ==
  /\ verb = "prepare" => Begun(t)
  /\ verb = "commitPrepared" => verdict[t] = "commit"
  /\ verb = "rollbackPrepared" => Dead(t) \/ part[t][s] = "committed"

(* A participant that prepared stays prepared until the transaction is
   decided, unless nothing can decide commit any more. *)
LEMMA PartRunInv ==
  ASSUME IInv, NEW t \in Txns, NEW s \in Writers[t], NEW verb \in Verbs, Harmless(t, s, verb),
         part' = [part EXCEPT ![t][s] = PartAfter(verb, @)],
         UNCHANGED <<row, late, verdict, pc>>
  PROVE  /\ LogInv(t)' /\ PartInv(t)' /\ Mono(t)
         /\ \A u \in Txns \ {t} : part'[u] = part[u]
         /\ \A x \in Shards \ {s} : part'[t][x] = part[t][x]
         /\ part'[t][s] = PartAfter(verb, part[t][s])
         /\ \A x \in Shards : pc[t] \in {"prepare", "decide"} /\ part[t][x] = "prepared" =>
              part'[t][x] = "prepared" \/ verdict[t] = "abort"
  <1>1. s \in Shards /\ Writers[t] \subseteq Shards
    BY WritersAssumption, ZenonT(30)
  <1>2. /\ \A u \in Txns \ {t} : part'[u] = part[u]
        /\ \A x \in Shards \ {s} : part'[t][x] = part[t][x]
        /\ part'[t][s] = PartAfter(verb, part[t][s])
        /\ part[t][s] \in PartStates
    BY <1>1, ZenonT(30) DEF IInv, TypeOK, ShardTypes
  <1>3. /\ Begun(t)' <=> Begun(t)
        /\ Dead(t)' <=> Dead(t)
    BY ZenonT(30) DEF Begun, Dead
  <1>4. part[t][s] = "committed" => part'[t][s] = "committed"
    BY <1>2, ZenonT(30) DEF PartAfter
  <1>5. Mono(t)
    BY <1>2, <1>3, <1>4, ZenonT(30) DEF Mono
  <1>6. AllCommitted(t) => AllCommitted(t)'
    BY <1>1, <1>2, <1>4, ZenonT(30) DEF AllCommitted
  <1>7. verdict[t] = "commit" => part'[t][s] \in {"prepared", "committed"}
    BY <1>2, ZenonT(30) DEF IInv, PartInv, PartAfter, Harmless, Dead
  <1>8. PartInv(t)'
    <2>1. part'[t][s] = "prepared" => Begun(t)
      BY <1>1, <1>2, SMTT(30) DEF PartAfter, Harmless, IInv, PartInv, PartStates
    <2>2. part'[t][s] = "committed" => verdict[t] = "commit"
      BY <1>1, <1>2, SMTT(30) DEF PartAfter, Harmless, IInv, PartInv, PartStates
    <2>3. QED
      BY <1>1, <1>2, <1>3, <1>6, <1>7, <2>1, <2>2, SMTT(30) DEF IInv, PartInv
  <1>9. ASSUME NEW x \in Shards, part[t][x] = "prepared", part'[t][x] # "prepared"
        PROVE  verdict[t] = "commit" \/ Dead(t)
    BY <1>2, <1>9, ZenonT(30) DEF PartAfter, Harmless, Verbs
  <1>10. LogInv(t)'
    <2>1. LogInv(t)
      BY ZenonT(30) DEF IInv
    <2>2. <<t, "commit">> \in late /\ row[t] = "preparing" =>
            \A x \in Writers[t] : part'[t][x] = "prepared"
      BY <1>1, <1>9, <2>1, ZenonT(30) DEF LogInv, Dead
    <2>3. QED
      BY <1>3, <1>6, <2>1, <2>2, ZenonT(30) DEF LogInv
  <1>11. \A x \in Shards : pc[t] \in {"prepare", "decide"} /\ part[t][x] = "prepared" =>
           part'[t][x] = "prepared" \/ verdict[t] = "abort"
    BY <1>9, ZenonT(30) DEF IInv, CoordInv, Dead
  <1>12. QED
    BY <1>2, <1>5, <1>8, <1>10, <1>11, ZenonT(30)

(* The coordinator hears a of its last statement on s: "ok" only when the
   statement did what the coordinator's step relies on. *)
LEMMA HearInv ==
  ASSUME IInv, NEW t \in Txns, NEW s \in Writers[t], NEW a \in {"ok", "failed", "lost"},
         UNCHANGED <<row, late, verdict, pc, reply>>,
         Mono(t),
         ack[t][s] = "wait", ack' = [ack EXCEPT ![t][s] = a],
         broken'[t] = broken[t] \/ (broken'[t] = broken[t] \cup {s} /\ a = "lost"),
         \A x \in Shards : pc[t] \in {"prepare", "decide"} /\ part[t][x] = "prepared" =>
           part'[t][x] = "prepared" \/ verdict[t] = "abort",
         a = "ok" /\ pc[t] = "prepare" => part'[t][s] = "prepared",
         a = "ok" /\ pc[t] \in {"applyLead", "applyRest"} => part'[t][s] = "committed"
  PROVE  CoordInv(t)'
  <1>1. s \in Shards /\ Writers[t] \subseteq Shards /\ Lead[t] \in Writers[t]
    BY WritersAssumption, ZenonT(30)
  <1>2. /\ \A x \in Shards \ {s} : ack'[t][x] = ack[t][x]
        /\ ack'[t][s] = a /\ ack[t] \in [Shards -> Acks] /\ broken[t] \subseteq Shards
    BY <1>1, ZenonT(30) DEF IInv, TypeOK, CoordTypes
  <1>3. CoordInv(t)
    BY ZenonT(30) DEF IInv
  <1>4. /\ Begun(t)' <=> Begun(t)
        /\ Dead(t)' <=> Dead(t)
    BY ZenonT(30) DEF Begun, Dead
  <1>5. AllCommitted(t) => AllCommitted(t)'
    BY <1>1, ZenonT(30) DEF AllCommitted, Mono
  <1>6. pc[t] \notin {"running", "begin", "decide"}
    BY <1>3, ZenonT(30) DEF CoordInv, AllOk
  <1>7. /\ \A x \in broken'[t] : ack'[t][x] = "lost"
        /\ \A x \in Shards \ Writers[t] : ack'[t][x] = "ok"
    BY <1>2, <1>3, SMTT(30) DEF CoordInv
  <1>8. pc[t] = "prepare" => \A x \in Writers[t] :
          ack'[t][x] = "ok" => part'[t][x] = "prepared" \/ verdict[t] = "abort"
    BY <1>1, <1>2, <1>3, ZenonT(30) DEF CoordInv
  <1>9. pc[t] = "applyLead" =>
          /\ ack'[t][Lead[t]] = "ok" => part'[t][Lead[t]] = "committed"
          /\ \A x \in Writers[t] \ {Lead[t]} : ack'[t][x] = "ok"
    BY <1>1, <1>2, <1>3, SMTT(30) DEF CoordInv, Mono
  <1>10. pc[t] = "applyRest" => \A x \in Writers[t] :
           ack'[t][x] = "ok" => part'[t][x] = "committed"
    BY <1>1, <1>2, <1>3, SMTT(30) DEF CoordInv, Mono
  <1>11. QED
    BY ZenonT(60), <1>3, <1>4, <1>5, <1>6, <1>7, <1>8, <1>9, <1>10 DEF CoordInv

(* A statement runs and the coordinator hears nothing of it. *)
LEMMA UnheardInv ==
  ASSUME IInv, NEW t \in Txns, UNCHANGED <<row, late, verdict, pc, reply>>,
         ack'[t] = ack[t], broken'[t] = broken[t], Mono(t),
         \A x \in Shards : pc[t] \in {"prepare", "decide"} /\ part[t][x] = "prepared" =>
           part'[t][x] = "prepared" \/ verdict[t] = "abort"
  PROVE  CoordInv(t)'
  <1>1. Writers[t] \subseteq Shards /\ Lead[t] \in Writers[t]
    BY Zenon, WritersAssumption
  <1>2. CoordInv(t)
    BY ZenonT(30) DEF IInv
  <1>3. /\ Begun(t)' <=> Begun(t)
        /\ Dead(t)' <=> Dead(t)
        /\ AllCommitted(t) => AllCommitted(t)'
    BY <1>1, ZenonT(30) DEF Begun, Dead, AllCommitted, Mono
  <1>4. QED
    BY <1>1, <1>2, <1>3, SMTT(30) DEF CoordInv, AllOk, Mono

(* Statements of t that stay in flight when one of them, m, is executed,
   refused, lost or given up on. *)
LEMMA RestInFlight ==
  ASSUME IInv, NEW t \in Txns, NEW s \in Shards, Mono(t),
         UNCHANGED pc, NEW n \in net, net' \subseteq net, n.txn = t,
         \A x \in Shards \ {s} : ack'[t][x] = ack[t][x],
         broken[t] \subseteq broken'[t],
         \/ ack'[t][s] = ack[t][s]
         \/ ack'[t][s] # "wait" /\ (n.shard = s /\ n.by = "router" => s \in broken'[t])
  PROVE  NetInv(n)'
  <1>1. n.txn \in Txns /\ n.shard \in Shards /\ NetInv(n)
    BY Zenon DEF IInv, TypeOK, ShardTypes, Messages
  <1>2. QED
    BY ZenonT(60), <1>1 DEF NetInv, Mono

LEMMA ExecuteInv ==
  ASSUME IInv, TypeOK', NEW m \in net, Execute(m)
  PROVE  IInv'
  <1>1. PICK t \in Txns, s \in Shards, verb \in Verbs :
          t = m.txn /\ s = m.shard /\ verb = m.verb /\ s \in Writers[t]
    BY Zenon DEF IInv, NetInv, TypeOK, ShardTypes, Messages
  <1>2. NetInv(m)
    BY ZenonT(30) DEF IInv
  <1>3. /\ NetInv(m)
        /\ UNCHANGED <<row, late, verdict, pc, broken, reply>> /\ UNCHANGED passVars
        /\ net' = net \ {m}
        /\ part' = [part EXCEPT ![t][s] = PartAfter(verb, @)]
    BY <1>1, ZenonT(30) DEF Execute, IInv, logVars
  <1>4. Harmless(t, s, verb)
    BY <1>1, <1>3, ZenonT(30) DEF NetInv, Harmless
  <1>5. /\ LogInv(t)' /\ PartInv(t)' /\ Mono(t)
        /\ \A u \in Txns \ {t} : part'[u] = part[u]
        /\ part'[t][s] = PartAfter(verb, part[t][s])
        /\ \A x \in Shards : pc[t] \in {"prepare", "decide"} /\ part[t][x] = "prepared" =>
             part'[t][x] = "prepared" \/ verdict[t] = "abort"
    BY ZenonT(60), <1>1, <1>3, <1>4, PartRunInv
  <1>6. CASE Awaited(m)
    <2>1. PICK a \in {"ok", "failed"} :
            a = IF Succeeds(verb, part[t][s]) THEN "ok" ELSE "failed"
      BY ZenonT(30)
    <2>2. ack' = [ack EXCEPT ![t][s] = a] /\ ack[t][s] = "wait" /\ m.by = "router"
      BY <1>1, <1>6, <2>1, ZenonT(30) DEF Execute, Awaited
    <2>3. a = "ok" /\ pc[t] = "prepare" => part'[t][s] = "prepared"
      BY ZenonT(60), <1>1, <1>3, <1>5, <2>1, <2>2 DEF NetInv, Succeeds, PartAfter
    <2>4. a = "ok" /\ pc[t] \in {"applyLead", "applyRest"} => part'[t][s] = "committed"
      BY ZenonT(60), <1>1, <1>3, <1>5, <2>1, <2>2 DEF NetInv, Succeeds, PartAfter
    <2>5. CoordInv(t)'
      BY ZenonT(60), <1>3, <1>5, <2>2, <2>3, <2>4, <1>1, HearInv
    <2>6. /\ \A x \in Shards \ {s} : ack'[t][x] = ack[t][x]
          /\ ack'[t][s] = a
          /\ \A u \in Txns \ {t} : ack'[u] = ack[u]
      BY <1>2, <2>2, ZenonT(30) DEF IInv, TypeOK, CoordTypes
    <2>7. ASSUME NEW n \in net', n.txn = t PROVE NetInv(n)'
      <3>1. n \in net /\ n # m
        BY <1>3, <2>7, ZenonT(30)
      <3>2. ~(n.shard = s /\ n.by = "router")
        BY <1>1, <1>3, <2>2, <2>7, <3>1, ZenonT(30) DEF NetInv
      <3>3. QED
        BY <1>2, <1>3, <1>5, <2>1, <2>6, <2>7, <3>1, <3>2, RestInFlight, SMTT(30)
    <2>8. \A u \in Txns \ {t} : SameTxn(u)
      BY <1>3, <1>5, <2>6, ZenonT(30) DEF SameTxn
    <2>9. \A n \in net' : n \in net /\ (n.txn # t \/ NetInv(n)')
      BY <1>3, <2>7, ZenonT(30)
    <2>10. QED
      BY <1>3, <1>5, <2>5, <2>8, <2>9, TxnStep, ZenonT(30) DEF TxnInv
  <1>7. CASE ~Awaited(m)
    <2>1. ack' = ack
      BY <1>7, ZenonT(30) DEF Execute
    <2>2. CoordInv(t)'
      BY <1>3, <1>5, <2>1, UnheardInv, ZenonT(30)
    <2>3. ASSUME NEW n \in net', n.txn = t PROVE NetInv(n)'
      BY <1>2, <1>3, <1>5, <2>1, <2>3, RestInFlight, ZenonT(30)
    <2>4. \A u \in Txns \ {t} : SameTxn(u)
      BY <1>3, <1>5, <2>1, ZenonT(30) DEF SameTxn
    <2>5. \A n \in net' : n \in net /\ (n.txn # t \/ NetInv(n)')
      BY <1>3, <2>3, ZenonT(30)
    <2>6. QED
      BY <1>3, <1>5, <2>2, <2>4, <2>5, TxnStep, ZenonT(30) DEF TxnInv
  <1>8. QED
    BY <1>6, <1>7, ZenonT(30)

(* A participant whose transaction was still open rolls back. *)
LEMMA OpenEndsInv ==
  ASSUME IInv, NEW t \in Txns, NEW s \in Shards, part[t][s] = "active",
         part' = [part EXCEPT ![t][s] = "aborted"], UNCHANGED <<row, late, verdict, pc>>
  PROVE  /\ LogInv(t)' /\ PartInv(t)' /\ Mono(t)
         /\ \A u \in Txns \ {t} : part'[u] = part[u]
         /\ \A x \in Shards : pc[t] \in {"prepare", "decide"} /\ part[t][x] = "prepared" =>
              part'[t][x] = "prepared" \/ verdict[t] = "abort"
  <1>1. s \in Writers[t]
    BY ZenonT(30) DEF IInv, PartInv
  <1>2. Harmless(t, s, "rollback") /\ PartAfter("rollback", part[t][s]) = "aborted"
    BY ZenonT(30) DEF Harmless, PartAfter
  <1>3. part' = [part EXCEPT ![t][s] = PartAfter("rollback", @)]
    BY Zenon, <1>2
  <1>4. QED
    BY Zenon, <1>1, <1>2, <1>3, PartRunInv DEF Verbs

LEMMA PrepareRefusedInv ==
  ASSUME IInv, TypeOK', NEW m \in net, PrepareRefused(m)
  PROVE  IInv'
  <1>1. PICK t \in Txns, s \in Shards : t = m.txn /\ s = m.shard /\ s \in Writers[t]
    BY Zenon DEF IInv, NetInv, TypeOK, ShardTypes, Messages
  <1>2. NetInv(m)
    BY ZenonT(30) DEF IInv
  <1>3. /\ NetInv(m)
        /\ UNCHANGED <<row, late, verdict, pc, broken, reply>> /\ UNCHANGED passVars
        /\ net' = net \ {m} /\ part[t][s] = "active"
        /\ part' = [part EXCEPT ![t][s] = "aborted"]
    BY <1>1, ZenonT(30) DEF PrepareRefused, IInv, logVars
  <1>4. /\ LogInv(t)' /\ PartInv(t)' /\ Mono(t)
        /\ \A u \in Txns \ {t} : part'[u] = part[u]
        /\ \A x \in Shards : pc[t] \in {"prepare", "decide"} /\ part[t][x] = "prepared" =>
             part'[t][x] = "prepared" \/ verdict[t] = "abort"
    BY ZenonT(60), <1>2, <1>3, OpenEndsInv
  <1>5. CASE Awaited(m)
    <2>1. ack' = [ack EXCEPT ![t][s] = "failed"] /\ ack[t][s] = "wait" /\ m.by = "router"
      BY <1>1, <1>5, ZenonT(30) DEF PrepareRefused, Awaited
    <2>2. CoordInv(t)'
      BY Zenon, <1>3, <1>4, <2>1, <1>1, HearInv
    <2>3. /\ \A x \in Shards \ {s} : ack'[t][x] = ack[t][x]
          /\ ack'[t][s] = "failed"
          /\ \A u \in Txns \ {t} : ack'[u] = ack[u]
      BY ZenonT(60), <1>2, <2>1 DEF IInv, TypeOK, CoordTypes
    <2>4. ASSUME NEW n \in net', n.txn = t PROVE NetInv(n)'
      <3>1. n \in net /\ n # m
        BY <1>3, <2>4, ZenonT(30)
      <3>2. ~(n.shard = s /\ n.by = "router")
        BY <1>1, <1>3, <2>1, <2>4, <3>1, ZenonT(30) DEF NetInv
      <3>3. QED
        BY <1>2, <1>3, <1>4, <2>3, <2>4, <3>1, <3>2, RestInFlight, ZenonT(30)
    <2>5. \A u \in Txns \ {t} : SameTxn(u)
      BY <1>3, <1>4, <2>3, ZenonT(30) DEF SameTxn
    <2>6. \A n \in net' : n \in net /\ (n.txn # t \/ NetInv(n)')
      BY <1>3, <2>4, ZenonT(30)
    <2>7. QED
      BY <1>3, <1>4, <2>2, <2>5, <2>6, TxnStep, ZenonT(30) DEF TxnInv
  <1>6. CASE ~Awaited(m)
    <2>1. ack' = ack
      BY <1>6, ZenonT(30) DEF PrepareRefused
    <2>2. CoordInv(t)'
      BY <1>3, <1>4, <2>1, UnheardInv, ZenonT(30)
    <2>3. ASSUME NEW n \in net', n.txn = t PROVE NetInv(n)'
      BY <1>2, <1>3, <1>4, <2>1, <2>3, RestInFlight, ZenonT(30)
    <2>4. \A u \in Txns \ {t} : SameTxn(u)
      BY <1>3, <1>4, <2>1, ZenonT(30) DEF SameTxn
    <2>5. \A n \in net' : n \in net /\ (n.txn # t \/ NetInv(n)')
      BY <1>3, <2>3, ZenonT(30)
    <2>6. QED
      BY <1>3, <1>4, <2>2, <2>4, <2>5, TxnStep, ZenonT(30) DEF TxnInv
  <1>7. QED
    BY <1>5, <1>6, ZenonT(30)

LEMMA BackendEndsInv ==
  ASSUME IInv, TypeOK', NEW t \in Txns, NEW s \in Shards, BackendEnds(t, s)
  PROVE  IInv'
  <1>1. /\ UNCHANGED <<row, late, verdict, net, pc, ack, broken, reply>> /\ UNCHANGED passVars
        /\ part[t][s] = "active" /\ part' = [part EXCEPT ![t][s] = "aborted"]
    BY ZenonT(30) DEF BackendEnds, logVars, coordVars
  <1>2. /\ LogInv(t)' /\ PartInv(t)' /\ Mono(t)
        /\ \A u \in Txns \ {t} : part'[u] = part[u]
        /\ \A x \in Shards : pc[t] \in {"prepare", "decide"} /\ part[t][x] = "prepared" =>
             part'[t][x] = "prepared" \/ verdict[t] = "abort"
    BY ZenonT(60), <1>1, OpenEndsInv
  <1>3. CoordInv(t)'
    BY <1>1, <1>2, UnheardInv, ZenonT(30)
  <1>4. ASSUME NEW n \in net', n.txn = t PROVE NetInv(n)'
    BY <1>1, <1>2, <1>4, RestInFlight, ZenonT(30)
  <1>5. \A u \in Txns \ {t} : SameTxn(u)
    BY <1>1, <1>2, ZenonT(30) DEF SameTxn
  <1>6. QED
    BY <1>1, <1>2, <1>3, <1>4, <1>5, TxnStep, ZenonT(30) DEF TxnInv

(* A stream breaks while its statement is in flight, has run, or never will. *)
LEMMA StreamLostInv ==
  ASSUME IInv, TypeOK', NEW t \in Txns, NEW s \in Writers[t], StreamLost(t, s),
         ack[t][s] = "wait", net' \subseteq net, UNCHANGED <<row, late, verdict, pc, reply>>,
         UNCHANGED passVars, LogInv(t)', PartInv(t)', Mono(t),
         \A u \in Txns \ {t} : part'[u] = part[u],
         \A x \in Shards : pc[t] \in {"prepare", "decide"} /\ part[t][x] = "prepared" =>
           part'[t][x] = "prepared" \/ verdict[t] = "abort"
  PROVE  IInv'
  <1>1. s \in Shards
    BY WritersAssumption, ZenonT(30)
  <1>2. /\ ack' = [ack EXCEPT ![t][s] = "lost"] /\ broken'[t] = broken[t] \cup {s}
        /\ \A x \in Shards \ {s} : ack'[t][x] = ack[t][x]
        /\ ack'[t][s] = "lost"
        /\ \A u \in Txns \ {t} : ack'[u] = ack[u] /\ broken'[u] = broken[u]
    BY <1>1, SMTT(30) DEF StreamLost, IInv, TypeOK, CoordTypes
  <1>3. CoordInv(t)'
    BY ZenonT(60), <1>2, HearInv
  <1>4. ASSUME NEW n \in net', n.txn = t PROVE NetInv(n)'
    BY <1>1, <1>2, <1>4, RestInFlight, ZenonT(30)
  <1>5. \A u \in Txns \ {t} : SameTxn(u)
    BY <1>2, ZenonT(30) DEF SameTxn
  <1>6. QED
    BY <1>3, <1>4, <1>5, TxnStep, ZenonT(30) DEF TxnInv

LEMMA AnswerLostInv ==
  ASSUME IInv, TypeOK', NEW m \in net, AnswerLost(m)
  PROVE  IInv'
  <1>1. PICK t \in Txns, s \in Shards, verb \in Verbs :
          t = m.txn /\ s = m.shard /\ verb = m.verb /\ s \in Writers[t]
    BY Zenon DEF IInv, NetInv, TypeOK, ShardTypes, Messages
  <1>2. /\ NetInv(m) /\ ack[t][s] = "wait" /\ StreamLost(t, s)
        /\ UNCHANGED <<row, late, verdict, pc, reply>> /\ UNCHANGED passVars
        /\ net' \subseteq net
        /\ part' = [part EXCEPT ![t][s] = PartAfter(verb, @)]
    BY <1>1, ZenonT(30) DEF AnswerLost, Awaited, IInv, logVars
  <1>3. Harmless(t, s, verb)
    BY <1>1, <1>2, ZenonT(30) DEF NetInv, Harmless
  <1>4. QED
    BY ZenonT(60), <1>1, <1>2, <1>3, PartRunInv, StreamLostInv

LEMMA KeptParts ==
  ASSUME IInv, NEW t \in Txns, UNCHANGED <<row, late, verdict, pc, part>>
  PROVE  LogInv(t)' /\ PartInv(t)' /\ Mono(t)
  BY ZenonT(60) DEF IInv, LogInv, PartInv, Mono, Begun, Dead, AllCommitted

LEMMA StatementLostInv ==
  ASSUME IInv, TypeOK', NEW m \in net, StatementLost(m)
  PROVE  IInv'
  <1>1. PICK t \in Txns, s \in Shards : t = m.txn /\ s = m.shard /\ s \in Writers[t]
    BY Zenon DEF IInv, NetInv, TypeOK, ShardTypes, Messages
  <1>2. /\ UNCHANGED <<row, late, verdict, part, pc, reply>> /\ UNCHANGED passVars
        /\ net' \subseteq net
    BY ZenonT(30) DEF StatementLost, logVars
  <1>3. LogInv(t)' /\ PartInv(t)' /\ Mono(t)
    BY <1>2, KeptParts, ZenonT(30)
  <1>4. CASE Awaited(m)
    <2>1. StreamLost(t, s) /\ ack[t][s] = "wait"
      BY <1>1, <1>4, ZenonT(30) DEF StatementLost, Awaited
    <2>2. QED
      BY <1>1, <1>2, <1>3, <2>1, StreamLostInv, ZenonT(30)
  <1>5. CASE ~Awaited(m)
    <2>1. UNCHANGED <<ack, broken>>
      BY <1>5, ZenonT(30) DEF StatementLost
    <2>2. CoordInv(t)'
      BY <1>2, <1>3, <2>1, UnheardInv, ZenonT(30)
    <2>3. ASSUME NEW n \in net', n.txn = t PROVE NetInv(n)'
      BY <1>2, <1>3, <2>1, <2>3, RestInFlight, ZenonT(30)
    <2>4. \A u \in Txns \ {t} : SameTxn(u)
      BY ZenonT(60), <1>2, <2>1 DEF SameTxn
    <2>5. QED
      BY <1>2, <1>3, <2>2, <2>3, <2>4, TxnStep, ZenonT(30) DEF TxnInv
  <1>6. QED
    BY <1>4, <1>5, ZenonT(30)

LEMMA GiveUpInv ==
  ASSUME IInv, TypeOK', NEW t \in Txns, NEW s \in Shards, GiveUp(t, s)
  PROVE  IInv'
  <1>1. /\ UNCHANGED <<row, late, verdict, part, net, pc, reply>> /\ UNCHANGED passVars
        /\ ack[t][s] = "wait" /\ StreamLost(t, s)
    BY ZenonT(30) DEF GiveUp, logVars
  <1>2. LogInv(t)' /\ PartInv(t)' /\ Mono(t)
    BY ZenonT(60), <1>1, KeptParts
  <1>3. s \in Writers[t]
    BY ZenonT(60), <1>1 DEF IInv, CoordInv
  <1>4. QED
    BY <1>1, <1>2, <1>3, StreamLostInv, ZenonT(30)

(* A pass finishes gid t on a holder only in the direction it was decided. *)
LEMMA FinishHarmless ==
  ASSUME IInv, NEW r \in Resolvers, NEW s \in Shards, NEW t \in Txns, t = rcur[r],
         rpc[r] \in {"finish", "sweep"}, s \in HeldOn(r, t)
  PROVE  /\ s \in Writers[t] /\ FinishVerb(rstate[r] = "commit") \in Verbs
         /\ Harmless(t, s, FinishVerb(rstate[r] = "commit"))
  <1>1. s \in Writers[t] /\ PassInv(r) /\ rstate[r] \in Decisions
    BY ZenonT(60) DEF HeldOn, IInv, PassInv, HeldInv, TodoInv, HandInv, TypeOK, PassTypes
  <1>2. CASE rstate[r] = "commit"
    BY ZenonT(60), <1>1, <1>2 DEF PassInv, HeldInv, TodoInv, HandInv, FinishVerb, Harmless, Verbs
  <1>3. CASE rstate[r] = "abort"
    <2>1. verdict[t] = "abort" \/ AllCommitted(t)
      BY ZenonT(60), <1>1, <1>3 DEF PassInv, HeldInv, TodoInv, HandInv
    <2>2. QED
      BY ZenonT(60), <1>1, <1>3, <2>1 DEF FinishVerb, Harmless, Verbs, Dead, AllCommitted
  <1>4. QED
    BY ZenonT(60), <1>1, <1>2, <1>3 DEF Decisions

LEMMA FinishRunsInv ==
  ASSUME IInv, NEW r \in Resolvers, NEW s \in Shards, NEW t \in Txns, t = rcur[r],
         rpc[r] \in {"finish", "sweep"}, s \in HeldOn(r, t), FinishRuns(r, s),
         UNCHANGED <<row, late, verdict, pc, ack, broken, reply>>
  PROVE  /\ \A u \in Txns : TxnInv(u)' /\ Mono(u)
         /\ rstate[r] = "commit" => part'[t][s] = "committed"
  <1> DEFINE verb == FinishVerb(rstate[r] = "commit")
  <1>1. s \in Writers[t] /\ verb \in Verbs /\ Harmless(t, s, verb)
    BY ZenonT(60), FinishHarmless
  <1>2. part' = [part EXCEPT ![t][s] = PartAfter(verb, @)]
    BY ZenonT(30) DEF FinishRuns
  <1>3. /\ LogInv(t)' /\ PartInv(t)' /\ Mono(t)
        /\ \A u \in Txns \ {t} : part'[u] = part[u]
        /\ part'[t][s] = PartAfter(verb, part[t][s])
        /\ \A x \in Shards : pc[t] \in {"prepare", "decide"} /\ part[t][x] = "prepared" =>
             part'[t][x] = "prepared" \/ verdict[t] = "abort"
    BY ZenonT(60), <1>1, <1>2, PartRunInv
  <1>4. CoordInv(t)'
    BY ZenonT(60), <1>3, UnheardInv
  <1>5. \A u \in Txns \ {t} : SameTxn(u)
    BY ZenonT(60), <1>3 DEF SameTxn
  <1>6. rstate[r] = "commit" => part'[t][s] = "committed"
    BY ZenonT(60), <1>1, <1>3 DEF FinishVerb, PartAfter, Harmless, IInv, PartInv
  <1>7. QED
    BY ZenonT(60), <1>3, <1>4, <1>5, <1>6, SameTxnFrame DEF IInv, TxnInv

LEMMA FinishLostInv ==
  ASSUME IInv, NEW r \in Resolvers, NEW s \in Shards, NEW t \in Txns, t = rcur[r],
         rpc[r] \in {"finish", "sweep"}, s \in HeldOn(r, t), FinishLost(r, s),
         UNCHANGED <<row, late, verdict, pc, ack, broken, reply>>
  PROVE  /\ \A u \in Txns : TxnInv(u)' /\ Mono(u)
         /\ \A m \in net' : m \in net \/ (m.by = "resolver" /\ NetInv(m)')
  <1>1. PICK verb \in Verbs : /\ verb = FinishVerb(rstate[r] = "commit")
                              /\ s \in Writers[t] /\ Harmless(t, s, verb)
    BY ZenonT(60), FinishHarmless
  <1>2. net' = net \cup {Msg(t, s, verb, "resolver")} /\ UNCHANGED part
    BY ZenonT(60), <1>1 DEF FinishLost
  <1>3. \A u \in Txns : TxnInv(u)' /\ Mono(u)
    BY ZenonT(60), <1>2, SameTxnFrame DEF IInv, TxnInv, SameTxn
  <1>4. NetInv(Msg(t, s, verb, "resolver"))'
    BY ZenonT(60), <1>1, <1>2 DEF NetInv, Msg, Harmless, Begun, Dead
  <1>5. QED
    BY <1>2, <1>3, <1>4, SMTT(30) DEF Msg

LEMMA FinishHolderInv ==
  ASSUME IInv, TypeOK', NEW r \in Resolvers, NEW s \in Shards, FinishHolder(r, s)
  PROVE  IInv'
  <1>1. PICK t \in Txns : t = rcur[r]
    BY ZenonT(30) DEF IInv, TypeOK, PassTypes
  <1>2. /\ rpc[r] = "finish" /\ s \in HeldOn(r, t) /\ runscanned[r] = {}
        /\ UNCHANGED <<row, late, verdict, pc, ack, broken, reply>>
        /\ UNCHANGED <<rseen, runscanned, rfull>>
    BY ZenonT(60), <1>1 DEF FinishHolder, logVars, coordVars, IInv, PassInv, HeldInv, TodoInv, HandInv
  <1>3. CASE FinishRuns(r, s) /\ UNCHANGED <<rpc, rtodo, rcur, rstate, rkeep>>
    <2>1. /\ \A u \in Txns : TxnInv(u)' /\ Mono(u)
          /\ rstate[r] = "commit" => part'[t][s] = "committed"
      BY ZenonT(60), <1>1, <1>2, <1>3, FinishRunsInv
    <2>2. /\ rheld'[r] = rheld[r] \ {<<t, s>>} /\ UNCHANGED net
          /\ \A q \in Resolvers \ {r} : SamePass(q)
      BY ZenonT(60), <1>1, <1>2, <1>3 DEF FinishRuns, SamePass, IInv, TypeOK, PassTypes
    <2>3. \A u \in Txns, x \in Shards : <<u, x>> \in rheld[r] /\ <<u, x>> \notin rheld'[r] =>
            u = t /\ x = s
      BY <2>2, ZenonT(30)
    <2>4. PassInv(r) /\ rtodo[r] \subseteq Txns /\ rstate[r] \in Decisions
          /\ \A u \in Txns : Writers[u] \subseteq Shards
      BY WritersAssumption, ZenonT(30) DEF IInv, TypeOK, PassTypes
    <2>5. ASSUME NEW u \in rtodo[r], rseen[r][u] = "commit", rfull[r], NEW x \in Writers[u]
          PROVE  part'[u][x] = "committed" \/ x \in runscanned[r] \/ <<u, x>> \in rheld'[r]
      <3>1. verdict[u] = "commit" /\ u \in Txns /\ x \in Shards
        BY ZenonT(60), <2>4, <2>5 DEF PassInv, HeldInv, TodoInv, HandInv, Decisions
      <3>2. part[u][x] = "committed" \/ x \in runscanned[r] \/ <<u, x>> \in rheld[r]
        BY ZenonT(60), <2>4, <2>5 DEF PassInv, HeldInv, TodoInv, HandInv
      <3>3. u = t => rstate[r] = "commit"
        BY ZenonT(60), <1>1, <1>2, <2>4, <3>1 DEF PassInv, HeldInv, TodoInv, HandInv, Decisions
      <3>4. QED
        BY ZenonT(60), <2>1, <2>3, <3>1, <3>2, <3>3 DEF Mono
    <2>6. ASSUME rstate[r] = "commit", ~rkeep[r], NEW x \in Writers[t]
          PROVE  part'[t][x] = "committed" \/ <<t, x>> \in rheld'[r]
      <3>1. part[t][x] = "committed" \/ <<t, x>> \in rheld[r]
        BY ZenonT(60), <1>1, <1>2, <2>4, <2>6 DEF PassInv, HeldInv, TodoInv, HandInv
      <3>2. QED
        BY ZenonT(60), <2>1, <2>3, <2>4, <2>6, <3>1 DEF Mono
    <2>7. PassInv(r)'
      BY ZenonT(60), <1>1, <1>2, <1>3, <2>1, <2>2, <2>4, <2>5, <2>6 DEF PassInv, HeldInv, TodoInv, HandInv, Mono, Decisions
    <2>8. QED
      BY ZenonT(60), <1>2, <2>1, <2>2, <2>7, PassMoves
  <1>4. CASE FinishLost(r, s) /\ UNCHANGED rheld /\ NextDecision(r, rcur[r])
    <2>1. /\ \A u \in Txns : TxnInv(u)' /\ Mono(u)
          /\ \A m \in net' : m \in net \/ (m.by = "resolver" /\ NetInv(m)')
      BY ZenonT(60), <1>1, <1>2, <1>4, FinishLostInv
    <2>2. PassInv(r)' /\ \A q \in Resolvers \ {r} : SamePass(q)
      BY ZenonT(60), <1>1, <1>2, <1>4, <2>1, NextDecisionInv
    <2>3. QED
      BY ZenonT(60), <1>2, <2>1, <2>2, PassMoves
  <1>5. QED
    BY ZenonT(60), <1>3, <1>4 DEF FinishHolder

LEMMA SweepHolderInv ==
  ASSUME IInv, TypeOK', NEW r \in Resolvers, NEW s \in Shards, SweepHolder(r, s)
  PROVE  IInv'
  <1>1. PICK t \in Txns : t = rcur[r]
    BY ZenonT(30) DEF IInv, TypeOK, PassTypes
  <1>2. /\ rpc[r] = "sweep" /\ s \in HeldOn(r, t)
        /\ UNCHANGED <<row, late, verdict, pc, ack, broken, reply>>
        /\ UNCHANGED <<rpc, rseen, runscanned, rfull, rtodo, rcur, rstate, rkeep>>
    BY ZenonT(60), <1>1 DEF SweepHolder, logVars, coordVars
  <1>3. rheld'[r] \subseteq rheld[r] /\ \A q \in Resolvers \ {r} : SamePass(q)
    BY <1>2, SMTT(30) DEF SweepHolder, FinishRuns, SamePass, IInv, TypeOK, PassTypes
  <1>4. /\ \A u \in Txns : TxnInv(u)' /\ Mono(u)
        /\ \A m \in net' : m \in net \/ (m.by = "resolver" /\ NetInv(m)')
    <2>1. CASE FinishRuns(r, s)
      BY ZenonT(60), <1>1, <1>2, <2>1, FinishRunsInv DEF FinishRuns
    <2>2. CASE FinishLost(r, s)
      BY Zenon, <1>1, <1>2, <2>2, FinishLostInv
    <2>3. QED
      BY Zenon, <2>1, <2>2 DEF SweepHolder
  <1>5. PassInv(r)'
    <2>1. PassInv(r) /\ rtodo[r] = {} /\ runscanned[r] = {} /\ Writers[t] \subseteq Shards
      BY ZenonT(60), <1>2, WritersAssumption DEF IInv, PassInv, HeldInv, TodoInv, HandInv
    <2>2. AllCommitted(t) => AllCommitted(t)'
      BY ZenonT(60), <1>4, <2>1 DEF AllCommitted, Mono
    <2>3. QED
      BY ZenonT(60), <1>1, <1>2, <1>3, <1>4, <2>1, <2>2 DEF PassInv, HeldInv, TodoInv, HandInv, Mono
  <1>6. QED
    BY ZenonT(60), <1>2, <1>3, <1>4, <1>5, PassMoves
=============================================================================
