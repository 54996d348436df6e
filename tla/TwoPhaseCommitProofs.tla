------------------------- MODULE TwoPhaseCommitProofs -------------------------
(***************************************************************************)
(* The steps of the coordinators keep the inductive invariant; the safety  *)
(* properties of the two-phase commit follow from it, and so does that it  *)
(* implements AtomicCommit.                                                *)
(***************************************************************************)
EXTENDS TwoPhaseCommitInvariant

-----------------------------------------------------------------------------
(***************************************************************************)
(* The coordinator.                                                        *)
(***************************************************************************)

Deciding == {"running", "begin", "prepare", "decide"}

(* The statements verb[s] that step sends agree with what is decided by then. *)
Fits(t, step, S, verb) ==
  \A s \in S :
    /\ verb[s] = "prepare" => Begun(t)'
    /\ verb[s] = "commitPrepared" => verdict'[t] = "commit"
    /\ verb[s] = "rollbackPrepared" => Dead(t)'
    /\ step = "prepare" => verb[s] = "prepare"
    /\ step \in {"applyLead", "applyRest"} => verb[s] = "commitPrepared"

(* Step sends verb[s] to the shards of S, none of which has yet to answer. *)
Issuing(t, step, S, verb) ==
  /\ S \subseteq Writers[t] /\ verb \in [Shards -> Verbs]
  /\ Issue(t, step, S, verb) /\ part' = part /\ broken' = broken
  /\ Fits(t, step, S, verb) /\ Mono(t)
  /\ pc[t] \notin {"done", "crashed"}
  /\ \A s \in Writers[t] : ack[t][s] # "wait"

Issued(t, step, S) ==
  /\ pc'[t] = step /\ \A u \in Txns \ {t} : pc'[u] = pc[u] /\ ack'[u] = ack[u]
  /\ \A s \in S : ack'[t][s] = IF s \in broken[t] THEN "lost" ELSE "wait"
  /\ \A s \in Shards \ S : ack'[t][s] = ack[t][s]
  /\ \A m \in net' : m \in net \/ m.txn = t
  /\ \A m \in net' : (m \in net /\ m.txn # t) \/ NetInv(m)'

LEMMA IssueInv ==
  ASSUME IInv, NEW t \in Txns, NEW step, NEW S, NEW verb, Issuing(t, step, S, verb)
  PROVE  Issued(t, step, S)
  <1>1. Writers[t] \subseteq Shards /\ S \subseteq Writers[t] /\ part' = part /\ broken' = broken
    BY Zenon, WritersAssumption DEF Issuing
  <1>2. /\ pc'[t] = step /\ \A u \in Txns \ {t} : pc'[u] = pc[u] /\ ack'[u] = ack[u]
        /\ \A s \in S : ack'[t][s] = IF s \in broken[t] THEN "lost" ELSE "wait"
        /\ \A s \in Shards \ S : ack'[t][s] = ack[t][s]
    BY ZenonT(60), <1>1 DEF Issuing, Issue, IInv, TypeOK, CoordTypes
  <1>3. ASSUME NEW m \in net'
        PROVE  m \in net \/ \E s \in S \ broken[t] : m = Msg(t, s, verb[s], "router")
    BY ZenonT(30) DEF Issuing, Issue
  <1>4. \A n \in net : n.by = "router" /\ n.txn = t => n.shard \in broken[t]
    <2>1. SUFFICES ASSUME NEW n \in net, n.by = "router", n.txn = t
                   PROVE  n.shard \in broken[t]
      BY ZenonT(30)
    <2>2. NetInv(n)
      BY ZenonT(30) DEF IInv
    <2>3. QED
      BY ZenonT(60), <1>1, <2>1, <2>2, WritersAssumption DEF NetInv, Issuing
  <1>5. ASSUME NEW m \in net, m.txn = t PROVE NetInv(m)'
    <2>1. NetInv(m) /\ m.shard \in Shards /\ m.shard \in Writers[t]
      BY ZenonT(60), <1>5, <1>1 DEF IInv, NetInv
    <2>2. m.by = "router" => m.shard \in broken[t] /\ ack'[t][m.shard] # "wait"
      BY <1>1, <1>2, <1>4, <1>5, <2>1, ZenonT(60) DEF Issuing
    <2>3. QED
      BY ZenonT(60), <1>1, <1>5, <2>1, <2>2 DEF NetInv, Mono, Issuing
  <1>6. ASSUME NEW s \in S \ broken[t] PROVE NetInv(Msg(t, s, verb[s], "router"))'
    <2>1. s \in Shards /\ ack'[t][s] = "wait" /\ verb[s] \in Verbs
      BY ZenonT(60), <1>1, <1>2 DEF Issuing
    <2>2. ASSUME NEW n \in net', n.by = "router", n.txn = t, n.shard = s
          PROVE  n = Msg(t, s, verb[s], "router")
      BY <1>3, <1>4, <2>2 DEF Msg
    <2>3. QED
      BY Zenon, <1>2, <2>1, <2>2 DEF NetInv, Msg, Fits, Issuing
  <1>7. QED
    BY <1>2, <1>3, <1>5, <1>6 DEF Msg, Issued

(* A coordinator that sends nothing: its statements in flight are no longer
   awaited, or it has none. *)
LEMMA SilentInv ==
  ASSUME IInv, NEW t \in Txns, UNCHANGED <<part, net>>, Mono(t),
         \/ pc'[t] \in {"done", "crashed"} /\ \A s \in Shards : ack'[t][s] = "ok"
         \/ /\ \A s \in Writers[t] : ack[t][s] # "wait"
            /\ pc[t] \notin {"done", "crashed"} /\ ack'[t] = ack[t] /\ broken'[t] = broken[t]
  PROVE  /\ \A m \in net' : m \in net \/ m.txn = t
         /\ \A m \in net' : (m \in net /\ m.txn # t) \/ NetInv(m)'
  <1>1. SUFFICES ASSUME NEW m \in net, m.txn = t PROVE NetInv(m)'
    BY ZenonT(60)
  <1>2. NetInv(m) /\ m.shard \in Shards /\ m.shard \in Writers[t]
    BY ZenonT(60), <1>1, WritersAssumption DEF IInv, NetInv
  <1>3. QED
    BY ZenonT(60), <1>1, <1>2 DEF NetInv, Mono

(* A coordinator's step that leaves the decision log alone. *)
LEMMA QuietInv ==
  ASSUME IInv, NEW t \in Txns, UNCHANGED <<row, late, verdict, part>>,
         pc[t] \notin {"done", "crashed"},
         pc[t] = "quit" => pc'[t] = "done",
         pc[t] \in Deciding \/ pc'[t] \notin Deciding
  PROVE  LogInv(t)' /\ PartInv(t)' /\ Mono(t)
  BY ZenonT(60) DEF IInv, LogInv, PartInv, Mono, Begun, Dead, AllCommitted, Deciding

LEMMA AnswerInv ==
  ASSUME IInv, NEW t \in Txns, NEW a, Answer(t, a)
  PROVE  /\ pc'[t] = "done" /\ reply'[t] = a /\ broken'[t] = {}
         /\ \A s \in Shards : ack'[t][s] = "ok"
         /\ \A u \in Txns \ {t} : /\ pc'[u] = pc[u] /\ reply'[u] = reply[u]
                                  /\ broken'[u] = broken[u] /\ ack'[u] = ack[u]
  BY ZenonT(30) DEF Answer, All, IInv, TypeOK, CoordTypes

LEMMA CollectXidsInv ==
  ASSUME IInv, TypeOK', NEW t \in Txns, CollectXids(t)
  PROVE  IInv'
  <1>1. /\ UNCHANGED <<row, late, verdict, part, broken, reply>> /\ UNCHANGED passVars
        /\ pc[t] = "running" /\ CoordInv(t)
    BY ZenonT(30) DEF CollectXids, logVars, IInv
  <1>2. /\ Writers[t] \subseteq Shards /\ broken[t] \subseteq Shards
        /\ \A s \in Writers[t] : ack[t][s] = "ok"
    BY ZenonT(60), <1>1, WritersAssumption DEF CoordInv, AllOk, IInv, TypeOK, CoordTypes
  <1>3. CASE pc' = [pc EXCEPT ![t] = "begin"] /\ UNCHANGED <<ack, net>>
    <2>1. pc'[t] = "begin" /\ \A u \in Txns \ {t} : pc'[u] = pc[u]
      BY ZenonT(60), <1>3 DEF IInv, TypeOK, CoordTypes
    <2>2. LogInv(t)' /\ PartInv(t)' /\ Mono(t)
      BY ZenonT(60), <1>1, <2>1, QuietInv DEF Deciding
    <2>3. CoordInv(t)'
      BY ZenonT(60), <1>1, <1>3, <2>1 DEF CoordInv, Begun, AllOk
    <2>4. \A u \in Txns \ {t} : SameTxn(u)
      BY ZenonT(60), <1>1, <1>3, <2>1 DEF SameTxn
    <2>5. /\ \A m \in net' : m \in net \/ m.txn = t
          /\ \A m \in net' : (m \in net /\ m.txn # t) \/ NetInv(m)'
      BY ZenonT(60), <1>1, <1>2, <1>3, <2>2, SilentInv
    <2>6. QED
      BY ZenonT(60), <1>1, <2>2, <2>3, <2>4, <2>5, TxnStep DEF TxnInv
  <1>4. CASE Issue(t, "quit", Writers[t], All("rollback"))
    <2>1. pc'[t] = "quit"
      BY ZenonT(60), <1>4 DEF Issue, IInv, TypeOK, CoordTypes
    <2>2. LogInv(t)' /\ PartInv(t)' /\ Mono(t)
      BY <1>1, <2>1, QuietInv, ZenonT(30) DEF Deciding
    <2>3. Issuing(t, "quit", Writers[t], All("rollback"))
      BY ZenonT(60), <1>1, <1>2, <1>4, <2>2 DEF Issuing, Fits, All, Verbs
    <2>4. Issued(t, "quit", Writers[t])
      BY <2>3, IssueInv, ZenonT(30)
    <2>5. CoordInv(t)'
      BY ZenonT(60), <1>1, <1>2, <2>1, <2>4 DEF CoordInv, Begun, Issued
    <2>6. \A u \in Txns \ {t} : SameTxn(u)
      BY ZenonT(60), <1>1, <2>4 DEF SameTxn, Issued
    <2>7. QED
      BY ZenonT(60), <1>1, <2>2, <2>4, <2>5, <2>6, TxnStep DEF TxnInv, Issued
  <1>5. QED
    BY <1>3, <1>4, ZenonT(30) DEF CollectXids

(* The last step of a coordinator: it answers what is true by then. *)
LEMMA AnsweredInv ==
  ASSUME IInv, TypeOK', NEW t \in Txns, NEW a, Answer(t, a),
         part' = part, net' = net, UNCHANGED passVars,
         \A u \in Txns \ {t} : /\ row'[u] = row[u] /\ verdict'[u] = verdict[u]
                               /\ \A stmt \in LogStatements : <<u, stmt>> \in late' <=> <<u, stmt>> \in late,
         LogInv(t)', PartInv(t)', Mono(t),
         a = "commit" => verdict'[t] = "commit",
         a \in {"retry", "error"} => Dead(t)'
  PROVE  IInv'
  <1>1. /\ pc'[t] = "done" /\ reply'[t] = a /\ broken'[t] = {}
        /\ \A s \in Shards : ack'[t][s] = "ok"
        /\ \A u \in Txns \ {t} : /\ pc'[u] = pc[u] /\ reply'[u] = reply[u]
                                 /\ broken'[u] = broken[u] /\ ack'[u] = ack[u]
    BY ZenonT(60), AnswerInv
  <1>2. CoordInv(t)'
    BY ZenonT(60), <1>1 DEF CoordInv
  <1>3. \A u \in Txns \ {t} : SameTxn(u)
    BY ZenonT(60), <1>1 DEF SameTxn
  <1>4. /\ \A m \in net' : m \in net \/ m.txn = t
        /\ \A m \in net' : (m \in net /\ m.txn # t) \/ NetInv(m)'
    BY ZenonT(60), <1>1, SilentInv
  <1>5. QED
    BY ZenonT(60), <1>2, <1>3, <1>4, TxnStep DEF TxnInv

LEMMA QuitDoneInv ==
  ASSUME IInv, TypeOK', NEW t \in Txns, QuitDone(t)
  PROVE  IInv'
  <1>1. /\ UNCHANGED <<row, late, verdict, part, net>> /\ UNCHANGED passVars
        /\ pc[t] = "quit" /\ CoordInv(t) /\ Answer(t, "error")
    BY ZenonT(30) DEF QuitDone, logVars, IInv
  <1>2. pc'[t] = "done"
    BY <1>1, AnswerInv, ZenonT(30)
  <1>3. LogInv(t)' /\ PartInv(t)' /\ Mono(t)
    BY <1>1, <1>2, QuietInv, ZenonT(30) DEF Deciding
  <1>4. Dead(t)'
    BY ZenonT(60), <1>1, <1>2 DEF CoordInv, Dead
  <1>5. QED
    BY ZenonT(60), <1>1, <1>3, <1>4, AnsweredInv

LEMMA RetractDoneInv ==
  ASSUME IInv, TypeOK', NEW t \in Txns, RetractDone(t)
  PROVE  IInv'
  <1>1. /\ UNCHANGED <<row, late, verdict, part, net>> /\ UNCHANGED passVars
        /\ pc[t] = "retract" /\ CoordInv(t) /\ Answer(t, "retry")
    BY ZenonT(30) DEF RetractDone, logVars, IInv
  <1>2. pc'[t] = "done"
    BY ZenonT(60), <1>1, AnswerInv
  <1>3. LogInv(t)' /\ PartInv(t)' /\ Mono(t)
    BY ZenonT(60), <1>1, <1>2, QuietInv DEF Deciding
  <1>4. Dead(t)'
    BY ZenonT(60), <1>1, <1>2 DEF CoordInv, Dead
  <1>5. QED
    BY ZenonT(60), <1>1, <1>3, <1>4, AnsweredInv

(* A step on that sends nothing and hears nothing. *)
LEMMA StepOnInv ==
  ASSUME IInv, TypeOK', NEW t \in Txns, NEW step, pc' = [pc EXCEPT ![t] = step],
         UNCHANGED <<row, late, verdict, part, net, ack, broken, reply>>, UNCHANGED passVars,
         pc[t] \notin {"done", "crashed", "quit"}, \A s \in Writers[t] : ack[t][s] # "wait",
         pc[t] \in Deciding \/ step \notin Deciding,
         pc'[t] = step => CoordInv(t)'
  PROVE  IInv'
  <1>1. pc'[t] = step /\ \A u \in Txns \ {t} : pc'[u] = pc[u]
    BY ZenonT(60) DEF IInv, TypeOK, CoordTypes
  <1>2. LogInv(t)' /\ PartInv(t)' /\ Mono(t)
    BY ZenonT(60), <1>1, QuietInv
  <1>3. \A u \in Txns \ {t} : SameTxn(u)
    BY <1>1, ZenonT(30) DEF SameTxn
  <1>4. /\ \A m \in net' : m \in net \/ m.txn = t
        /\ \A m \in net' : (m \in net /\ m.txn # t) \/ NetInv(m)'
    BY <1>2, SilentInv, ZenonT(30)
  <1>5. QED
    BY ZenonT(60), <1>1, <1>2, <1>3, <1>4, TxnStep DEF TxnInv

LEMMA UndoDoneInv ==
  ASSUME IInv, TypeOK', NEW t \in Txns, UndoDone(t)
  PROVE  IInv'
  <1>1. /\ UNCHANGED <<row, late, verdict, part, net, ack, broken, reply>> /\ UNCHANGED passVars
        /\ pc[t] = "undo" /\ CoordInv(t) /\ pc' = [pc EXCEPT ![t] = "logAbort"]
        /\ \A s \in Writers[t] : ack[t][s] # "wait"
    BY ZenonT(30) DEF UndoDone, logVars, IInv, Waiting
  <1>2. pc'[t] = "logAbort" => CoordInv(t)'
    BY Zenon, <1>1 DEF CoordInv, Begun
  <1>3. QED
    BY Zenon, <1>1, <1>2, StepOnInv DEF Deciding

LEMMA ApplyDoneInv ==
  ASSUME IInv, TypeOK', NEW t \in Txns, ApplyDone(t)
  PROVE  IInv'
  <1>1. /\ UNCHANGED <<row, late, verdict, part, net>> /\ UNCHANGED passVars
        /\ pc[t] = "applyRest" /\ CoordInv(t) /\ \A s \in Writers[t] : ack[t][s] # "wait"
    BY ZenonT(60) DEF ApplyDone, logVars, IInv, Waiting
  <1>2. CASE AllOk(t) /\ pc' = [pc EXCEPT ![t] = "deleteCommit"] /\ UNCHANGED <<reply, ack, broken>>
    <2>1. AllCommitted(t)'
      BY ZenonT(60), <1>1, <1>2 DEF CoordInv, AllOk, AllCommitted
    <2>2. pc'[t] = "deleteCommit" => CoordInv(t)'
      BY ZenonT(60), <1>1, <1>2, <2>1 DEF CoordInv
    <2>3. QED
      BY ZenonT(60), <1>1, <1>2, <2>2, StepOnInv DEF Deciding
  <1>3. CASE Answer(t, "commit")
    <2>1. pc'[t] = "done"
      BY ZenonT(60), <1>3, AnswerInv
    <2>2. LogInv(t)' /\ PartInv(t)' /\ Mono(t)
      BY ZenonT(60), <1>1, <2>1, QuietInv DEF Deciding
    <2>3. verdict'[t] = "commit"
      BY ZenonT(60), <1>1 DEF CoordInv
    <2>4. QED
      BY ZenonT(60), <1>1, <1>3, <2>2, <2>3, AnsweredInv
  <1>4. QED
    BY <1>2, <1>3, ZenonT(30) DEF ApplyDone

LEMMA ApplyLeadDoneInv ==
  ASSUME IInv, TypeOK', NEW t \in Txns, ApplyLeadDone(t)
  PROVE  IInv'
  <1>1. /\ UNCHANGED <<row, late, verdict, part, broken, reply>> /\ UNCHANGED passVars
        /\ pc[t] = "applyLead" /\ CoordInv(t) /\ verdict[t] = "commit"
        /\ Issue(t, "applyRest", Writers[t] \ {Lead[t]}, All("commitPrepared"))
        /\ Writers[t] \subseteq Shards /\ Lead[t] \in Writers[t] /\ broken[t] \subseteq Shards
    BY ZenonT(60), WritersAssumption DEF ApplyLeadDone, logVars, IInv, CoordInv, TypeOK, CoordTypes
  <1>2. \A s \in Writers[t] : ack[t][s] # "wait"
    BY ZenonT(60), <1>1 DEF ApplyLeadDone, CoordInv
  <1>3. pc'[t] = "applyRest"
    BY ZenonT(60), <1>1 DEF Issue, IInv, TypeOK, CoordTypes
  <1>4. LogInv(t)' /\ PartInv(t)' /\ Mono(t)
    BY ZenonT(60), <1>1, <1>3, QuietInv DEF Deciding
  <1>5. Issuing(t, "applyRest", Writers[t] \ {Lead[t]}, All("commitPrepared"))
    BY ZenonT(60), <1>1, <1>2, <1>4 DEF Issuing, Fits, All, Verbs
  <1>6. Issued(t, "applyRest", Writers[t] \ {Lead[t]})
    BY <1>5, IssueInv, ZenonT(30)
  <1>7. CoordInv(t)'
    BY <1>1, <1>3, <1>6 DEF CoordInv, Issued
  <1>8. \A u \in Txns \ {t} : SameTxn(u)
    BY Zenon, <1>1, <1>6 DEF SameTxn, Issued
  <1>9. QED
    BY ZenonT(60), <1>1, <1>4, <1>6, <1>7, <1>8, TxnStep DEF TxnInv, Issued

(* All prepared: on to the decision.  Otherwise all are undone, and nothing
   decides commit any more. *)
LEMMA PrepareDoneInv ==
  ASSUME IInv, TypeOK', NEW t \in Txns, PrepareDone(t)
  PROVE  IInv'
  <1>1. /\ UNCHANGED <<row, late, verdict, part, broken, reply>> /\ UNCHANGED passVars
        /\ pc[t] = "prepare" /\ CoordInv(t) /\ \A s \in Writers[t] : ack[t][s] # "wait"
        /\ Writers[t] \subseteq Shards /\ broken[t] \subseteq Shards
    BY WritersAssumption, ZenonT(30) DEF PrepareDone, logVars, IInv, Waiting, TypeOK, CoordTypes
  <1>2. CASE AllOk(t) /\ pc' = [pc EXCEPT ![t] = "decide"] /\ UNCHANGED <<ack, net>>
    <2>1. verdict[t] = "abort" \/ \A s \in Writers[t] : part[t][s] = "prepared"
      BY ZenonT(60), <1>1, <1>2 DEF CoordInv, AllOk
    <2>2. pc'[t] = "decide" => CoordInv(t)'
      BY ZenonT(60), <1>1, <1>2, <2>1 DEF CoordInv, Begun, AllOk
    <2>3. QED
      BY ZenonT(60), <1>1, <1>2, <2>2, StepOnInv DEF Deciding
  <1>3. CASE Issue(t, "undo", Writers[t],
               [s \in Shards |-> IF ack[t][s] = "ok" THEN "rollbackPrepared" ELSE "rollback"])
    <2>1. pc'[t] = "undo"
      BY ZenonT(60), <1>3 DEF Issue, IInv, TypeOK, CoordTypes
    <2>2. LogInv(t)' /\ PartInv(t)' /\ Mono(t)
      BY <1>1, <2>1, QuietInv, ZenonT(30) DEF Deciding
    <2>3. Dead(t)'
      BY ZenonT(60), <1>1, <2>1 DEF CoordInv, Dead
    <2>4. Issuing(t, "undo", Writers[t],
            [s \in Shards |-> IF ack[t][s] = "ok" THEN "rollbackPrepared" ELSE "rollback"])
      BY ZenonT(60), <1>1, <1>3, <2>2, <2>3 DEF Issuing, Fits, Verbs
    <2>5. Issued(t, "undo", Writers[t])
      BY <2>4, IssueInv, ZenonT(30)
    <2>6. CoordInv(t)'
      BY ZenonT(60), <1>1, <2>1, <2>5 DEF CoordInv, Begun, Issued
    <2>7. \A u \in Txns \ {t} : SameTxn(u)
      BY ZenonT(60), <1>1, <2>5 DEF SameTxn, Issued
    <2>8. QED
      BY ZenonT(60), <1>1, <2>2, <2>5, <2>6, <2>7, TxnStep DEF TxnInv, Issued
  <1>4. QED
    BY <1>2, <1>3, ZenonT(30) DEF PrepareDone

(* The row is inserted before any participant is asked to prepare. *)
LEMMA LogBeginInv ==
  ASSUME IInv, TypeOK', NEW t \in Txns, LogBegin(t)
  PROVE  IInv'
  <1>1. /\ UNCHANGED <<part, broken, reply>> /\ UNCHANGED passVars
        /\ pc[t] = "begin" /\ CoordInv(t) /\ ~Begun(t) /\ LogInv(t)
        /\ Writers[t] \subseteq Shards /\ broken[t] \subseteq Shards
        /\ \A s \in Writers[t] : ack[t][s] = "ok"
        /\ <<t, "commit">> \notin late /\ <<t, "begin">> \notin late
    BY ZenonT(60), WritersAssumption DEF LogBegin, IInv, CoordInv, AllOk, TypeOK, CoordTypes, LogInv
  <1>2. row[t] = "none" /\ verdict[t] = "none"
    BY <1>1, ZenonT(30) DEF Begun
  <1>3. CASE LogRun(t, "begin") /\ Issue(t, "prepare", Writers[t], All("prepare"))
    <2>1. pc'[t] = "prepare"
      BY ZenonT(60), <1>3 DEF Issue, IInv, TypeOK, CoordTypes
    <2>2. Allowed(t, "begin")
      BY ZenonT(60), <1>1 DEF Allowed
    <2>3. /\ \A u \in Txns \ {t} : row'[u] = row[u] /\ verdict'[u] = verdict[u]
          /\ row'[t] = "preparing" /\ verdict'[t] = "none" /\ PartInv(t)' /\ late' = late
      BY ZenonT(60), <1>1, <1>3, <2>2, RunStatementInv DEF LogRun, LogStatements
    <2>4. LogInv(t)'
      BY ZenonT(60), <1>1, <1>2, <2>3 DEF LogInv, AllCommitted, Decisions
    <2>5. Mono(t)
      BY ZenonT(60), <1>1, <1>2, <2>1, <2>3 DEF Mono, Begun, Dead
    <2>6. Issuing(t, "prepare", Writers[t], All("prepare"))
      BY ZenonT(60), <1>1, <1>3, <2>3, <2>5 DEF Issuing, Fits, All, Begun, Verbs
    <2>7. Issued(t, "prepare", Writers[t])
      BY <2>6, IssueInv, ZenonT(30)
    <2>8. CoordInv(t)'
      BY ZenonT(60), <1>1, <2>1, <2>3, <2>7 DEF CoordInv, Begun, Issued
    <2>9. \A u \in Txns \ {t} : SameTxn(u)
      BY ZenonT(60), <1>1, <2>3, <2>7 DEF SameTxn, Issued
    <2>10. QED
      BY ZenonT(60), <1>1, <2>3, <2>4, <2>5, <2>7, <2>8, <2>9, TxnStep DEF TxnInv, Issued
  <1>4. CASE LogLost(t, "begin") /\ Issue(t, "quit", Writers[t], All("rollback"))
    <2>1. pc'[t] = "quit"
      BY Zenon, <1>4 DEF Issue, IInv, TypeOK, CoordTypes
    <2>2. UNCHANGED <<row, verdict>> /\ late' = late \cup {<<t, "begin">>}
      BY <1>4, ZenonT(30) DEF LogLost
    <2>3. \A u \in Txns, stmt \in LogStatements :
            u # t \/ stmt # "begin" => (<<u, stmt>> \in late' <=> <<u, stmt>> \in late)
      BY <2>2, ZenonT(30)
    <2>4. LogInv(t)' /\ PartInv(t)' /\ Mono(t)
      BY ZenonT(60), <1>1, <1>2, <2>1, <2>2, <2>3
      DEF IInv, LogInv, PartInv, Mono, Begun, Dead, AllCommitted, Decisions, LogStatements
    <2>5. Issuing(t, "quit", Writers[t], All("rollback"))
      BY ZenonT(60), <1>1, <1>4, <2>4 DEF Issuing, Fits, All, Verbs
    <2>6. Issued(t, "quit", Writers[t])
      BY <2>5, IssueInv, ZenonT(30)
    <2>7. CoordInv(t)'
      BY ZenonT(60), <1>1, <2>1, <2>2, <2>3, <2>6 DEF CoordInv, Begun, LogStatements, Issued
    <2>8. \A u \in Txns \ {t} : SameTxn(u)
      BY ZenonT(60), <1>1, <2>2, <2>3, <2>6 DEF SameTxn, Issued
    <2>9. QED
      BY ZenonT(60), <1>1, <2>4, <2>6, <2>7, <2>8, TxnStep DEF TxnInv, Issued
  <1>5. QED
    BY <1>3, <1>4, ZenonT(30) DEF LogBegin

(* A lost catalog statement may run later; nothing else changes in the log. *)
LEMMA LogLostInv ==
  ASSUME IInv, NEW t \in Txns, NEW stmt \in {"commit", "abort", "delete"},
         late' = late \cup {<<t, stmt>>}, UNCHANGED <<row, verdict, part>>,
         pc[t] \in {"logAbort", "decide", "deleteAbort", "deleteCommit"},
         pc'[t] \in {"done", "crashed"},
         stmt = "commit" => pc[t] = "decide",
         stmt = "delete" => pc[t] \in {"deleteAbort", "deleteCommit"}
  PROVE  /\ LogInv(t)' /\ PartInv(t)' /\ Mono(t)
         /\ \A u \in Txns \ {t}, x \in LogStatements : <<u, x>> \in late' <=> <<u, x>> \in late
         /\ stmt # "commit" => (<<t, "commit">> \in late' <=> <<t, "commit">> \in late)
  <1>1. LogInv(t) /\ PartInv(t) /\ CoordInv(t)
    BY ZenonT(30) DEF IInv
  <1>2. \A u \in Txns, x \in LogStatements :
          u # t \/ x # stmt => (<<u, x>> \in late' <=> <<u, x>> \in late)
    BY ZenonT(30)
  <1>3. <<t, "begin">> \notin late
    BY ZenonT(60), <1>1 DEF LogInv
  <1>4. pc[t] \in {"logAbort", "decide"} => Begun(t)
    BY ZenonT(60), <1>1 DEF CoordInv
  <1>5. stmt = "delete" => verdict[t] = "abort" \/ AllCommitted(t)
    BY ZenonT(60), <1>1 DEF CoordInv
  <1>6. stmt = "commit" /\ row[t] = "preparing" => \A s \in Writers[t] : part[t][s] = "prepared"
    BY ZenonT(60), <1>1 DEF CoordInv, LogInv
  <1>7. LogInv(t)'
    BY ZenonT(60), <1>1, <1>2, <1>3, <1>4, <1>5, <1>6 DEF LogInv, Begun, AllCommitted, LogStatements
  <1>8. PartInv(t)'
    BY ZenonT(60), <1>1 DEF PartInv, Begun, AllCommitted
  <1>9. Mono(t)
    BY ZenonT(60), <1>1, <1>2 DEF Mono, Begun, Dead, CoordInv, LogStatements
  <1>10. QED
    BY ZenonT(60), <1>2, <1>7, <1>8, <1>9 DEF LogStatements

(* A catalog statement of the coordinator runs: what it leaves behind. *)
LEMMA LogRunInv ==
  ASSUME IInv, NEW t \in Txns, NEW stmt \in {"commit", "abort", "delete"}, LogRun(t, stmt),
         UNCHANGED part,
         pc[t] \in {"logAbort", "decide", "deleteAbort", "deleteCommit"},
         pc'[t] \notin Deciding,
         stmt = "commit" => pc[t] = "decide",
         stmt = "abort" => pc[t] = "logAbort",
         stmt = "delete" => pc[t] \in {"deleteAbort", "deleteCommit"}
  PROVE  /\ LogInv(t)' /\ PartInv(t)' /\ Mono(t) /\ late' = late
         /\ \A u \in Txns \ {t} : row'[u] = row[u] /\ verdict'[u] = verdict[u]
         /\ stmt = "commit" => verdict'[t] = IF row[t] = "preparing" THEN "commit" ELSE "abort"
         /\ stmt = "abort" => verdict'[t] = "abort"
  <1>1. LogInv(t) /\ CoordInv(t) /\ Writers[t] # {}
    BY ZenonT(60), WritersAssumption DEF IInv
  <1>2. stmt \in LogStatements /\ RunStatement(t, stmt) /\ late' = late
    BY ZenonT(60) DEF LogStatements, LogRun
  <1>3. Allowed(t, stmt)
    BY ZenonT(60), <1>1 DEF Allowed, CoordInv, LogInv
  <1>4. /\ \A u \in Txns \ {t} : row'[u] = row[u] /\ verdict'[u] = verdict[u]
        /\ Begun(t) => Begun(t)'
        /\ verdict[t] # "none" => verdict'[t] = verdict[t]
        /\ row'[t] \in Decisions => verdict'[t] = row'[t]
        /\ row'[t] = "preparing" => verdict'[t] = "none" /\ row[t] = "preparing"
        /\ verdict'[t] = "commit" /\ verdict[t] # "commit" => stmt = "commit" /\ row[t] = "preparing"
        /\ PartInv(t)'
    BY ZenonT(60), <1>2, <1>3, RunStatementInv
  <1>5. <<t, "begin">> \notin late
    BY ZenonT(60), <1>1 DEF LogInv
  <1>6. AllCommitted(t) => AllCommitted(t)'
    BY ZenonT(60) DEF AllCommitted
  <1>7. LogInv(t)'
    BY ZenonT(60), <1>1, <1>2, <1>4, <1>5, <1>6 DEF LogInv
  <1>8. Mono(t)
    BY ZenonT(60), <1>1, <1>2, <1>4 DEF Mono, Dead, Deciding, CoordInv
  <1>9. pc[t] \in {"logAbort", "decide"} =>
          row[t] = "preparing" \/ verdict[t] = "abort"
    BY ZenonT(60), <1>1 DEF CoordInv, LogInv, Begun, IInv, TypeOK, LogTypes, RowStates, Decisions
  <1>10. stmt \in {"commit", "abort"} /\ row[t] = "preparing" => verdict'[t] = stmt
    BY Zenon, <1>2 DEF RunStatement, RowAfter, Matches, Leaves, Decisions, IInv, TypeOK, LogTypes
  <1>11. row[t] = "preparing" => verdict[t] = "none"
    BY ZenonT(60), <1>1 DEF LogInv
  <1>12. QED
    BY ZenonT(60), <1>2, <1>4, <1>7, <1>8, <1>9, <1>10, <1>11

LEMMA LogAbortInv ==
  ASSUME IInv, TypeOK', NEW t \in Txns, LogAbort(t)
  PROVE  IInv'
  <1>1. /\ UNCHANGED <<part, net>> /\ UNCHANGED passVars
        /\ pc[t] = "logAbort" /\ CoordInv(t)
    BY ZenonT(30) DEF LogAbort, IInv
  <1>2. CASE LogRun(t, "abort") /\ Answer(t, "error")
    <2>1. pc'[t] = "done"
      BY ZenonT(60), <1>2, AnswerInv
    <2>2. /\ LogInv(t)' /\ PartInv(t)' /\ Mono(t) /\ late' = late /\ verdict'[t] = "abort"
          /\ \A u \in Txns \ {t} : row'[u] = row[u] /\ verdict'[u] = verdict[u]
      BY ZenonT(60), <1>1, <1>2, <2>1, LogRunInv DEF Deciding
    <2>3. Dead(t)'
      BY <2>2, ZenonT(30) DEF Dead
    <2>4. QED
      BY ZenonT(60), <1>1, <1>2, <2>2, <2>3, AnsweredInv
  <1>3. CASE LogLost(t, "abort") /\ Answer(t, "error")
    <2>1. pc'[t] = "done"
      BY Zenon, <1>3, AnswerInv
    <2>2. UNCHANGED <<row, verdict>> /\ late' = late \cup {<<t, "abort">>}
      BY <1>3, ZenonT(30) DEF LogLost
    <2>3. /\ LogInv(t)' /\ PartInv(t)' /\ Mono(t)
          /\ \A u \in Txns \ {t}, x \in LogStatements : <<u, x>> \in late' <=> <<u, x>> \in late
          /\ <<t, "commit">> \in late' <=> <<t, "commit">> \in late
      BY ZenonT(60), <1>1, <2>1, <2>2, LogLostInv
    <2>4. Dead(t)'
      BY ZenonT(60), <1>1, <2>1, <2>2, <2>3 DEF Dead, CoordInv
    <2>5. QED
      BY ZenonT(60), <1>1, <1>3, <2>2, <2>3, <2>4, AnsweredInv
  <1>4. CASE /\ LogRun(t, "abort") /\ AllOk(t)
             /\ pc' = [pc EXCEPT ![t] = "deleteAbort"] /\ UNCHANGED <<reply, ack, broken>>
    <2>1. pc'[t] = "deleteAbort" /\ \A u \in Txns \ {t} : pc'[u] = pc[u]
      BY ZenonT(60), <1>4 DEF IInv, TypeOK, CoordTypes
    <2>2. /\ LogInv(t)' /\ PartInv(t)' /\ Mono(t) /\ late' = late /\ verdict'[t] = "abort"
          /\ \A u \in Txns \ {t} : row'[u] = row[u] /\ verdict'[u] = verdict[u]
      BY ZenonT(60), <1>1, <1>4, <2>1, LogRunInv DEF Deciding
    <2>3. CoordInv(t)'
      BY ZenonT(60), <1>1, <1>4, <2>1, <2>2 DEF CoordInv
    <2>4. \A u \in Txns \ {t} : SameTxn(u)
      BY ZenonT(60), <1>1, <1>4, <2>1, <2>2 DEF SameTxn
    <2>5. \A s \in Writers[t] : ack[t][s] # "wait"
      BY <1>4, ZenonT(30) DEF AllOk
    <2>6. /\ \A m \in net' : m \in net \/ m.txn = t
          /\ \A m \in net' : (m \in net /\ m.txn # t) \/ NetInv(m)'
      BY ZenonT(60), <1>1, <1>4, <2>2, <2>5, SilentInv
    <2>7. QED
      BY ZenonT(60), <1>1, <2>2, <2>3, <2>4, <2>6, TxnStep DEF TxnInv
  <1>5. QED
    BY <1>2, <1>3, <1>4, ZenonT(30) DEF LogAbort

LEMMA LogDeleteInv ==
  ASSUME IInv, TypeOK', NEW t \in Txns, LogDelete(t)
  PROVE  IInv'
  <1>1. PICK a \in {"commit", "error"} : a = IF pc[t] = "deleteCommit" THEN "commit" ELSE "error"
    BY ZenonT(30)
  <1>2. /\ UNCHANGED <<part, net>> /\ UNCHANGED passVars /\ Answer(t, a)
        /\ pc[t] \in {"deleteAbort", "deleteCommit"} /\ CoordInv(t)
    BY <1>1, ZenonT(30) DEF LogDelete, IInv
  <1>3. pc'[t] = "done"
    BY ZenonT(60), <1>2, AnswerInv
  <1>4. /\ a = "commit" => verdict[t] = "commit"
        /\ a = "error" => verdict[t] = "abort"
    BY ZenonT(60), <1>1, <1>2 DEF CoordInv
  <1>5. CASE LogRun(t, "delete")
    <2>1. /\ LogInv(t)' /\ PartInv(t)' /\ Mono(t) /\ late' = late
          /\ \A u \in Txns \ {t} : row'[u] = row[u] /\ verdict'[u] = verdict[u]
      BY ZenonT(60), <1>2, <1>3, <1>5, LogRunInv DEF Deciding
    <2>2. (a = "commit" => verdict'[t] = "commit") /\ (a \in {"retry", "error"} => Dead(t)')
      BY ZenonT(60), <1>4, <2>1 DEF Dead, Mono
    <2>3. QED
      BY ZenonT(60), <1>2, <2>1, <2>2, AnsweredInv
  <1>6. CASE LogLost(t, "delete")
    <2>1. UNCHANGED <<row, verdict>> /\ late' = late \cup {<<t, "delete">>}
      BY <1>6, ZenonT(30) DEF LogLost
    <2>2. /\ LogInv(t)' /\ PartInv(t)' /\ Mono(t)
          /\ \A u \in Txns \ {t}, x \in LogStatements : <<u, x>> \in late' <=> <<u, x>> \in late
      BY ZenonT(60), <1>2, <1>3, <2>1, LogLostInv
    <2>3. (a = "commit" => verdict'[t] = "commit") /\ (a \in {"retry", "error"} => Dead(t)')
      BY <1>4, <2>1, ZenonT(30) DEF Dead
    <2>4. QED
      BY Zenon, <1>2, <2>1, <2>2, <2>3, AnsweredInv
  <1>7. QED
    BY <1>5, <1>6, ZenonT(30) DEF LogDelete

(* The decision: commit is taken only with every writer prepared. *)
LEMMA LogCommitInv ==
  ASSUME IInv, TypeOK', NEW t \in Txns, LogCommit(t)
  PROVE  IInv'
  <1>1. /\ part' = part /\ UNCHANGED passVars
        /\ pc[t] = "decide" /\ CoordInv(t)
        /\ Writers[t] \subseteq Shards /\ Lead[t] \in Writers[t] /\ broken[t] \subseteq Shards
        /\ \A s \in Writers[t] : ack[t][s] = "ok"
    BY ZenonT(60), WritersAssumption DEF LogCommit, IInv, CoordInv, AllOk, TypeOK, CoordTypes
  <1>2. ASSUME LogRun(t, "commit"), UNCHANGED <<reply, broken>>, row[t] = "preparing",
               Issue(t, "applyLead", {Lead[t]}, All("commitPrepared"))
        PROVE  IInv'
    <2>1. pc'[t] = "applyLead"
      BY ZenonT(60), <1>2 DEF Issue, IInv, TypeOK, CoordTypes
    <2>2. /\ LogInv(t)' /\ PartInv(t)' /\ Mono(t) /\ late' = late /\ verdict'[t] = "commit"
          /\ \A u \in Txns \ {t} : row'[u] = row[u] /\ verdict'[u] = verdict[u]
      BY ZenonT(60), <1>1, <1>2, <2>1, LogRunInv DEF Deciding
    <2>3. Issuing(t, "applyLead", {Lead[t]}, All("commitPrepared"))
      BY Zenon, <1>1, <1>2, <2>2 DEF Issuing, Fits, All, Verbs
    <2>4. Issued(t, "applyLead", {Lead[t]})
      BY <2>3, IssueInv, ZenonT(30)
    <2>5. CoordInv(t)'
      BY ZenonT(60), <1>1, <1>2, <2>1, <2>2, <2>4 DEF CoordInv, Issued
    <2>6. \A u \in Txns \ {t} : SameTxn(u)
      BY Zenon, <1>1, <1>2, <2>2, <2>4 DEF SameTxn, Issued
    <2>7. QED
      BY ZenonT(60), <1>1, <2>2, <2>4, <2>5, <2>6, TxnStep DEF TxnInv, Issued
  <1>3. ASSUME LogRun(t, "commit"), UNCHANGED <<reply, broken>>, row[t] # "preparing",
               Issue(t, "retract", Writers[t], All("rollbackPrepared"))
        PROVE  IInv'
    <2>1. pc'[t] = "retract"
      BY ZenonT(60), <1>3 DEF Issue, IInv, TypeOK, CoordTypes
    <2>2. /\ LogInv(t)' /\ PartInv(t)' /\ Mono(t) /\ late' = late /\ verdict'[t] = "abort"
          /\ \A u \in Txns \ {t} : row'[u] = row[u] /\ verdict'[u] = verdict[u]
      BY ZenonT(60), <1>1, <1>3, <2>1, LogRunInv DEF Deciding
    <2>3. Issuing(t, "retract", Writers[t], All("rollbackPrepared"))
      BY Zenon, <1>1, <1>3, <2>2 DEF Issuing, Fits, All, Verbs, Dead
    <2>4. Issued(t, "retract", Writers[t])
      BY <2>3, IssueInv, ZenonT(30)
    <2>5. CoordInv(t)'
      BY <1>1, <1>3, <2>1, <2>2, <2>4, ZenonT(60) DEF CoordInv, Issued
    <2>6. \A u \in Txns \ {t} : SameTxn(u)
      BY Zenon, <1>1, <1>3, <2>2, <2>4 DEF SameTxn, Issued
    <2>7. QED
      BY ZenonT(60), <1>1, <2>2, <2>4, <2>5, <2>6, TxnStep DEF TxnInv, Issued
  <1>4. ASSUME LogLost(t, "commit"), Answer(t, "inDoubt"), UNCHANGED net
        PROVE  IInv'
    <2>1. pc'[t] = "done"
      BY <1>4, AnswerInv, ZenonT(30)
    <2>2. UNCHANGED <<row, verdict>> /\ late' = late \cup {<<t, "commit">>}
      BY <1>4, ZenonT(30) DEF LogLost
    <2>3. /\ LogInv(t)' /\ PartInv(t)' /\ Mono(t)
          /\ \A u \in Txns \ {t}, x \in LogStatements : <<u, x>> \in late' <=> <<u, x>> \in late
      BY ZenonT(60), <1>1, <2>1, <2>2, LogLostInv
    <2>4. QED
      BY ZenonT(60), <1>1, <1>4, <2>2, <2>3, AnsweredInv
  <1>5. QED
    BY ZenonT(60), <1>2, <1>3, <1>4 DEF LogCommit

(* A router that dies leaves its statements in flight behind. *)
LEMMA CrashInv ==
  ASSUME IInv, TypeOK', NEW t \in Txns, Crash(t)
  PROVE  IInv'
  <1>1. /\ UNCHANGED <<row, verdict, part, net, reply>> /\ UNCHANGED passVars
        /\ pc[t] \notin {"done", "crashed"} /\ CoordInv(t) /\ LogInv(t) /\ PartInv(t)
        /\ late' = late \cup ({t} \X InFlight(pc[t]))
    BY ZenonT(30) DEF Crash, IInv
  <1>2. /\ pc'[t] = "crashed" /\ broken'[t] = {} /\ \A s \in Shards : ack'[t][s] = "ok"
        /\ \A u \in Txns \ {t} : pc'[u] = pc[u] /\ broken'[u] = broken[u] /\ ack'[u] = ack[u]
    BY ZenonT(60) DEF Crash, All, IInv, TypeOK, CoordTypes
  <1>3. /\ \A u \in Txns \ {t}, x \in LogStatements : <<u, x>> \in late' <=> <<u, x>> \in late
        /\ \A x \in LogStatements :
             <<t, x>> \in late' <=> <<t, x>> \in late \/ x \in InFlight(pc[t])
    BY <1>1, ZenonT(30)
  <1>4. /\ "begin" \in InFlight(pc[t]) <=> pc[t] = "begin"
        /\ "commit" \in InFlight(pc[t]) <=> pc[t] = "decide"
        /\ "delete" \in InFlight(pc[t]) <=> pc[t] \in {"deleteAbort", "deleteCommit"}
        /\ "deleteCommit" \notin InFlight(pc[t])
    BY ZenonT(30) DEF InFlight
  <1>5. LogInv(t)'
    BY ZenonT(60), <1>1, <1>2, <1>3, <1>4 DEF LogInv, CoordInv, Begun, AllCommitted, LogStatements
  <1>6. PartInv(t)'
    BY ZenonT(60), <1>1 DEF PartInv, Begun, AllCommitted
  <1>7. Mono(t)
    BY ZenonT(60), <1>1, <1>2, <1>3, <1>4 DEF Mono, Begun, Dead, LogStatements
  <1>8. CoordInv(t)'
    BY ZenonT(60), <1>1, <1>2 DEF CoordInv
  <1>9. \A u \in Txns \ {t} : SameTxn(u)
    BY ZenonT(60), <1>1, <1>2, <1>3 DEF SameTxn
  <1>10. /\ \A m \in net' : m \in net \/ m.txn = t
         /\ \A m \in net' : (m \in net /\ m.txn # t) \/ NetInv(m)'
    BY Zenon, <1>1, <1>2, <1>7, SilentInv
  <1>11. QED
    BY ZenonT(60), <1>1, <1>5, <1>6, <1>7, <1>8, <1>9, <1>10, TxnStep DEF TxnInv

-----------------------------------------------------------------------------
(***************************************************************************)
(* The theorems.                                                           *)
(***************************************************************************)

LEMMA InitInv == Init => IInv
  <1>1. SUFFICES ASSUME Init PROVE IInv
    BY ZenonT(30)
  <1>2. TypeOK
    BY <1>1, TypeInit, ZenonT(30)
  <1>3. ASSUME NEW t \in Txns PROVE LogInv(t) /\ PartInv(t) /\ CoordInv(t)
    <2>1. /\ row[t] = "none" /\ verdict[t] = "none" /\ late = {} /\ pc[t] = "running"
          /\ reply[t] = "none" /\ broken[t] = {} /\ \A s \in Shards : ack[t][s] = "ok"
          /\ \A s \in Shards : part[t][s] = IF s \in Writers[t] THEN "active" ELSE "aborted"
          /\ Writers[t] \subseteq Shards
      BY <1>1, WritersAssumption, ZenonT(30) DEF Init
    <2>2. LogInv(t) /\ PartInv(t)
      BY <2>1, ZenonT(30) DEF LogInv, PartInv, Begun, Decisions
    <2>3. CoordInv(t)
      BY ZenonT(60), <2>1 DEF CoordInv, Begun, AllOk
    <2>4. QED
      BY <2>2, <2>3, ZenonT(30)
  <1>4. \A m \in net : NetInv(m)
    BY ZenonT(60), <1>1 DEF Init
  <1>5. \A r \in Resolvers : PassInv(r)
    BY ZenonT(60), <1>1 DEF Init, PassInv, HeldInv, TodoInv, HandInv
  <1>6. QED
    BY <1>2, <1>3, <1>4, <1>5, ZenonT(30) DEF IInv

LEMMA InvNext == IInv /\ [Next]_vars => IInv'
  <1>1. SUFFICES ASSUME IInv, [Next]_vars PROVE IInv'
    BY ZenonT(30)
  <1>2. TypeOK'
    BY <1>1, TypeNext, ZenonT(30) DEF IInv
  <1>3. CASE UNCHANGED vars
    <2>1. /\ UNCHANGED <<row, late, verdict, part, net>> /\ UNCHANGED coordVars
          /\ UNCHANGED passVars
      BY <1>3, ZenonT(30) DEF vars, coordVars, passVars
    <2>2. \A t \in Txns : TxnInv(t)'
      BY ZenonT(60), <2>1, <1>1, SameTxnFrame DEF IInv, TxnInv, SameTxn, coordVars
    <2>3. \A m \in net : NetInv(m)'
      BY ZenonT(60), <2>1, <1>1 DEF IInv, NetInv, Begun, Dead, coordVars
    <2>4. \A r \in Resolvers : PassInv(r)'
      BY <2>1, <1>1 DEF IInv, PassInv, HeldInv, TodoInv, HandInv, Begun, AllCommitted, passVars
    <2>5. QED
      BY <1>2, <2>1, <2>2, <2>3, <2>4, ZenonT(30) DEF IInv, TxnInv
  <1>4. ASSUME NEW t \in Txns, Coordinate(t) PROVE IInv'
    BY <1>1, <1>2, <1>4, CollectXidsInv, LogBeginInv, QuitDoneInv, PrepareDoneInv, UndoDoneInv,
       LogAbortInv, LogCommitInv, RetractDoneInv, ApplyLeadDoneInv, ApplyDoneInv, LogDeleteInv, ZenonT(30)
    DEF Coordinate
  <1>5. ASSUME NEW t \in Txns, Heartbeat(t) \/ Age(t) \/ Crash(t) PROVE IInv'
    BY <1>1, <1>2, <1>5, StaleInv, CrashInv, ZenonT(30)
  <1>6. ASSUME NEW t \in Txns, NEW stmt \in LogStatements,
               LateLog(t, stmt) \/ LateLogDropped(t, stmt)
        PROVE  IInv'
    BY <1>1, <1>2, <1>6, LateLogInv, LateLogDroppedInv, ZenonT(30)
  <1>7. ASSUME NEW r \in Resolvers, Resolve(r) PROVE IInv'
    <2>1. ASSUME NEW s \in Shards, ScanShard(r, s) \/ FinishHolder(r, s) \/ SweepHolder(r, s)
          PROVE  IInv'
      BY <1>1, <1>2, <2>1, ScanShardInv, FinishHolderInv, SweepHolderInv, ZenonT(30)
    <2>2. ASSUME NEW t \in Txns,
                 SkipFresh(r, t) \/ ExpireRow(r, t) \/ TakeDecided(r, t) \/ SweepGid(r, t)
          PROVE  IInv'
      BY <1>1, <1>2, <2>2, SkipFreshInv, ExpireRowInv, TakeDecidedInv, SweepGidInv, ZenonT(30)
    <2>3. QED
      BY <1>1, <1>2, <1>7, <2>1, <2>2, StartPassInv, RereadInv, FinishDecisionInv,
         SweepGidDoneInv, EndPassInv, ZenonT(30)
      DEF Resolve
  <1>8. CASE ShardStep
    <2>1. ASSUME NEW m \in net, Execute(m) \/ PrepareRefused(m) \/ AnswerLost(m) \/ StatementLost(m)
          PROVE  IInv'
      BY <1>1, <1>2, <2>1, ExecuteInv, PrepareRefusedInv, AnswerLostInv, StatementLostInv, ZenonT(30)
    <2>2. ASSUME NEW t \in Txns, NEW s \in Shards, GiveUp(t, s) \/ BackendEnds(t, s)
          PROVE  IInv'
      BY <1>1, <1>2, <2>2, GiveUpInv, BackendEndsInv, ZenonT(30)
    <2>3. QED
      BY <1>8, <2>1, <2>2, ZenonT(30) DEF ShardStep
  <1>9. QED
    BY <1>1, <1>3, <1>4, <1>5, <1>6, <1>7, <1>8, ZenonT(30) DEF Next

(* The inductive invariant holds: what each log row, shard, coordinator, message
   in flight and resolver pass knows of a decision agrees with the log. *)
THEOREM Invariance == Spec => []IInv
  BY InitInv, InvNext, PTL DEF Spec

(* Two-phase commit is atomic: twoPhaseCommit, the decision log and any number
   of concurrent resolver passes never leave a transaction committed on one
   writer and rolled back on another, whatever statements are lost or late and
   wherever routers die. *)
THEOREM AtomicCorrect == Spec => []Atomic
  <1>1. IInv => Atomic
    <2>1. SUFFICES ASSUME IInv, NEW t \in Txns, NEW s \in Writers[t], NEW u \in Writers[t],
                          part[t][s] = "committed", part[t][u] = "aborted"
                   PROVE  FALSE
      BY ZenonT(30) DEF Atomic
    <2>2. PartInv(t) /\ s \in Shards
      BY <2>1, WritersAssumption, ZenonT(30) DEF IInv
    <2>3. QED
      BY <2>1, <2>2, ZenonT(30) DEF PartInv
  <1>2. QED
    BY <1>1, Invariance, PTL

(* A COMMIT answered to the client stands, although the answer may leave before
   every COMMIT PREPARED was confirmed. *)
THEOREM CommitHonouredCorrect == Spec => []CommitHonoured
  <1>1. IInv => CommitHonoured
    <2>1. SUFFICES ASSUME IInv, NEW t \in Txns, reply[t] = "commit", NEW s \in Writers[t]
                   PROVE  part[t][s] # "aborted"
      BY ZenonT(30) DEF CommitHonoured
    <2>2. PartInv(t) /\ CoordInv(t)
      BY ZenonT(60), <2>1 DEF IInv
    <2>3. QED
      BY ZenonT(60), <2>1, <2>2 DEF PartInv, CoordInv
  <1>2. QED
    BY <1>1, Invariance, PTL

(* An error or "retry" answered to the client means no writer ever commits. *)
THEOREM RetrySafeCorrect == Spec => []RetrySafe
  <1>1. IInv => RetrySafe
    <2>1. SUFFICES ASSUME IInv, NEW t \in Txns, reply[t] \in {"retry", "error"}, NEW s \in Writers[t]
                   PROVE  part[t][s] # "committed"
      BY ZenonT(60) DEF RetrySafe
    <2>2. PartInv(t) /\ CoordInv(t) /\ s \in Shards
      BY <2>1, WritersAssumption, ZenonT(30) DEF IInv
    <2>3. QED
      BY ZenonT(60), <2>1, <2>2 DEF PartInv, CoordInv, Dead
  <1>2. QED
    BY <1>1, Invariance, PTL

(* The row of a commit decision is deleted, by the router or by a resolver
   pass, only after every writer has committed. *)
THEOREM CommitRowCorrect == Spec => []CommitRowOutlivesHolders
  <1>1. IInv => CommitRowOutlivesHolders
    BY ZenonT(60) DEF IInv, PartInv, AllCommitted, CommitRowOutlivesHolders
  <1>2. QED
    BY <1>1, Invariance, PTL

(* One guarded statement never replaces a decision. *)
LEMMA StatementStable ==
  ASSUME IInv, NEW t \in Txns, NEW stmt \in LogStatements, RunStatement(t, stmt)
  PROVE  \A u \in Txns : verdict[u] # "none" => verdict'[u] = verdict[u]
  <1>1. /\ row[t] \in Decisions => verdict[t] = row[t]
        /\ row[t] = "preparing" => verdict[t] = "none"
        /\ row[t] \in {"none", "preparing", "commit", "abort"}
    BY ZenonT(60) DEF IInv, LogInv, TypeOK, LogTypes, RowStates, Decisions
  <1>2. \A u \in Txns \ {t} : verdict'[u] = verdict[u]
    BY ZenonT(30) DEF RunStatement, IInv, TypeOK, LogTypes
  <1>3. verdict[t] # "none" => verdict'[t] = verdict[t]
    BY ZenonT(60), <1>1 DEF RunStatement, RowAfter, Matches, Leaves, Decisions, LogStatements,
                IInv, TypeOK, LogTypes
  <1>4. QED
    BY ZenonT(60), <1>2, <1>3

(* Only statements on the decision log decide. *)
LEMMA OnlyTheLogDecides ==
  ASSUME IInv, [Next]_vars
  PROVE  UNCHANGED verdict \/ \E t \in Txns, stmt \in LogStatements : RunStatement(t, stmt)
  <1>1. CASE UNCHANGED vars
    BY <1>1, ZenonT(30) DEF vars
  <1>2. ASSUME NEW t \in Txns, Coordinate(t) \/ Heartbeat(t) \/ Age(t) \/ Crash(t)
        PROVE  UNCHANGED verdict \/ \E stmt \in LogStatements : RunStatement(t, stmt)
    BY ZenonT(60), <1>2 DEF Coordinate, CollectXids, LogBegin, QuitDone, PrepareDone, UndoDone, LogAbort,
                LogCommit, RetractDone, ApplyLeadDone, ApplyDone, LogDelete, Heartbeat, Age,
                Crash, LogRun, LogLost, logVars, LogStatements
  <1>3. ASSUME NEW t \in Txns, NEW stmt \in LogStatements,
               LateLog(t, stmt) \/ LateLogDropped(t, stmt)
        PROVE  UNCHANGED verdict \/ RunStatement(t, stmt)
    BY <1>3, ZenonT(30) DEF LateLog, LateLogDropped
  <1>4. ASSUME NEW r \in Resolvers, Resolve(r)
        PROVE  UNCHANGED verdict \/ \E t \in Txns, stmt \in LogStatements : RunStatement(t, stmt)
    <2>1. rcur[r] \in Txns
      BY ZenonT(30) DEF IInv, TypeOK, PassTypes
    <2>2. CASE FinishDecision(r)
      BY ZenonT(60), <2>1, <2>2 DEF FinishDecision, LogRun, LogLost, logVars, LogStatements
    <2>3. ASSUME NEW t \in Txns,
                 SkipFresh(r, t) \/ ExpireRow(r, t) \/ TakeDecided(r, t) \/ SweepGid(r, t)
          PROVE  UNCHANGED verdict \/ \E stmt \in LogStatements : RunStatement(t, stmt)
      BY ZenonT(60), <2>3 DEF SkipFresh, ExpireRow, TakeDecided, SweepGid, LogRun, LogLost, logVars, LogStatements
    <2>4. ASSUME NEW s \in Shards, ScanShard(r, s) \/ FinishHolder(r, s) \/ SweepHolder(r, s)
          PROVE  UNCHANGED verdict
      BY ZenonT(60), <2>4 DEF ScanShard, FinishHolder, SweepHolder, logVars
    <2>5. CASE StartPass(r) \/ Reread(r) \/ SweepGidDone(r) \/ EndPass(r)
      BY ZenonT(60), <2>5 DEF StartPass, Reread, SweepGidDone, EndPass, logVars
    <2>6. QED
      BY <1>4, <2>2, <2>3, <2>4, <2>5, ZenonT(30) DEF Resolve
  <1>5. CASE ShardStep
    BY Zenon, <1>5 DEF ShardStep, Execute, PrepareRefused, AnswerLost, StatementLost, GiveUp,
                BackendEnds, logVars
  <1>6. QED
    BY <1>1, <1>2, <1>3, <1>4, <1>5, ZenonT(30) DEF Next

(* A durable decision is never replaced: the WHERE clauses of the router's and
   the resolver's updates hold off every late or repeated statement. *)
THEOREM DecisionStableCorrect == Spec => DecisionStable
  <1>1. IInv /\ [Next]_vars => [\A t \in Txns : verdict[t] # "none" => verdict'[t] = verdict[t]]_vars
    BY OnlyTheLogDecides, StatementStable, ZenonT(30)
  <1>2. QED
    BY <1>1, Invariance, PTL DEF Spec, DecisionStable

-----------------------------------------------------------------------------
(***************************************************************************)
(* The refinement.  Every step moves one participant, or is about the log  *)
(* row and the answer of one transaction; the inductive invariant, before  *)
(* and after it, says that AtomicCommit allows the move.                   *)
(***************************************************************************)

(* What one statement can make of a participant. *)
Moves(p, q) ==
  \/ q = p
  \/ p = "active" /\ q \in {"prepared", "aborted"}
  \/ p = "prepared" /\ q \in {"committed", "aborted"}

(* One participant moves; nothing is decided or answered. *)
PartStep(t, s, q) ==
  /\ part' = [part EXCEPT ![t][s] = q]
  /\ Moves(part[t][s], q)
  /\ UNCHANGED <<verdict, reply>>

(* At most the decision of t changes, and at most t is answered. *)
TxnAlone(t) ==
  /\ UNCHANGED part
  /\ \A u \in Txns \ {t} : verdict'[u] = verdict[u] /\ reply'[u] = reply[u]

(* t is answered for the first time; only a failure is answered in the step
   that decides. *)
Answers(t) ==
  /\ reply[t] = "none" /\ reply'[t] # "none"
  /\ verdict'[t] = verdict[t] \/ reply'[t] \in {"retry", "error"}

LogStep(t) == TxnAlone(t) /\ (reply'[t] = reply[t] \/ Answers(t))

Idle == UNCHANGED <<part, verdict, reply>>

LEMMA PartAfterMoves == ASSUME NEW verb, NEW p PROVE Moves(p, PartAfter(verb, p))
  BY ZenonT(30) DEF Moves, PartAfter

-----------------------------------------------------------------------------
(* A step of a coordinator leaves the shards alone. *)
LEMMA AnswerIsLogStep ==
  ASSUME IInv, NEW t \in Txns, NEW a \in Replies \ {"none"}, Answer(t, a),
         pc[t] # "done", UNCHANGED part,
         \A u \in Txns \ {t} : verdict'[u] = verdict[u],
         verdict'[t] = verdict[t] \/ a \in {"retry", "error"}
  PROVE  LogStep(t)
  <1>1. reply[t] = "none"
    BY ZenonT(60) DEF IInv, CoordInv
  <1>2. reply'[t] = a /\ \A u \in Txns \ {t} : reply'[u] = reply[u]
    BY ZenonT(30) DEF Answer, IInv, TypeOK, CoordTypes
  <1>3. QED
    BY <1>1, <1>2, ZenonT(30) DEF LogStep, TxnAlone, Answers

LEMMA OneRow ==
  ASSUME IInv, NEW t \in Txns, NEW stmt \in LogStatements, RunStatement(t, stmt)
  PROVE  /\ \A u \in Txns \ {t} : verdict'[u] = verdict[u]
         /\ stmt = "delete" => verdict'[t] = verdict[t]
  <1>1. \A u \in Txns \ {t} : verdict'[u] = verdict[u]
    BY ZenonT(30) DEF RunStatement, IInv, TypeOK, LogTypes
  <1>2. stmt = "delete" => RowAfter(stmt, row[t], stale[t]) = "none"
    BY ZenonT(30) DEF RowAfter, Matches, Leaves
  <1>3. stmt = "delete" => verdict'[t] = verdict[t]
    BY <1>2, ZenonT(30) DEF RunStatement, Decisions, IInv, TypeOK, LogTypes
  <1>4. QED
    BY <1>1, <1>3, ZenonT(30)

LEMMA CoordinateIsLogStep ==
  ASSUME IInv, NEW t \in Txns, Coordinate(t)
  PROVE  Idle \/ LogStep(t)
  <1>1. CASE CollectXids(t) \/ PrepareDone(t) \/ UndoDone(t) \/ ApplyLeadDone(t)
    BY ZenonT(60), <1>1 DEF CollectXids, PrepareDone, UndoDone, ApplyLeadDone, Idle, logVars
  <1>2. CASE LogBegin(t)
    <2>1. UNCHANGED <<part, reply>> /\ (LogRun(t, "begin") \/ LogLost(t, "begin"))
      BY ZenonT(60), <1>2 DEF LogBegin
    <2>2. \A u \in Txns \ {t} : verdict'[u] = verdict[u]
      BY <2>1, OneRow, ZenonT(30) DEF LogRun, LogLost, LogStatements
    <2>3. QED
      BY <2>1, <2>2, ZenonT(30) DEF LogStep, TxnAlone
  <1>3. CASE QuitDone(t)
    <2>1. Answer(t, "error") /\ UNCHANGED <<part, verdict>> /\ pc[t] # "done"
      BY ZenonT(60), <1>3 DEF QuitDone, logVars
    <2>2. QED
      BY <2>1, AnswerIsLogStep, ZenonT(30) DEF Replies
  <1>4. CASE RetractDone(t)
    <2>1. Answer(t, "retry") /\ UNCHANGED <<part, verdict>> /\ pc[t] # "done"
      BY ZenonT(60), <1>4 DEF RetractDone, logVars
    <2>2. QED
      BY <2>1, AnswerIsLogStep, ZenonT(30) DEF Replies
  <1>5. CASE ApplyDone(t)
    <2>1. /\ UNCHANGED <<part, verdict>> /\ pc[t] # "done"
          /\ UNCHANGED reply \/ Answer(t, "commit")
      BY ZenonT(60), <1>5 DEF ApplyDone, logVars
    <2>2. CASE UNCHANGED reply
      BY <2>1, <2>2, ZenonT(30) DEF Idle
    <2>3. CASE Answer(t, "commit")
      BY <2>1, <2>3, AnswerIsLogStep, ZenonT(30) DEF Replies
    <2>4. QED
      BY <2>1, <2>2, <2>3, ZenonT(30)
  <1>6. CASE LogAbort(t)
    <2>1. /\ UNCHANGED part /\ pc[t] # "done"
          /\ LogRun(t, "abort") \/ LogLost(t, "abort")
          /\ UNCHANGED reply \/ Answer(t, "error")
      BY ZenonT(60), <1>6 DEF LogAbort
    <2>2. \A u \in Txns \ {t} : verdict'[u] = verdict[u]
      BY <2>1, OneRow, ZenonT(30) DEF LogRun, LogLost, LogStatements
    <2>3. CASE UNCHANGED reply
      BY <2>1, <2>2, <2>3, ZenonT(30) DEF LogStep, TxnAlone
    <2>4. CASE Answer(t, "error")
      BY <2>1, <2>2, <2>4, AnswerIsLogStep, ZenonT(30) DEF Replies
    <2>5. QED
      BY <2>1, <2>3, <2>4, ZenonT(30)
  <1>7. CASE LogCommit(t)
    <2>1. CASE LogRun(t, "commit") /\ UNCHANGED <<part, reply>>
      <3>1. \A u \in Txns \ {t} : verdict'[u] = verdict[u]
        BY <2>1, OneRow, ZenonT(30) DEF LogRun, LogStatements
      <3>2. QED
        BY <2>1, <3>1, ZenonT(30) DEF LogStep, TxnAlone
    <2>2. CASE LogLost(t, "commit") /\ Answer(t, "inDoubt") /\ UNCHANGED part /\ pc[t] = "decide"
      BY <2>2, AnswerIsLogStep, ZenonT(30) DEF LogLost, Replies
    <2>3. QED
      BY ZenonT(60), <1>7, <2>1, <2>2 DEF LogCommit
  <1>8. CASE LogDelete(t)
    <2>1. /\ UNCHANGED part /\ pc[t] # "done"
          /\ LogRun(t, "delete") \/ LogLost(t, "delete")
          /\ Answer(t, IF pc[t] = "deleteCommit" THEN "commit" ELSE "error")
      BY ZenonT(60), <1>8 DEF LogDelete
    <2>2. \A u \in Txns : verdict'[u] = verdict[u]
      BY <2>1, OneRow, ZenonT(30) DEF LogRun, LogLost, LogStatements
    <2>3. CASE Answer(t, "commit")
      BY <2>1, <2>2, <2>3, AnswerIsLogStep, ZenonT(30) DEF Replies
    <2>4. CASE Answer(t, "error")
      BY <2>1, <2>2, <2>4, AnswerIsLogStep, ZenonT(30) DEF Replies
    <2>5. QED
      BY <2>1, <2>3, <2>4, ZenonT(30)
  <1>9. QED
    BY <1>1, <1>2, <1>3, <1>4, <1>5, <1>6, <1>7, <1>8, ZenonT(30) DEF Coordinate

(* A step of a resolver pass finishes one holder, runs one statement on the
   log, or changes only what the pass knows. *)
LEMMA ResolveIsStep ==
  ASSUME IInv, NEW r \in Resolvers, Resolve(r)
  PROVE  \/ Idle
         \/ \E t \in Txns : LogStep(t)
         \/ \E t \in Txns, s \in Shards, q \in PartStates : PartStep(t, s, q)
  <1>1. rcur[r] \in Txns
    BY ZenonT(30) DEF IInv, TypeOK, PassTypes
  <1>2. CASE StartPass(r) \/ Reread(r) \/ SweepGidDone(r) \/ EndPass(r)
    BY ZenonT(60), <1>2 DEF StartPass, Reread, SweepGidDone, EndPass, Idle, logVars, coordVars
  <1>3. ASSUME NEW t \in Txns, NEW stmt \in LogStatements,
               LogRun(t, stmt) \/ LogLost(t, stmt), UNCHANGED <<part, reply>>
        PROVE  LogStep(t)
    <2>1. \A u \in Txns \ {t} : verdict'[u] = verdict[u]
      BY <1>3, OneRow, ZenonT(30) DEF LogRun, LogLost
    <2>2. QED
      BY <1>3, <2>1, ZenonT(30) DEF LogStep, TxnAlone
  <1>4. CASE FinishDecision(r)
    <2>1. /\ UNCHANGED <<part, reply>>
          /\ \/ UNCHANGED verdict
             \/ \E stmt \in LogStatements : LogRun(rcur[r], stmt) \/ LogLost(rcur[r], stmt)
      BY ZenonT(60), <1>4 DEF FinishDecision, logVars, coordVars, LogStatements
    <2>2. QED
      BY <1>1, <1>3, <2>1, ZenonT(30) DEF Idle
  <1>5. ASSUME NEW t \in Txns,
               SkipFresh(r, t) \/ ExpireRow(r, t) \/ TakeDecided(r, t) \/ SweepGid(r, t)
        PROVE  Idle \/ LogStep(t)
    <2>1. CASE ExpireRow(r, t)
      <3>1. (LogRun(t, "expire") \/ LogLost(t, "expire")) /\ UNCHANGED <<part, reply>>
        BY ZenonT(60), <2>1 DEF ExpireRow, coordVars
      <3>2. QED
        BY <1>3, <3>1, ZenonT(30) DEF LogStatements
    <2>2. CASE SkipFresh(r, t) \/ TakeDecided(r, t) \/ SweepGid(r, t)
      BY ZenonT(60), <2>2 DEF SkipFresh, TakeDecided, SweepGid, Idle, logVars, coordVars
    <2>3. QED
      BY <1>5, <2>1, <2>2, ZenonT(30)
  <1>6. ASSUME NEW s \in Shards, ScanShard(r, s) PROVE Idle
    BY ZenonT(60), <1>6 DEF ScanShard, Idle, logVars, coordVars
  <1>7. ASSUME NEW s \in Shards, FinishHolder(r, s) \/ SweepHolder(r, s)
        PROVE  Idle \/ \E q \in PartStates : PartStep(rcur[r], s, q)
    <2>1. UNCHANGED <<verdict, reply>> /\ (FinishRuns(r, s) \/ FinishLost(r, s))
      BY ZenonT(60), <1>7 DEF FinishHolder, SweepHolder, logVars, coordVars
    <2>2. CASE FinishRuns(r, s)
      <3>1. part[rcur[r]][s] \in PartStates
        BY <1>1, ZenonT(30) DEF IInv, TypeOK, ShardTypes
      <3>2. PICK q : q = PartAfter(FinishVerb(rstate[r] = "commit"), part[rcur[r]][s])
        BY ZenonT(30)
      <3>3. q \in PartStates /\ Moves(part[rcur[r]][s], q)
        BY <3>1, <3>2, PartAfterType, PartAfterMoves, ZenonT(30)
      <3>4. part' = [part EXCEPT ![rcur[r]][s] = q]
        BY <1>1, <2>2, <3>2, ZenonT(30) DEF FinishRuns, IInv, TypeOK, ShardTypes
      <3>5. QED
        BY ZenonT(60), <2>1, <3>3, <3>4 DEF PartStep
    <2>3. CASE FinishLost(r, s)
      BY <2>1, <2>3, ZenonT(30) DEF FinishLost, Idle
    <2>4. QED
      BY <2>1, <2>2, <2>3, ZenonT(30)
  <1>8. QED
    BY <1>1, <1>2, <1>4, <1>5, <1>6, <1>7, ZenonT(30) DEF Resolve

(* A step of the shards moves at most one participant. *)
LEMMA ShardIsStep ==
  ASSUME IInv, ShardStep
  PROVE  Idle \/ \E t \in Txns, s \in Shards, q \in PartStates : PartStep(t, s, q)
  <1>1. ASSUME NEW m \in net PROVE m.txn \in Txns /\ m.shard \in Shards
    BY <1>1, ZenonT(30) DEF IInv, TypeOK, ShardTypes, Messages
  <1>2. ASSUME NEW t \in Txns, NEW s \in Shards, NEW q \in PartStates,
               part' = [part EXCEPT ![t][s] = q], Moves(part[t][s], q),
               UNCHANGED <<verdict, reply>>
        PROVE  \E u \in Txns, v \in Shards, p \in PartStates : PartStep(u, v, p)
    BY ZenonT(60), <1>2 DEF PartStep
  <1>3. ASSUME NEW m \in net, Execute(m) \/ AnswerLost(m)
        PROVE  \E t \in Txns, s \in Shards, q \in PartStates : PartStep(t, s, q)
    <2>1. part[m.txn][m.shard] \in PartStates
      BY <1>1, ZenonT(30) DEF IInv, TypeOK, ShardTypes
    <2>2. PICK q : q = PartAfter(m.verb, part[m.txn][m.shard])
      BY ZenonT(30)
    <2>3. q \in PartStates /\ Moves(part[m.txn][m.shard], q)
      BY <2>1, <2>2, PartAfterType, PartAfterMoves, ZenonT(30)
    <2>4. /\ part' = [part EXCEPT ![m.txn][m.shard] = PartAfter(m.verb, @)]
          /\ UNCHANGED <<verdict, reply>>
      BY ZenonT(60), <1>3 DEF Execute, AnswerLost, logVars
    <2>5. part' = [part EXCEPT ![m.txn][m.shard] = q]
      BY <1>1, <2>2, <2>4, ZenonT(30) DEF IInv, TypeOK, ShardTypes
    <2>6. QED
      BY ZenonT(60), <1>1, <1>2, <2>3, <2>4, <2>5
  <1>4. ASSUME NEW m \in net, PrepareRefused(m)
        PROVE  \E t \in Txns, s \in Shards, q \in PartStates : PartStep(t, s, q)
    BY ZenonT(60), <1>1, <1>2, <1>4 DEF PrepareRefused, logVars, Moves, PartStates
  <1>5. ASSUME NEW m \in net, StatementLost(m) PROVE Idle
    BY ZenonT(60), <1>5 DEF StatementLost, Idle, logVars
  <1>6. ASSUME NEW t \in Txns, NEW s \in Shards, GiveUp(t, s) PROVE Idle
    BY ZenonT(60), <1>6 DEF GiveUp, Idle, logVars
  <1>7. ASSUME NEW t \in Txns, NEW s \in Shards, BackendEnds(t, s)
        PROVE  \E u \in Txns, v \in Shards, q \in PartStates : PartStep(u, v, q)
    BY ZenonT(60), <1>2, <1>7 DEF BackendEnds, logVars, coordVars, Moves, PartStates
  <1>8. QED
    BY <1>3, <1>4, <1>5, <1>6, <1>7, ZenonT(30) DEF ShardStep

LEMMA StepKinds ==
  ASSUME IInv, [Next]_vars
  PROVE  \/ Idle
         \/ \E t \in Txns : LogStep(t)
         \/ \E t \in Txns, s \in Shards, q \in PartStates : PartStep(t, s, q)
  <1>1. CASE UNCHANGED vars
    BY <1>1, ZenonT(30) DEF vars, Idle
  <1>2. ASSUME NEW t \in Txns, Heartbeat(t) \/ Age(t) \/ Crash(t) PROVE Idle
    BY ZenonT(60), <1>2 DEF Heartbeat, Age, Crash, Idle, coordVars
  <1>3. ASSUME NEW t \in Txns, NEW stmt \in LogStatements,
               LateLog(t, stmt) \/ LateLogDropped(t, stmt)
        PROVE  Idle \/ LogStep(t)
    <2>1. UNCHANGED <<part, reply>> /\ (UNCHANGED verdict \/ RunStatement(t, stmt))
      BY ZenonT(60), <1>3 DEF LateLog, LateLogDropped, coordVars
    <2>2. QED
      BY <2>1, OneRow, ZenonT(30) DEF Idle, LogStep, TxnAlone
  <1>4. QED
    BY <1>1, <1>2, <1>3, CoordinateIsLogStep, ResolveIsStep, ShardIsStep, ZenonT(30) DEF Next

-----------------------------------------------------------------------------
(***************************************************************************)
(* Each kind of step under the refinement mapping.                         *)
(***************************************************************************)

(* What the mapping makes of one transaction. *)
LEMMA Mapped ==
  ASSUME IInv, NEW t \in Txns
  PROVE  /\ Told[t] = IF reply[t] = "none" THEN "none"
                      ELSE IF reply[t] = "commit" THEN "commit"
                      ELSE IF reply[t] = "inDoubt" THEN "unknown" ELSE "abort"
         /\ Outcome[t] = IF verdict[t] = "none" /\ Told[t] = "abort" THEN "abort" ELSE verdict[t]
         /\ State[t] = [s \in Writers[t] |-> part[t][s]]
         /\ Outcome[t] = "commit" <=> verdict[t] = "commit"
  BY ZenonT(30) DEF Told, Outcome, State, IInv, TypeOK, CoordTypes, Replies

(* A participant moves as AtomicCommit lets it: the invariant after the step
   ties a committed participant to a decided commit, and a decided commit to
   participants that were not rolled back. *)
LEMMA PartStepMaps ==
  ASSUME IInv, IInv', NEW t \in Txns, NEW s \in Shards, NEW q \in PartStates,
         PartStep(t, s, q)
  PROVE  [AC!ANext]_AC!avars
  <1>1. Told' = Told /\ Outcome' = Outcome
    BY ZenonT(30) DEF PartStep, Told, Outcome
  <1>2. /\ \A u \in Txns \ {t} : part'[u] = part[u]
        /\ part'[t] = [part[t] EXCEPT ![s] = q]
    BY ZenonT(30) DEF PartStep, IInv, TypeOK, ShardTypes
  <1>3. Writers[t] \subseteq Shards /\ part[t] \in [Shards -> PartStates]
    BY WritersAssumption, ZenonT(30) DEF IInv, TypeOK, ShardTypes
  <1>4. CASE q = part[t][s] \/ s \notin Writers[t]
    <2>1. State' = State
      BY <1>2, <1>3, <1>4 DEF State
    <2>2. QED
      BY <1>1, <2>1, ZenonT(30) DEF AC!avars
  <1>5. CASE q # part[t][s] /\ s \in Writers[t]
    <2>1. State' = [State EXCEPT ![t][s] = q] /\ State[t][s] = part[t][s]
      <3>1. /\ State'[t] = [z \in Writers[t] |-> part'[t][z]]
            /\ State[t] = [z \in Writers[t] |-> part[t][z]]
            /\ \A u \in Txns \ {t} : State'[u] = State[u]
        BY ZenonT(60), <1>2 DEF State
      <3>2. \A z \in Writers[t] : part'[t][z] = IF z = s THEN q ELSE part[t][z]
        BY <1>2, <1>3, ZenonT(30)
      <3>3. State'[t] = [State[t] EXCEPT ![s] = q]
        BY <3>1, <3>2, ZenonT(60)
      <3>4. DOMAIN State = Txns /\ State' = [u \in Txns |-> State'[u]] /\ State = [u \in Txns |-> State[u]]
        BY ZenonT(30) DEF State
      <3>5. QED
        BY <1>5, <3>1, <3>3, <3>4, ZenonT(60)
    <2>2. /\ q = "committed" => verdict'[t] = "commit"
          /\ q = "aborted" => verdict'[t] # "commit"
      <3>1. PartInv(t)'
        BY ZenonT(30) DEF IInv
      <3>2. part'[t][s] = q
        BY <1>2, <1>3, ZenonT(30)
      <3>3. QED
        BY <1>5, <3>1, <3>2, ZenonT(30) DEF PartInv
    <2>3. /\ q = "committed" => Outcome[t] = "commit"
          /\ q = "aborted" => Outcome[t] # "commit"
      BY ZenonT(60), <2>2, Mapped DEF PartStep
    <2>4. CASE q = "prepared"
      <3>1. AC!Prepare(t, s)
        BY <1>1, <1>5, <2>1, <2>4, ZenonT(30) DEF AC!Prepare, PartStep, Moves
      <3>2. QED
        BY <1>5, <3>1, ZenonT(30) DEF AC!ANext
    <2>5. CASE q = "committed"
      <3>1. AC!CommitPart(t, s)
        BY <1>1, <1>5, <2>1, <2>3, <2>5, ZenonT(30) DEF AC!CommitPart, PartStep, Moves
      <3>2. QED
        BY <1>5, <3>1, ZenonT(30) DEF AC!ANext
    <2>6. CASE q = "aborted"
      <3>1. AC!AbortPart(t, s)
        BY <1>1, <1>5, <2>1, <2>3, <2>6, ZenonT(30) DEF AC!AbortPart, PartStep, Moves
      <3>2. QED
        BY <1>5, <3>1, ZenonT(30) DEF AC!ANext
    <2>7. QED
      BY <1>5, <2>4, <2>5, <2>6, ZenonT(30) DEF PartStep, Moves
  <1>6. QED
    BY <1>4, <1>5, ZenonT(30)

LEMMA Stable ==
  ASSUME IInv, [Next]_vars, NEW t \in Txns, verdict[t] # "none"
  PROVE  verdict'[t] = verdict[t]
  BY OnlyTheLogDecides, StatementStable, ZenonT(30)

(* A commit is decided with every writer prepared: none has committed before
   the decision, and none has been rolled back after it. *)
LEMMA DecidedPrepared ==
  ASSUME IInv, IInv', NEW t \in Txns, UNCHANGED part,
         verdict[t] # "commit", verdict'[t] = "commit"
  PROVE  \A s \in Writers[t] : part[t][s] = "prepared"
  <1>1. PartInv(t) /\ PartInv(t)'
    BY ZenonT(30) DEF IInv
  <1>2. ASSUME NEW s \in Writers[t] PROVE part[t][s] = "prepared"
    <2>1. s \in Shards
      BY <1>2, WritersAssumption, ZenonT(30)
    <2>2. part'[t][s] \in {"prepared", "committed"}
      BY <1>1, <1>2, ZenonT(30) DEF PartInv
    <2>3. part[t][s] # "committed"
      BY <1>1, <2>1, ZenonT(30) DEF PartInv
    <2>4. QED
      BY <2>2, <2>3, ZenonT(30)
  <1>3. QED
    BY <1>2, ZenonT(30)

(* The client of t was told that it failed: nothing decides commit any more. *)
LEMMA FailedStaysFailed ==
  ASSUME IInv, NEW t \in Txns, Told[t] = "abort"
  PROVE  verdict[t] # "commit" /\ Outcome[t] = "abort"
  <1>1. reply[t] \in {"retry", "error"}
    BY ZenonT(60), Mapped DEF IInv, TypeOK, CoordTypes, Replies
  <1>2. Dead(t)
    BY ZenonT(60), <1>1 DEF IInv, CoordInv
  <1>3. verdict[t] \in {"none", "abort"}
    BY <1>2, ZenonT(30) DEF Dead, IInv, TypeOK, LogTypes, Decisions
  <1>4. QED
    BY ZenonT(60), <1>3, Mapped

(* The same after a step that answers t, or that finds it answered. *)
LEMMA FailedNext ==
  ASSUME IInv', NEW t \in Txns, Told'[t] = "abort", reply'[t] \in {"retry", "error"}
  PROVE  verdict'[t] # "commit" /\ Outcome'[t] = "abort"
  <1>1. Dead(t)'
    BY ZenonT(60) DEF IInv, CoordInv
  <1>2. verdict'[t] \in {"none", "abort"}
    BY <1>1, ZenonT(30) DEF Dead, IInv, TypeOK, LogTypes, Decisions
  <1>3. QED
    BY <1>2, ZenonT(30) DEF Outcome

(* A step on the log decides, or tells, what AtomicCommit allows. *)
LEMMA LogStepMaps ==
  ASSUME IInv, IInv', [Next]_vars, NEW t \in Txns, LogStep(t)
  PROVE  [AC!ANext]_AC!avars
  <1>1. State' = State
    BY ZenonT(30) DEF LogStep, TxnAlone, State
  <1>2. /\ Told' = [Told EXCEPT ![t] = Told'[t]]
        /\ Outcome' = [Outcome EXCEPT ![t] = Outcome'[t]]
    <2>1. \A u \in Txns \ {t} : Told'[u] = Told[u]
      BY ZenonT(30) DEF LogStep, TxnAlone, Told
    <2>2. \A u \in Txns \ {t} : Outcome'[u] = Outcome[u]
      BY <2>1, ZenonT(30) DEF LogStep, TxnAlone, Outcome
    <2>3. /\ Told = [u \in Txns |-> Told[u]] /\ Told' = [u \in Txns |-> Told'[u]]
          /\ Outcome = [u \in Txns |-> Outcome[u]] /\ Outcome' = [u \in Txns |-> Outcome'[u]]
      BY ZenonT(30) DEF Told, Outcome
    <2>4. QED
      BY <2>1, <2>2, <2>3, ZenonT(30)
  <1>3. verdict[t] # "none" => verdict'[t] = verdict[t]
    BY Stable, ZenonT(30)
  <1>4. verdict[t] \in {"none", "commit", "abort"} /\ verdict'[t] \in {"none", "commit", "abort"}
    BY ZenonT(30) DEF IInv, TypeOK, LogTypes, Decisions
  <1>5. CASE reply'[t] = reply[t]
    <2>1. Told' = Told
      BY <1>5, ZenonT(30) DEF LogStep, TxnAlone, Told
    <2>2. CASE Told[t] = "abort"
      <3>1. Outcome[t] = "abort" /\ Outcome'[t] = "abort"
        <4>1. reply'[t] \in {"retry", "error"}
          BY ZenonT(60), <1>5, <2>2, Mapped DEF IInv, TypeOK, CoordTypes, Replies
        <4>2. QED
          BY <2>1, <2>2, <4>1, FailedStaysFailed, FailedNext, ZenonT(30)
      <3>2. Outcome' = Outcome
        BY ZenonT(60), <1>2, <3>1 DEF Outcome
      <3>3. QED
        BY <1>1, <2>1, <3>2, ZenonT(30) DEF AC!avars
    <2>3. CASE Told[t] # "abort"
      <3>1. Outcome[t] = verdict[t] /\ Outcome'[t] = verdict'[t]
        BY <2>1, <2>3, ZenonT(30) DEF Outcome
      <3>2. CASE verdict'[t] = verdict[t]
        <4>1. Outcome' = Outcome
          BY ZenonT(60), <1>2, <3>1, <3>2 DEF Outcome
        <4>2. QED
          BY <1>1, <2>1, <4>1, ZenonT(30) DEF AC!avars
      <3>3. CASE verdict[t] = "none" /\ verdict'[t] = "commit"
        <4>1. \A s \in Writers[t] : State[t][s] = "prepared"
          BY <3>3, DecidedPrepared, ZenonT(30) DEF State, LogStep, TxnAlone
        <4>2. AC!DecideCommit(t)
          BY <1>1, <1>2, <2>1, <3>1, <3>3, <4>1, ZenonT(30) DEF AC!DecideCommit
        <4>3. QED
          BY <4>2, ZenonT(30) DEF AC!ANext
      <3>4. CASE verdict[t] = "none" /\ verdict'[t] = "abort"
        <4>1. AC!DecideAbort(t)
          BY <1>1, <1>2, <2>1, <3>1, <3>4, ZenonT(30) DEF AC!DecideAbort
        <4>2. QED
          BY <4>1, ZenonT(30) DEF AC!ANext
      <3>5. QED
        BY <1>3, <1>4, <3>2, <3>3, <3>4, ZenonT(30)
    <2>4. QED
      BY <2>2, <2>3, ZenonT(30)
  <1>6. CASE Answers(t)
    <2>1. Told[t] = "none" /\ Outcome[t] = verdict[t]
      BY <1>6, ZenonT(30) DEF Answers, Told, Outcome
    <2>2. CASE reply'[t] = "inDoubt"
      <3>1. Told'[t] = "unknown" /\ Outcome'[t] = verdict[t]
        BY <1>6, <2>2, ZenonT(30) DEF Answers, Told, Outcome
      <3>2. Outcome' = Outcome
        BY ZenonT(60), <1>2, <2>1, <3>1 DEF Outcome
      <3>3. AC!Tell(t, "unknown")
        BY <1>1, <1>2, <2>1, <3>1, <3>2, ZenonT(30) DEF AC!Tell
      <3>4. QED
        BY <3>3, ZenonT(30) DEF AC!ANext
    <2>3. CASE reply'[t] = "commit"
      <3>1. Told'[t] = "commit" /\ Outcome'[t] = verdict[t]
        BY <1>6, <2>3, ZenonT(30) DEF Answers, Told, Outcome
      <3>2. verdict[t] = "commit"
        <4>1. CoordInv(t)'
          BY ZenonT(30) DEF IInv
        <4>2. verdict'[t] = "commit"
          BY <2>3, <4>1, ZenonT(30) DEF CoordInv
        <4>3. QED
          BY <1>6, <2>3, <4>2, ZenonT(30) DEF Answers
      <3>3. Outcome' = Outcome
        BY ZenonT(60), <1>2, <2>1, <3>1 DEF Outcome
      <3>4. AC!Tell(t, "commit")
        BY <1>1, <1>2, <2>1, <3>1, <3>2, <3>3, ZenonT(30) DEF AC!Tell
      <3>5. QED
        BY <3>4, ZenonT(30) DEF AC!ANext
    <2>4. CASE reply'[t] \in {"retry", "error"}
      <3>1. Told'[t] = "abort"
        BY <2>4, ZenonT(30) DEF Told
      <3>2. verdict'[t] # "commit" /\ Outcome'[t] = "abort"
        BY <2>4, <3>1, FailedNext, ZenonT(30)
      <3>3. Outcome[t] # "commit"
        BY <1>3, <2>1, <3>2, ZenonT(30)
      <3>4. AC!Tell(t, "abort")
        BY <1>1, <1>2, <2>1, <3>1, <3>2, <3>3, ZenonT(30) DEF AC!Tell
      <3>5. QED
        BY <3>4, ZenonT(30) DEF AC!ANext
    <2>5. reply'[t] \in {"commit", "retry", "error", "inDoubt"}
      BY <1>6, ZenonT(30) DEF Answers, IInv, TypeOK, CoordTypes, Replies
    <2>6. QED
      BY <2>2, <2>3, <2>4, <2>5, ZenonT(30)
  <1>7. QED
    BY <1>5, <1>6, ZenonT(30) DEF LogStep

(* The coordinator of twoPhaseCommit, the decision log and the resolver's
   passes implement AtomicCommit for any transactions, shards, writers, passes
   and number of faults. *)
THEOREM Refinement == Spec => ImplementsAtomicCommit
  <1>1. Init => AC!AInit
    BY WritersAssumption DEF Init, AC!AInit, State, Outcome, Told
  <1>2. IInv /\ IInv' /\ [Next]_vars => [AC!ANext]_AC!avars
    <2>1. SUFFICES ASSUME IInv, IInv', [Next]_vars PROVE [AC!ANext]_AC!avars
      BY ZenonT(30)
    <2>2. CASE Idle
      BY <2>2, ZenonT(30) DEF Idle, AC!avars, State, Outcome, Told
    <2>3. QED
      BY <2>1, <2>2, StepKinds, PartStepMaps, LogStepMaps, ZenonT(30)
  <1>3. QED
    BY <1>1, <1>2, Invariance, PTL DEF Spec, AC!ASpec, ImplementsAtomicCommit
=============================================================================
