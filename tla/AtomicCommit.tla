---------------------------- MODULE AtomicCommit ----------------------------
(***************************************************************************)
(* What a multi-shard COMMIT promises its client, with no coordinator, log *)
(* or resolver: each participant prepares, a transaction is decided once,  *)
(* participants end as it was decided, and the client is told an outcome   *)
(* only once that outcome can no longer change.  TwoPhaseCommit implements *)
(* it.                                                                     *)
(***************************************************************************)
CONSTANTS Txns, Participants   \* Participants[t]: the shards t wrote on

VARIABLES
  state,    \* state[t][s]: active, prepared, committed or aborted
  outcome,  \* outcome[t]: none, commit or abort
  told      \* told[t]: what the client knows: none, unknown, commit or abort

avars == <<state, outcome, told>>

Prepare(t, s) ==
  /\ state[t][s] = "active"
  /\ state' = [state EXCEPT ![t][s] = "prepared"]
  /\ UNCHANGED <<outcome, told>>

(* Commit is decided only when every participant has prepared. *)
DecideCommit(t) ==
  /\ outcome[t] = "none"
  /\ \A s \in Participants[t] : state[t][s] = "prepared"
  /\ outcome' = [outcome EXCEPT ![t] = "commit"]
  /\ UNCHANGED <<state, told>>

DecideAbort(t) ==
  /\ outcome[t] = "none"
  /\ outcome' = [outcome EXCEPT ![t] = "abort"]
  /\ UNCHANGED <<state, told>>

CommitPart(t, s) ==
  /\ outcome[t] = "commit" /\ state[t][s] = "prepared"
  /\ state' = [state EXCEPT ![t][s] = "committed"]
  /\ UNCHANGED <<outcome, told>>

(* A participant may roll back on its own until the transaction is decided;
   the transaction can then never be committed. *)
AbortPart(t, s) ==
  /\ outcome[t] # "commit" /\ state[t][s] \in {"active", "prepared"}
  /\ state' = [state EXCEPT ![t][s] = "aborted"]
  /\ UNCHANGED <<outcome, told>>

(* Telling the client of an abort decides it, if nothing did before. *)
Tell(t, what) ==
  /\ told[t] = "none"
  /\ told' = [told EXCEPT ![t] = what]
  /\ \/ what = "unknown" /\ UNCHANGED outcome
     \/ what = "commit" /\ outcome[t] = "commit" /\ UNCHANGED outcome
     \/ /\ what = "abort" /\ outcome[t] # "commit"
        /\ outcome' = [outcome EXCEPT ![t] = "abort"]
  /\ UNCHANGED state

AInit ==
  /\ state = [t \in Txns |-> [s \in Participants[t] |-> "active"]]
  /\ outcome = [t \in Txns |-> "none"]
  /\ told = [t \in Txns |-> "none"]

ANext ==
  \E t \in Txns :
    \/ DecideCommit(t) \/ DecideAbort(t)
    \/ \E what \in {"unknown", "commit", "abort"} : Tell(t, what)
    \/ \E s \in Participants[t] : Prepare(t, s) \/ CommitPart(t, s) \/ AbortPart(t, s)

ASpec == AInit /\ [][ANext]_avars
=============================================================================
