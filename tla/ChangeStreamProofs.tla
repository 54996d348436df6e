------------------------- MODULE ChangeStreamProofs -------------------------
(***************************************************************************)
(* For any shards, keys, workloads and number of faults: a shard's         *)
(* transactions go out once, in order and whole, and an ack moves a slot   *)
(* only to what was sent.                                                  *)
(*                                                                         *)
(* What is known of a shard's queue is stated of its values (the queue q,  *)
(* the position p before it, what the reader delivered d), so that a step  *)
(* that leaves them alone leaves it true.                                  *)
(***************************************************************************)
EXTENDS ChangeStream, WellFoundedInduction, TLAPS

Kinds == {"snap", "begin", "row", "tabledone", "done", "txn", "mark", "gone"}
Units == [kind : Kinds, lsn : Nat, key : Keys \cup {0}, ver : Nat, cp : Copies, parts : Seq(Nat)]
Readers == [delivered : Nat, cp : Copies, asm : Seq(Nat)]
Calls == [kind : {"off", "copy", "stream"}, ep : Members \cup {0}, at : Nat, begun : BOOLEAN, rows : Seq(Keys)]
Seats == [ep : Members \cup {0}, delivered : Nat, acked : Nat, sent : Nat, ask : Nat, got : Nat]
Mergers == [position : Nat, emitted : Nat, copying : Copies]
Ackers == [want : Nat, done : Nat, wake : BOOLEAN]
Saves == [lsn : Nat, cp : Copies]

ShardTypes ==
    /\ plan \in Plans /\ faults \in Nat
    /\ wal \in [Shards -> Seq(Keys \cup {0})] /\ \A s \in Shards : wal[s] # <<>>
    /\ slot \in [Shards -> [Members -> Nat]] /\ status \in [Shards -> SUBSET Nat]
    /\ epoch \in [Shards -> Members] /\ cut \in [Shards -> Nat] /\ topo \in [Shards -> Members]
    /\ \A s \in Shards : cut[s] <= Len(wal[s])
    /\ pool \in [Shards -> Seats] /\ acker \in [Shards -> Ackers]
    /\ una \in SUBSET [sh : Shards, lsn : Nat, free : BOOLEAN]

StreamTypes ==
    /\ up \in BOOLEAN /\ copy \in BOOLEAN
    /\ rd \in [Shards -> Readers] /\ conn \in [Shards -> Calls]
    /\ queue \in [Shards -> Seq(Units)] /\ mrg \in [Shards -> Mergers]
    /\ saved \in [Shards -> Saves]
    /\ replica \in [Shards -> [Keys -> Nat]] /\ high \in [Shards -> Nat]

-----------------------------------------------------------------------------
(* Extrema, and what LastWrite and CopyRows return. *)

LEMMA LeastOf ==
    ASSUME NEW S \in SUBSET Nat, S # {}
    PROVE  \E m \in S : \A y \in S : m <= y
  <1>1. PICK m \in S : \A y \in S : ~(<<y, m>> \in OpToRel(<, Nat))
      BY NatLessThanWellFounded, WFMin, ZenonT(30)
  <1>2. \A y \in S : m <= y
    <2> SUFFICES ASSUME NEW y \in S, y < m PROVE FALSE
        OBVIOUS
    <2>1. <<y, m>> \in OpToRel(<, Nat)
        BY ZenonT(30) DEF OpToRel
    <2> QED
        BY <2>1, <1>1, ZenonT(30)
  <1> QED
      BY <1>2, ZenonT(30)

LEMMA GreatestOf ==
    ASSUME NEW n \in Nat, NEW S \in SUBSET (1..n), S # {}
    PROVE  \E m \in S : \A y \in S : y <= m
  <1> DEFINE T == {n - i : i \in S}
  <1>1. T \in SUBSET Nat
      BY SMT
  <1>0. T # {}
      BY Zenon
  <1>2. PICK t \in T : \A y \in T : t <= y
    <2> HIDE DEF T
    <2> QED
        BY <1>0, <1>1, LeastOf, ZenonT(30)
  <1>3. PICK m \in S : t = n - m
      BY ZenonT(30)
  <1>4. \A y \in S : n - m <= n - y
      BY <1>2, <1>3, ZenonT(30)
  <1> QED
      BY <1>4, SMT

LEMMA LastWriteIs ==
    ASSUME NEW s, NEW k, NEW n \in Nat
    PROVE  /\ LastWrite(s, k, n) \in Nat /\ LastWrite(s, k, n) <= n
           /\ \A i \in 1..n : wal[s][i] = k => i <= LastWrite(s, k, n)
           /\ LastWrite(s, k, n) > 0 => wal[s][LastWrite(s, k, n)] = k
  <1> DEFINE at == {i \in 1..n : wal[s][i] = k}
             last == CHOOSE i \in at : \A j \in at : j <= i
  <1>1. LastWrite(s, k, n) = IF at = {} THEN 0 ELSE last
      BY Zenon DEF LastWrite
  <1>2. at \in SUBSET (1..n)
      BY Zenon
  <1>3. at # {} => last \in at /\ \A j \in at : j <= last
    <2> HIDE DEF at
    <2>1. at # {} => \E i \in at : \A j \in at : j <= i
        BY <1>2, GreatestOf, ZenonT(30)
    <2> QED
        BY <2>1, ZenonT(30)
  <1> HIDE DEF last
  <1>4. CASE at = {}
      BY <1>1, <1>4, SMT
  <1>5. CASE at # {}
      BY <1>1, <1>3, <1>5, SMT
  <1> QED
      BY <1>4, <1>5, Zenon

LEMMA CopyRowsAre ==
    ASSUME NEW s \in Shards, NEW cp, NEW n \in Nat, NEW rows \in CopyRows(s, cp, n)
    PROVE  rows \in Seq(Keys)
  <1> DEFINE due == {k \in Keys : LastWrite(s, k, n) > 0 /\ (plan.keyless \/ k > cp.last)}
  <1>1. CASE cp.done
    <2>1. rows = <<>>
        BY <1>1, Zenon DEF CopyRows
    <2> QED
        BY <2>1, SMT
  <1>2. CASE ~cp.done
    <2>1. PICK m \in 0..n : rows \in [1..m -> due]
        BY <1>2, ZenonT(30) DEF CopyRows
    <2>2. due \subseteq Keys
        BY Zenon
    <2> HIDE DEF due
    <2> QED
        BY <2>1, <2>2, SMT
  <1> QED
      BY <1>1, <1>2, Zenon

-----------------------------------------------------------------------------
(* Type correctness. *)

Types == ShardTypes /\ StreamTypes

LEMMA CopyTypes == NoCopy \in Copies /\ NewCopy \in Copies
  <1>1. 0 \in Keys \cup {0}
      BY Zenon
  <1> QED
      BY <1>1, SMT DEF Copies, NoCopy, NewCopy

LEMMA PlanTypes ==
    ASSUME plan \in Plans
    PROVE  /\ plan.script \in Seq(Keys \cup {0}) /\ plan.copy \in BOOLEAN /\ plan.keyless \in BOOLEAN
           /\ plan.made \in BOOLEAN /\ plan.faults \in Nat
  <1>1. plan \in [script : Seq(Keys \cup {0}), copy : BOOLEAN, keyless : BOOLEAN, made : BOOLEAN,
                  acks : SUBSET {"stream", "unary"}, faults : Nat]
      BY StreamAssumption, Zenon
  <1> QED
      BY <1>1, SMT

LEMMA EndIs ==
    ASSUME ShardTypes, NEW s \in Shards, NEW e
    PROVE  End(s, e) \in Nat /\ End(s, e) <= Len(wal[s])
  <1>1. cut[s] \in Nat /\ Len(wal[s]) \in Nat /\ cut[s] <= Len(wal[s])
      BY SMT DEF ShardTypes
  <1>2. Len(wal[s]) <= Len(wal[s])
      BY <1>1, SMT
  <1> QED
      BY <1>1, <1>2, Zenon DEF End

LEMMA QuietEndIs ==
    ASSUME ShardTypes, NEW s \in Shards, NEW e, NEW n \in Nat
    PROVE  QuietEnd(s, e, n) \in Nat /\ \A i \in NextTxn(s, e, n) : i \in Nat /\ n < i /\ i <= End(s, e)
  <1>1. End(s, e) \in Nat
      BY EndIs
  <1>2. \A i \in NextTxn(s, e, n) : i \in (n + 1)..End(s, e)
      BY Zenon DEF NextTxn
  <1>3. \A i \in NextTxn(s, e, n) : i \in Nat /\ n < i /\ i <= End(s, e) /\ i - 1 \in Nat
      BY <1>1, <1>2, SMT
  <1>4. NextTxn(s, e, n) # {} => (CHOOSE i \in NextTxn(s, e, n) : TRUE) \in NextTxn(s, e, n)
      BY Zenon
  <1> QED
      BY <1>1, <1>3, <1>4, Zenon DEF QuietEnd

LEMMA TypesInit == Init => Types
  <1> SUFFICES ASSUME Init PROVE Types
      OBVIOUS
  <1>1. plan \in Plans
      BY Zenon DEF Init
  <1>2. plan.copy \in BOOLEAN /\ plan.made \in BOOLEAN
      BY <1>1, PlanTypes, Zenon
  <1>3. (CHOOSE k \in Keys : \A j \in Keys : k <= j) \in Keys
    <2>1. Keys \in SUBSET Nat /\ Keys # {}
        BY StreamAssumption, SMT
    <2>2. \E k \in Keys : \A j \in Keys : k <= j
        BY <2>1, LeastOf, Zenon
    <2> QED
        BY <2>2, Zenon
  <1>4. \A s \in Shards, k \in Keys : LastWrite(s, k, 1) \in Nat
      BY LastWriteIs, SMT
  <1>5. ShardTypes
      BY <1>1, <1>2, <1>3, SMT DEF Init, ShardTypes, Members, Seats, NoReader, Ackers, NoAck
  <1>6. Idle \in Readers /\ NoConn \in Calls /\ Empty \in Saves /\ [position |-> 0, emitted |-> 0, copying |-> NoCopy] \in Mergers
      BY CopyTypes, SMT DEF Idle, Readers, NoConn, Calls, Empty, Saves, Mergers, Members
  <1>7. StreamTypes
    <2>1. up \in BOOLEAN /\ copy \in BOOLEAN /\ queue \in [Shards -> Seq(Units)] /\ high \in [Shards -> Nat]
      <3>1. copy = plan.copy /\ up = FALSE /\ queue = [s \in Shards |-> <<>>] /\ high = [s \in Shards |-> IF copy THEN 0 ELSE 1]
          BY Zenon DEF Init
      <3>2. <<>> \in Seq(Units) /\ 0 \in Nat /\ 1 \in Nat
          BY SMT
      <3> QED
          BY <1>2, <3>1, <3>2, Zenon
    <2>2. replica \in [Shards -> [Keys -> Nat]]
      <3>1. replica = [s \in Shards |-> [k \in Keys |-> IF copy THEN 0 ELSE LastWrite(s, k, 1)]]
          BY Zenon DEF Init
      <3>2. \A s \in Shards, k \in Keys : (IF copy THEN 0 ELSE LastWrite(s, k, 1)) \in Nat
          BY <1>4, SMT
      <3> QED
          BY <3>1, <3>2, Zenon
    <2>3. rd \in [Shards -> Readers] /\ conn \in [Shards -> Calls] /\ mrg \in [Shards -> Mergers] /\ saved \in [Shards -> Saves]
        BY <1>6, Zenon DEF Init
    <2> QED
        BY <2>1, <2>2, <2>3, Zenon DEF StreamTypes
  <1> QED
      BY <1>5, <1>7, Zenon DEF Types

(* What the constructors and updates of a unit, a call and an ack make. *)

LEMMA UnitIs ==
    ASSUME NEW k \in Kinds
    PROVE  /\ Unit(k) \in Units
           /\ Unit(k).kind = k /\ Unit(k).lsn = 0 /\ Unit(k).key = 0 /\ Unit(k).ver = 0
           /\ Unit(k).cp = NoCopy /\ Unit(k).parts = <<>>
  BY CopyTypes, SMT DEF Unit, Units

(* A unary ack whose stream has ended. *)
LEMMA FreeIs ==
    ASSUME NEW a \in [sh : Shards, lsn : Nat, free : BOOLEAN]
    PROVE  LET b == [a EXCEPT !.free = TRUE]
           IN  b \in [sh : Shards, lsn : Nat, free : BOOLEAN] /\ b.sh = a.sh /\ b.lsn = a.lsn /\ b.free
  BY ZenonT(30)

LEMMA IdleIs ==
    ASSUME NEW n \in Nat, NEW c \in Copies
    PROVE  /\ LET x == [Idle EXCEPT !.delivered = n, !.cp = c]
              IN  x \in Readers /\ x.delivered = n /\ x.cp = c /\ x.asm = <<>>
           /\ Idle \in Readers /\ Idle.delivered = 0 /\ Idle.cp = NoCopy
           /\ NoAck \in Ackers /\ NoAck.want = 0 /\ NoAck.done = 0
           /\ [position |-> n, emitted |-> 0, copying |-> c] \in Mergers
  <1>1. Idle \in Readers /\ Idle.delivered = 0 /\ Idle.cp = NoCopy /\ Idle.asm = <<>>
      BY CopyTypes, SMT DEF Idle, Readers
  <1> QED
      BY <1>1, ZenonT(30) DEF Readers, NoAck, Ackers, Mergers

(* The larger and the smaller of two positions. *)
LEMMA TwoOf ==
    ASSUME NEW a \in Nat, NEW b \in Nat
    PROVE  /\ Max2(a, b) \in Nat /\ a <= Max2(a, b) /\ b <= Max2(a, b) /\ (Max2(a, b) = a \/ Max2(a, b) = b)
           /\ Min2(a, b) \in Nat /\ Min2(a, b) <= a /\ Min2(a, b) <= b /\ (Min2(a, b) = a \/ Min2(a, b) = b)
  BY SMT DEF Max2, Min2

(* The values a shard has. *)
LEMMA Values ==
    ASSUME Types, NEW s \in Shards
    PROVE  /\ wal[s] \in Seq(Keys \cup {0}) /\ Len(wal[s]) \in Nat /\ slot[s] \in [Members -> Nat] /\ status[s] \in SUBSET Nat
           /\ epoch[s] \in Members /\ topo[s] \in Members /\ pool[s] \in Seats /\ acker[s] \in Ackers
           /\ rd[s] \in Readers /\ conn[s] \in Calls /\ queue[s] \in Seq(Units) /\ mrg[s] \in Mergers
           /\ saved[s] \in Saves /\ replica[s] \in [Keys -> Nat] /\ high[s] \in Nat /\ cut[s] \in Nat
           /\ rd[s].delivered \in Nat /\ rd[s].cp \in Copies /\ rd[s].asm \in Seq(Nat)
           /\ conn[s].at \in Nat /\ conn[s].rows \in Seq(Keys) /\ saved[s].lsn \in Nat /\ saved[s].cp \in Copies
           /\ mrg[s].position \in Nat /\ mrg[s].emitted \in Nat /\ mrg[s].copying \in Copies
           /\ pool[s].acked \in Nat /\ pool[s].sent \in Nat /\ pool[s].delivered \in Nat /\ pool[s].got \in Nat
           /\ acker[s].want \in Nat /\ acker[s].done \in Nat
  <1>1. \A q \in Seq(Keys \cup {0}) : Len(q) \in Nat
      BY SMT
  <1> QED
      BY <1>1, ZenonT(30) DEF Types, ShardTypes, StreamTypes, Seats, Ackers, Readers, Calls, Mergers, Saves

(* One function of the shards is set at s. *)
LEMMA SetAt ==
    ASSUME NEW S, NEW f \in [Shards -> S], NEW s \in Shards, NEW v \in S
    PROVE  LET g == [f EXCEPT ![s] = v]
           IN  g \in [Shards -> S] /\ g[s] = v /\ \A t \in Shards : t # s => g[t] = f[t]
  BY Zenon

LEMMA Same ==
    /\ primary' = primary => wal' = wal /\ slot' = slot /\ status' = status /\ epoch' = epoch /\ cut' = cut
    /\ stream' = stream => up' = up /\ rd' = rd /\ conn' = conn /\ queue' = queue /\ mrg' = mrg /\ acker' = acker
    /\ consumer' = consumer => saved' = saved /\ replica' = replica /\ high' = high /\ copy' = copy
  BY SMT DEF primary, stream, consumer

LEMMA ShardStepTypes ==
    ASSUME Types, NEW s \in Shards, Commit(s) \/ SyncSlot(s) \/ Promote(s) \/ Reload(s) \/ CopyOpenLost(s) \/ SendStatus(s) \/ TakeStatus(s)
    PROVE  Types'
  <1>1. CASE Commit(s)
    <2>1. wal[s] \in Seq(Keys \cup {0}) /\ wal[s] # <<>> /\ plan.script \in Seq(Keys \cup {0}) /\ Len(wal[s]) <= Len(plan.script)
        BY <1>1, PlanTypes, ZenonT(30) DEF Commit, Types, ShardTypes
    <2> DEFINE w == Append(wal[s], plan.script[Len(wal[s])])
    <2>2. w \in Seq(Keys \cup {0}) /\ w # <<>> /\ Len(w) = Len(wal[s]) + 1
        BY <2>1, SMT
    <2>3. wal' = [wal EXCEPT ![s] = w]
        BY <1>1, ZenonT(30) DEF Commit
    <2> HIDE DEF w
    <2>4. wal' \in [Shards -> Seq(Keys \cup {0})] /\ \A t \in Shards : wal'[t] # <<>>
        BY <2>2, <2>3, ZenonT(30) DEF Types, ShardTypes
    <2>5. \A t \in Shards : cut[t] <= Len(wal'[t])
      <3> SUFFICES ASSUME NEW t \in Shards PROVE cut[t] <= Len(wal'[t])
          OBVIOUS
      <3>1. cut[t] \in Nat /\ Len(wal[t]) \in Nat /\ cut[t] <= Len(wal[t])
          BY Values, Zenon DEF Types, ShardTypes
      <3>2. wal'[t] = wal[t] \/ (t = s /\ wal'[t] = w)
          BY <2>3, ZenonT(30) DEF Types, ShardTypes
      <3> QED
          BY <2>2, <3>1, <3>2, SMT
    <2> QED
        BY <1>1, <2>4, <2>5, Same, ZenonT(30) DEF Commit, Types, ShardTypes, StreamTypes
  <1>2. CASE SyncSlot(s)
    <2>1. slot' \in [Shards -> [Members -> Nat]]
      <3>1. 1 \in Members /\ 2 \in Members
          BY SMT DEF Members
      <3> QED
          BY <1>2, <3>1, ZenonT(30) DEF SyncSlot, Types, ShardTypes
    <2> QED
        BY <1>2, <2>1, Same, ZenonT(30) DEF SyncSlot, Types, ShardTypes, StreamTypes
  <1>3. CASE Promote(s)
    <2>1. 2 \in Members /\ Len(wal[s]) \in Nat /\ faults + 1 \in Nat
        BY Values, SMT DEF Members, Types, ShardTypes
    <2>2. epoch' \in [Shards -> Members] /\ cut' \in [Shards -> Nat] /\ faults' \in Nat /\ status' \in [Shards -> SUBSET Nat]
        BY <1>3, <2>1, ZenonT(30) DEF Promote, Types, ShardTypes
    <2>3. Len(wal[s]) <= Len(wal[s])
        BY <2>1, SMT
    <2>4. \A t \in Shards : cut'[t] <= Len(wal[t])
        BY <1>3, <2>3, ZenonT(30) DEF Promote, Types, ShardTypes
    <2> QED
        BY <1>3, <2>2, <2>4, Same, ZenonT(30) DEF Promote, Types, ShardTypes, StreamTypes
  <1>4. CASE Reload(s)
    <2>1. topo' \in [Shards -> Members]
        BY <1>4, ZenonT(30) DEF Reload, Types, ShardTypes
    <2> QED
        BY <1>4, <2>1, Same, ZenonT(30) DEF Reload, Types, ShardTypes, StreamTypes
  <1>5. CASE CopyOpenLost(s)
    <2>1. slot' \in [Shards -> [Members -> Nat]]
      <3>1. End(s, topo[s]) \in Nat
          BY EndIs, Zenon DEF Types
      <3> QED
          BY <1>5, <3>1, ZenonT(30) DEF CopyOpenLost, ExportSnapshot, Types, ShardTypes
    <2>2. faults' \in Nat
        BY <1>5, SMT DEF CopyOpenLost, Types, ShardTypes
    <2> QED
        BY <1>5, <2>1, <2>2, Same, ZenonT(30) DEF CopyOpenLost, Types, ShardTypes, StreamTypes
  <1>6. CASE SendStatus(s)
    <2>1. pool[s].acked \in Nat /\ status[s] \in SUBSET Nat
        BY Values, Zenon
    <2> DEFINE l == status[s] \cup {pool[s].acked}
    <2>2. l \in SUBSET Nat
        BY <2>1, Zenon
    <2>3. (status' = status \/ status' = [status EXCEPT ![s] = l]) /\ pool' = [pool EXCEPT ![s].sent = pool[s].acked]
        BY <1>6, ZenonT(30) DEF SendStatus
    <2> HIDE DEF l
    <2>t. status \in [Shards -> SUBSET Nat] /\ pool \in [Shards -> Seats]
        BY Zenon DEF Types, ShardTypes
    <2>4. status' \in [Shards -> SUBSET Nat]
        BY <2>t, <2>2, <2>3, ZenonT(30)
    <2>5. [pool[s] EXCEPT !.sent = pool[s].acked] \in Seats
        BY <2>t, <2>1, ZenonT(30) DEF Seats
    <2>6. pool' = [pool EXCEPT ![s] = [pool[s] EXCEPT !.sent = pool[s].acked]]
        BY <2>3, ZenonT(30)
    <2>7. pool' \in [Shards -> Seats]
        BY <2>t, <2>5, <2>6, ZenonT(30)
    <2> QED
        BY <1>6, <2>4, <2>7, Same, ZenonT(30) DEF SendStatus, Types, ShardTypes, StreamTypes
  <1>7. CASE TakeStatus(s)
    <2>1. PICK lsn \in status[s] : slot' = [slot EXCEPT ![s][epoch[s]] = Max2(slot[s][epoch[s]], lsn)] /\ status' = [status EXCEPT ![s] = status[s] \ {lsn}]
        BY <1>7, ZenonT(30) DEF TakeStatus
    <2>2. epoch[s] \in Members /\ slot[s][epoch[s]] \in Nat /\ lsn \in Nat /\ status[s] \ {lsn} \in SUBSET Nat
        BY Values, ZenonT(30)
    <2> DEFINE n == Max2(slot[s][epoch[s]], lsn)
               l == status[s] \ {lsn}
    <2>3. n \in Nat
        BY <2>2, TwoOf, Zenon
    <2>4. slot' = [slot EXCEPT ![s][epoch[s]] = n] /\ status' = [status EXCEPT ![s] = l] /\ l \in SUBSET Nat
        BY <2>1, <2>2, Zenon
    <2> HIDE DEF n, l
    <2>5. slot' \in [Shards -> [Members -> Nat]] /\ status' \in [Shards -> SUBSET Nat]
        BY <2>2, <2>3, <2>4, ZenonT(30) DEF Types, ShardTypes
    <2> QED
        BY <1>7, <2>5, Same, ZenonT(30) DEF TakeStatus, Types, ShardTypes, StreamTypes
  <1> QED
      BY <1>1, <1>2, <1>3, <1>4, <1>5, <1>6, <1>7, Zenon

LEMMA AckStepTypes ==
    ASSUME Types, NEW s \in Shards,
           \/ \E lsn \in Nat : ForwardAck(s, lsn) \/ UnaryAck(s, lsn)
           \/ AckerCall(s) \/ AckerDone(s) \/ AckerFails(s) \/ ReleaseSlot(s)
    PROVE  Types'
  <1>t. pool \in [Shards -> Seats] /\ acker \in [Shards -> Ackers]
      BY Zenon DEF Types, ShardTypes
  <1>v. /\ acker[s] \in Ackers /\ acker[s].want \in Nat /\ pool[s] \in Seats /\ pool[s].got \in Nat
        /\ mrg[s].emitted \in Nat /\ pool[s].delivered \in Nat /\ pool[s].acked \in Nat
      BY Values, Zenon
  <1>0. 0 \in Nat
      BY SMT
  <1>1. ASSUME NEW lsn \in Nat, ForwardAck(s, lsn) PROVE Types'
    <2>1. Clamped(s, lsn) \in Nat
        BY <1>v, TwoOf, Zenon DEF Clamped
    <2>2. acker' \in [Shards -> Ackers]
        BY <1>1, <1>t, <2>1, ZenonT(30) DEF ForwardAck, Ackers
    <2> QED
        BY <1>1, <2>2, Same, ZenonT(30) DEF ForwardAck, Types, ShardTypes, StreamTypes
  <1>2. ASSUME NEW lsn \in Nat, UnaryAck(s, lsn) PROVE Types'
    <2>1. Clamped(s, lsn) \in Nat
        BY <1>v, TwoOf, Zenon DEF Clamped
    <2>2. [sh |-> s, lsn |-> Clamped(s, lsn), free |-> FALSE] \in [sh : Shards, lsn : Nat, free : BOOLEAN]
        BY <2>1, SMT
    <2>3. una' \in SUBSET [sh : Shards, lsn : Nat, free : BOOLEAN]
        BY <1>2, <2>2, ZenonT(30) DEF UnaryAck
    <2> QED
        BY <1>2, <2>3, Same, ZenonT(30) DEF UnaryAck, Types, ShardTypes, StreamTypes
  <1>3. CASE AckerCall(s)
    <2> DEFINE m == Min2(acker[s].want, pool[s].delivered)
               x == Max2(pool[s].acked, m)
    <2>1. m \in Nat /\ x \in Nat
        BY <1>v, TwoOf, Zenon
    <2>2. pool' = pool \/ pool' = [pool EXCEPT ![s] = [[pool[s] EXCEPT !.acked = x] EXCEPT !.ask = acker[s].want, !.got = m]]
        BY <1>3, ZenonT(30) DEF AckerCall, Acked
    <2>3. acker' \in [Shards -> Ackers]
        BY <1>3, <1>t, ZenonT(30) DEF AckerCall, Ackers
    <2> HIDE DEF m, x
    <2>4. [[pool[s] EXCEPT !.acked = x] EXCEPT !.ask = acker[s].want, !.got = m] \in Seats
        BY <1>v, <2>1, ZenonT(30) DEF Seats
    <2>5. pool' \in [Shards -> Seats]
        BY <1>t, <2>2, <2>4, ZenonT(30)
    <2> QED
        BY <1>3, <2>3, <2>5, Same, ZenonT(30) DEF AckerCall, Types, ShardTypes, StreamTypes
  <1>4. CASE AckerDone(s)
    <2>1. acker' \in [Shards -> Ackers]
        BY <1>4, <1>t, <1>v, ZenonT(30) DEF AckerDone, Ackers
    <2>2. pool' \in [Shards -> Seats]
        BY <1>4, <1>t, <1>0, ZenonT(30) DEF AckerDone, Seats
    <2> QED
        BY <1>4, <2>1, <2>2, Same, ZenonT(30) DEF AckerDone, Types, ShardTypes, StreamTypes
  <1>5. CASE AckerFails(s)
    <2>1. pool' \in [Shards -> Seats]
        BY <1>5, <1>t, <1>0, ZenonT(30) DEF AckerFails, Seats
    <2>2. faults' \in Nat
        BY <1>5, SMT DEF AckerFails, Types, ShardTypes
    <2> QED
        BY <1>5, <2>1, <2>2, Same, ZenonT(30) DEF AckerFails, Types, ShardTypes, StreamTypes
  <1>6. CASE ReleaseSlot(s)
    <2>1. NoReader \in Seats
        BY SMT DEF NoReader, Seats
    <2>2. pool' \in [Shards -> Seats]
        BY <1>6, <1>t, <2>1, ZenonT(30) DEF ReleaseSlot
    <2> QED
        BY <1>6, <2>2, Same, ZenonT(30) DEF ReleaseSlot, Types, ShardTypes, StreamTypes
  <1> QED
      BY <1>1, <1>2, <1>3, <1>4, <1>5, <1>6, Zenon

LEMMA UnaryCallTypes ==
    ASSUME Types, NEW a \in una, UnaryCall(a)
    PROVE  Types'
  <1>1. pool \in [Shards -> Seats] /\ a.sh \in Shards /\ a.lsn \in Nat /\ una' \in SUBSET [sh : Shards, lsn : Nat, free : BOOLEAN]
      BY ZenonT(30) DEF Types, ShardTypes, UnaryCall
  <1> DEFINE s == a.sh
             x == Max2(pool[s].acked, Min2(a.lsn, pool[s].delivered))
  <1>2. x \in Nat
      BY <1>1, Values, TwoOf, Zenon
  <1>3. pool' = pool \/ pool' = [pool EXCEPT ![s] = [pool[s] EXCEPT !.acked = x]]
      BY ZenonT(30) DEF UnaryCall, Acked
  <1> HIDE DEF x
  <1>4. pool' \in [Shards -> Seats]
      BY <1>1, <1>2, <1>3, ZenonT(30) DEF Seats
  <1> QED
      BY <1>1, <1>4, Same, ZenonT(30) DEF UnaryCall, Types, ShardTypes, StreamTypes

LEMMA CloseTypes ==
    ASSUME Types, Close
    PROVE  /\ up' \in BOOLEAN /\ rd' \in [Shards -> Readers] /\ conn' \in [Shards -> Calls] /\ queue' \in [Shards -> Seq(Units)]
           /\ mrg' \in [Shards -> Mergers] /\ acker' \in [Shards -> Ackers] /\ pool' \in [Shards -> Seats]
           /\ una' \in SUBSET [sh : Shards, lsn : Nat, free : BOOLEAN]
  <1>1. 0 \in Nat /\ <<>> \in Seq(Units) /\ 1 \in Members
      BY SMT DEF Members
  <1>2. Idle \in Readers /\ NoAck \in Ackers /\ [position |-> 0, emitted |-> 0, copying |-> NoCopy] \in Mergers
      BY <1>1, CopyTypes, IdleIs, Zenon
  <1>3. NoConn \in Calls
      BY SMT DEF NoConn, Calls
  <1>4. up' \in BOOLEAN /\ rd' \in [Shards -> Readers] /\ conn' \in [Shards -> Calls] /\ queue' \in [Shards -> Seq(Units)]
        /\ mrg' \in [Shards -> Mergers] /\ acker' \in [Shards -> Ackers]
      BY <1>1, <1>2, <1>3, ZenonT(30) DEF Close
  <1>5. pool' \in [Shards -> Seats]
    <2>1. \A x \in Seats : [x EXCEPT !.ask = 0, !.got = 0] \in Seats
        BY <1>1, ZenonT(30) DEF Seats
    <2>2. \A t \in Shards : pool[t] \in Seats
        BY Values, Zenon
    <2>3. pool' = [t \in Shards |-> [pool[t] EXCEPT !.ask = 0, !.got = 0]]
        BY Zenon DEF Close
    <2> QED
        BY <2>1, <2>2, <2>3, ZenonT(30)
  <1>6. una' \in SUBSET [sh : Shards, lsn : Nat, free : BOOLEAN]
    <2>1. una \in SUBSET [sh : Shards, lsn : Nat, free : BOOLEAN]
        BY Zenon DEF Types, ShardTypes
    <2>2. \A b \in una' : \E a \in una : b = [a EXCEPT !.free = TRUE]
        BY ZenonT(30) DEF Close
    <2> QED
        BY <2>1, <2>2, FreeIs, ZenonT(30)
  <1> QED
      BY <1>4, <1>5, <1>6, Zenon

-----------------------------------------------------------------------------
(* What a step of a shard's reader does: nothing but to its own place. *)

Moves(s) ==
    /\ rd' \in [Shards -> Readers] /\ conn' \in [Shards -> Calls] /\ queue' \in [Shards -> Seq(Units)]
    /\ \A t \in Shards : t # s => rd'[t] = rd[t] /\ conn'[t] = conn[t] /\ queue'[t] = queue[t] /\ slot'[t] = slot[t] /\ pool'[t] = pool[t]
    /\ slot' \in [Shards -> [Members -> Nat]] /\ pool' \in [Shards -> Seats] /\ faults' \in Nat
    /\ status' \in [Shards -> SUBSET Nat] /\ \A t \in Shards : status'[t] \subseteq status[t]
    /\ up' = up /\ mrg' = mrg /\ acker' = acker /\ una' = una
    /\ saved' = saved /\ replica' = replica /\ high' = high /\ copy' = copy
    /\ wal' = wal /\ epoch' = epoch /\ cut' = cut /\ topo' = topo /\ plan' = plan

LEMMA MovesTypes == ASSUME Types, NEW s \in Shards, Moves(s) PROVE Types'
  BY ZenonT(30) DEF Moves, Types, ShardTypes, StreamTypes

LEMMA PushDoes ==
    ASSUME Types, NEW s \in Shards, NEW u \in Units, Push(s, u)
    PROVE  /\ queue' \in [Shards -> Seq(Units)] /\ queue'[s] = Append(queue[s], u)
           /\ \A t \in Shards : t # s => queue'[t] = queue[t]
  <1> DEFINE q == Append(queue[s], u)
  <1>1. queue \in [Shards -> Seq(Units)] /\ queue' = [queue EXCEPT ![s] = q]
      BY Zenon DEF Types, StreamTypes, Push
  <1>2. q \in Seq(Units)
      BY <1>1, SMT
  <1> HIDE DEF q
  <1>3. queue' \in [Shards -> Seq(Units)] /\ queue'[s] = q /\ \A t \in Shards : t # s => queue'[t] = queue[t]
      BY <1>1, <1>2, SetAt, Zenon
  <1> QED
      BY <1>3, Zenon DEF q

LEMMA EndNow ==
    ASSUME Types, NEW s \in Shards, NEW e, e = epoch[s]
    PROVE  End(s, e) = Len(wal[s]) /\ e \in Members
  <1>1. ~(e < epoch[s]) /\ e \in Members
      BY Values, SMT DEF Members
  <1> QED
      BY <1>1, Zenon DEF End

(* A call ends, whoever ends it. *)
LEMMA HangupDoes ==
    ASSUME Types, NEW s \in Shards, Break(s) \/ EpochMoved(s) \/ Fenced(s)
    PROVE  /\ Moves(s) /\ slot' = slot
           /\ conn[s].kind # "off" /\ conn'[s] = NoConn /\ rd' = rd /\ queue' = queue
           /\ pool'[s] = pool[s] \/ pool'[s] = NoReader
  <1>1. conn' = [conn EXCEPT ![s] = NoConn] /\ rd' = rd /\ queue' = queue /\ slot' = slot
      BY Same, ZenonT(30) DEF Break, EpochMoved, Fenced, Hangup
  <1>2. pool' = pool \/ pool' = [pool EXCEPT ![s] = NoReader]
      BY ZenonT(30) DEF Break, EpochMoved, Fenced
  <1>3. NoConn \in Calls /\ NoReader \in Seats
      BY SMT DEF NoConn, Calls, NoReader, Seats
  <1>4. conn \in [Shards -> Calls] /\ pool \in [Shards -> Seats]
      BY Zenon DEF Types, ShardTypes, StreamTypes
  <1>5. conn' \in [Shards -> Calls] /\ conn'[s] = NoConn /\ \A t \in Shards : t # s => conn'[t] = conn[t]
      BY <1>1, <1>3, <1>4, ZenonT(30)
  <1>6. pool' \in [Shards -> Seats] /\ (pool'[s] = pool[s] \/ pool'[s] = NoReader) /\ \A t \in Shards : t # s => pool'[t] = pool[t]
      BY <1>2, <1>3, <1>4, ZenonT(30)
  <1>7. faults' \in Nat
    <2>1. faults \in Nat /\ (faults' = faults \/ faults' = faults + 1)
        BY ZenonT(30) DEF Break, EpochMoved, Fenced, Types, ShardTypes
    <2> QED
        BY <2>1, SMT
  <1>8. conn[s].kind # "off"
      BY ZenonT(30) DEF Break, EpochMoved, Fenced
  <1>9. /\ up' = up /\ mrg' = mrg /\ acker' = acker /\ una' = una
        /\ saved' = saved /\ replica' = replica /\ high' = high /\ copy' = copy
        /\ wal' = wal /\ status' = status /\ epoch' = epoch /\ cut' = cut /\ topo' = topo /\ plan' = plan
      BY Same, ZenonT(30) DEF Break, EpochMoved, Fenced
  <1> QED
      BY <1>1, <1>5, <1>6, <1>7, <1>8, <1>9, ZenonT(30) DEF Moves, Types, ShardTypes, StreamTypes

LEMMA CopyOpenDoes ==
    ASSUME Types, NEW s \in Shards, CopyOpen(s)
    PROVE  /\ Moves(s) /\ pool' = pool /\ faults' = faults
           /\ up /\ rd[s].cp.on /\ conn[s].kind = "off" /\ topo[s] = epoch[s] /\ Reading(s)
           /\ \E u \in Units :
                /\ queue'[s] = Append(queue[s], u)
                /\ u.kind = "snap" /\ u.lsn = (IF rd[s].delivered = 0 THEN Len(wal[s]) ELSE 0) /\ u.cp = rd[s].cp
                /\ rd'[s].delivered = Max2(rd[s].delivered, u.lsn)
           /\ rd'[s].cp = rd[s].cp /\ rd'[s].asm = rd[s].asm
           /\ conn'[s].kind = "copy" /\ conn'[s].at = Len(wal[s]) /\ ~conn'[s].begun
           /\ conn'[s].rows \in CopyRows(s, rd[s].cp, Len(wal[s]))
           /\ slot' = IF slot[s][epoch[s]] = 0 THEN [slot EXCEPT ![s][epoch[s]] = Len(wal[s])] ELSE slot
  <1> DEFINE e == topo[s]
             point == Len(wal[s])
             start == IF rd[s].delivered = 0 THEN point ELSE 0
             u == [Unit("snap") EXCEPT !.lsn = start, !.cp = rd[s].cp]
             n == Max2(rd[s].delivered, start)
  <1>1. up /\ rd[s].cp.on /\ conn[s].kind = "off" /\ e = epoch[s] /\ Reading(s)
      BY ZenonT(30) DEF CopyOpen, MayCopy, Reading, Serves
  <1>2. End(s, e) = point /\ point \in Nat /\ e \in Members
      BY <1>1, EndNow, Values, Zenon
  <1>3. PICK rows \in CopyRows(s, rd[s].cp, point) :
           /\ slot' = IF slot[s][e] = 0 THEN [slot EXCEPT ![s][e] = point] ELSE slot
           /\ conn' = [conn EXCEPT ![s] = [NoConn EXCEPT !.kind = "copy", !.ep = e, !.at = point, !.rows = rows]]
           /\ Push(s, u) /\ rd' = [rd EXCEPT ![s].delivered = n]
      BY <1>2, ZenonT(30) DEF CopyOpen, ExportSnapshot
  <1>4. rows \in Seq(Keys)
      BY <1>2, CopyRowsAre, Zenon
  <1>5. start \in Nat /\ n \in Nat
    <2>1. rd[s].delivered \in Nat
        BY Values, Zenon
    <2>2. start \in Nat
        BY <1>2, SMT
    <2> QED
        BY <2>1, <2>2, TwoOf, Zenon
  <1>6. u \in Units /\ u.kind = "snap" /\ u.lsn = start /\ u.cp = rd[s].cp
    <2>1. "snap" \in Kinds
        BY Zenon DEF Kinds
    <2>2. Unit("snap") \in Units /\ Unit("snap").kind = "snap"
        BY <2>1, UnitIs, Zenon
    <2> QED
        BY <2>2, <1>5, Values, ZenonT(30) DEF Units
  <1>7. conn' \in [Shards -> Calls] /\ conn'[s].kind = "copy" /\ conn'[s].at = point /\ ~conn'[s].begun /\ conn'[s].rows = rows
        /\ \A t \in Shards : t # s => conn'[t] = conn[t]
    <2> DEFINE c == [NoConn EXCEPT !.kind = "copy", !.ep = e, !.at = point, !.rows = rows]
    <2>1. c \in Calls /\ c.kind = "copy" /\ c.at = point /\ ~c.begun /\ c.rows = rows
      <3>1. NoConn \in Calls /\ NoConn.begun = FALSE
          BY SMT DEF NoConn, Calls
      <3> QED
          BY <1>2, <1>4, <3>1, ZenonT(30) DEF Calls
    <2>2. conn \in [Shards -> Calls] /\ conn' = [conn EXCEPT ![s] = c]
        BY <1>3, Zenon DEF Types, StreamTypes
    <2> HIDE DEF c
    <2>3. conn' \in [Shards -> Calls] /\ conn'[s] = c /\ \A t \in Shards : t # s => conn'[t] = conn[t]
        BY <2>1, <2>2, SetAt, Zenon
    <2> QED
        BY <2>1, <2>3, Zenon
  <1>8. queue' \in [Shards -> Seq(Units)] /\ queue'[s] = Append(queue[s], u) /\ \A t \in Shards : t # s => queue'[t] = queue[t]
      BY <1>3, <1>6, PushDoes, Zenon
  <1> HIDE DEF n, u, start
  <1>9. /\ rd' \in [Shards -> Readers] /\ rd'[s].delivered = n /\ rd'[s].cp = rd[s].cp /\ rd'[s].asm = rd[s].asm
        /\ \A t \in Shards : t # s => rd'[t] = rd[t]
      BY <1>3, <1>5, ZenonT(30) DEF Types, StreamTypes, Readers
  <1>10. slot' \in [Shards -> [Members -> Nat]] /\ \A t \in Shards : t # s => slot'[t] = slot[t]
      BY <1>2, <1>3, ZenonT(30) DEF Types, ShardTypes
  <1>11. /\ pool' = pool /\ faults' = faults
         /\ up' = up /\ mrg' = mrg /\ acker' = acker /\ una' = una
         /\ saved' = saved /\ replica' = replica /\ high' = high /\ copy' = copy
         /\ wal' = wal /\ status' = status /\ epoch' = epoch /\ cut' = cut /\ topo' = topo /\ plan' = plan
      BY Same, ZenonT(30) DEF CopyOpen
  <1>12. Moves(s)
      BY <1>7, <1>8, <1>9, <1>10, <1>11, ZenonT(30) DEF Moves, Types, ShardTypes
  <1>13. u.lsn = (IF rd[s].delivered = 0 THEN Len(wal[s]) ELSE 0) /\ rd'[s].delivered = Max2(rd[s].delivered, u.lsn)
      BY <1>6, <1>9, Zenon DEF start, n
  <1>14. slot' = IF slot[s][epoch[s]] = 0 THEN [slot EXCEPT ![s][epoch[s]] = Len(wal[s])] ELSE slot
      BY <1>1, <1>3, Zenon
  <1> QED
      BY <1>1, <1>3, <1>6, <1>7, <1>8, <1>9, <1>11, <1>12, <1>13, <1>14, ZenonT(30)

(* The copy's call is c now, its checkpoint cp, and unit u went to the merger with it. *)
Called(s, c) == conn' = [conn EXCEPT ![s] = c]
Messaged(s, u, cp, c) ==
    /\ Moves(s) /\ pool' = pool /\ slot' = slot /\ conn'[s] = c
    /\ rd'[s].cp = cp /\ rd'[s].delivered = rd[s].delivered
    /\ \E x \in Units :
         queue'[s] = Append(queue[s], x) /\ x.kind = u.kind /\ x.lsn = u.lsn /\ x.key = u.key /\ x.ver = u.ver /\ x.cp = cp

LEMMA CopyMessageDoes ==
    ASSUME Types, NEW s \in Shards, NEW u \in Units, NEW cp \in Copies, CopyMessage(s, u, cp),
           NEW c \in Calls, Called(s, c)
    PROVE  Messaged(s, u, cp, c)
  <1> DEFINE x == [u EXCEPT !.cp = cp]
  <1>1. x \in Units /\ x.kind = u.kind /\ x.lsn = u.lsn /\ x.key = u.key /\ x.ver = u.ver /\ x.cp = cp
      BY ZenonT(30) DEF Units
  <1>2. Push(s, x) /\ rd' = [rd EXCEPT ![s].cp = cp]
      BY Zenon DEF CopyMessage
  <1> HIDE DEF x
  <1>3. queue' \in [Shards -> Seq(Units)] /\ queue'[s] = Append(queue[s], x) /\ \A t \in Shards : t # s => queue'[t] = queue[t]
      BY <1>1, <1>2, PushDoes, Zenon
  <1>4. conn' \in [Shards -> Calls] /\ conn'[s] = c /\ \A t \in Shards : t # s => conn'[t] = conn[t]
      BY ZenonT(30) DEF Types, StreamTypes, Called
  <1>5. /\ rd' \in [Shards -> Readers] /\ rd'[s].delivered = rd[s].delivered /\ rd'[s].cp = cp
        /\ \A t \in Shards : t # s => rd'[t] = rd[t]
      BY <1>2, ZenonT(30) DEF Types, StreamTypes, Readers
  <1>6. /\ pool' = pool /\ faults' = faults /\ slot' = slot
        /\ up' = up /\ mrg' = mrg /\ acker' = acker /\ una' = una
        /\ saved' = saved /\ replica' = replica /\ high' = high /\ copy' = copy
        /\ wal' = wal /\ status' = status /\ epoch' = epoch /\ cut' = cut /\ topo' = topo /\ plan' = plan
      BY Same, ZenonT(30) DEF CopyMessage
  <1>7. Moves(s)
      BY <1>3, <1>4, <1>5, <1>6, ZenonT(30) DEF Moves, Types, ShardTypes
  <1> QED
      BY <1>1, <1>3, <1>4, <1>5, <1>6, <1>7, ZenonT(30) DEF Messaged

LEMMA CheckpointIs ==
    ASSUME NEW c \in Copies, NEW k \in Keys \cup {0}
    PROVE  /\ Checkpoint(c, k) \in Copies /\ Checkpoint(c, k).on = c.on /\ Checkpoint(c, k).done = c.done
           /\ Checkpoint(c, k).last = IF plan.keyless THEN 0 ELSE k
  BY ZenonT(30) DEF Checkpoint, Copies

(* The unit a copy's message becomes, and the call and checkpoint after it. *)
LEMMA TableBeginDoes ==
    ASSUME Types, NEW s \in Shards, CopyTableBegin(s)
    PROVE  /\ Moves(s) /\ pool' = pool /\ slot' = slot
           /\ conn[s].kind = "copy" /\ ~rd[s].cp.done
           /\ conn'[s].kind = "copy" /\ conn'[s].begun /\ conn'[s].rows = conn[s].rows /\ conn'[s].at = conn[s].at
           /\ rd'[s].cp = Checkpoint(rd[s].cp, rd[s].cp.last) /\ rd'[s].delivered = rd[s].delivered
           /\ \E x \in Units : queue'[s] = Append(queue[s], x) /\ x.kind = "begin" /\ x.lsn = 0 /\ x.cp = rd'[s].cp
  <1> DEFINE c == [conn[s] EXCEPT !.begun = TRUE]
             cp == Checkpoint(rd[s].cp, rd[s].cp.last)
             u == Unit("begin")
  <1>1. conn[s] \in Calls /\ rd[s].cp \in Copies /\ "begin" \in Kinds
      BY Values, Zenon DEF Kinds
  <1>2. u \in Units /\ u.kind = "begin" /\ u.lsn = 0
      BY <1>1, UnitIs, Zenon
  <1>3. cp \in Copies
    <2>1. rd[s].cp.last \in Keys \cup {0}
        BY <1>1, Zenon DEF Copies
    <2> QED
        BY <1>1, <2>1, CheckpointIs, Zenon
  <1>4. Called(s, c) /\ CopyMessage(s, u, cp)
      BY ZenonT(30) DEF CopyTableBegin, Called
  <1>7. conn[s].kind = "copy" /\ ~rd[s].cp.done
      BY Zenon DEF CopyTableBegin
  <1>5. c \in Calls
      BY <1>1, ZenonT(30) DEF Calls
  <1>8. c.kind = conn[s].kind /\ c.begun /\ c.rows = conn[s].rows /\ c.at = conn[s].at
      BY <1>1, ZenonT(30) DEF Calls
  <1> HIDE DEF c, cp, u
  <1>6. Messaged(s, u, cp, c)
      BY <1>2, <1>3, <1>4, <1>5, CopyMessageDoes, ZenonT(30)
  <1> QED
      BY <1>2, <1>6, <1>7, <1>8, ZenonT(30) DEF Messaged, cp

LEMMA RowDoes ==
    ASSUME Types, NEW s \in Shards, CopyRow(s)
    PROVE  /\ Moves(s) /\ pool' = pool /\ slot' = slot
           /\ conn[s].kind = "copy" /\ conn[s].rows # <<>> /\ Head(conn[s].rows) \in Keys
           /\ conn'[s].kind = "copy" /\ conn'[s].rows = Tail(conn[s].rows) /\ conn'[s].at = conn[s].at
           /\ rd'[s].cp = Checkpoint(rd[s].cp, Head(conn[s].rows)) /\ rd'[s].delivered = rd[s].delivered
           /\ \E x \in Units :
                /\ queue'[s] = Append(queue[s], x) /\ x.kind = "row" /\ x.lsn = 0 /\ x.cp = rd'[s].cp
                /\ x.key = Head(conn[s].rows) /\ x.ver = LastWrite(s, Head(conn[s].rows), conn[s].at)
  <1> DEFINE c == [conn[s] EXCEPT !.rows = Tail(conn[s].rows)]
             k == Head(conn[s].rows)
             v == LastWrite(s, k, conn[s].at)
             cp == Checkpoint(rd[s].cp, k)
             u == [Unit("row") EXCEPT !.key = k, !.ver = v]
  <1>1. conn[s] \in Calls /\ rd[s].cp \in Copies /\ "row" \in Kinds /\ conn[s].rows \in Seq(Keys) /\ conn[s].at \in Nat
      BY Values, Zenon DEF Kinds
  <1>2. Unit("row") \in Units /\ Unit("row").kind = "row" /\ Unit("row").lsn = 0
      BY <1>1, UnitIs, Zenon
  <1>3. conn[s].kind = "copy" /\ conn[s].rows # <<>> /\ Called(s, c) /\ CopyMessage(s, u, cp)
      BY ZenonT(30) DEF CopyRow, Called
  <1>4. k \in Keys /\ Tail(conn[s].rows) \in Seq(Keys)
      BY <1>1, <1>3, SMT
  <1>5. cp \in Copies
      BY <1>1, <1>4, CheckpointIs, Zenon
  <1>6. v \in Nat
      BY <1>1, LastWriteIs, Zenon
  <1>7. c \in Calls /\ c.kind = conn[s].kind /\ c.rows = Tail(conn[s].rows) /\ c.at = conn[s].at
      BY <1>1, <1>4, ZenonT(30) DEF Calls
  <1> HIDE DEF c, cp, k, v
  <1>8. u \in Units /\ u.kind = "row" /\ u.lsn = 0 /\ u.key = k /\ u.ver = v
      BY <1>2, <1>4, <1>6, ZenonT(30) DEF Units
  <1> HIDE DEF u
  <1>9. Messaged(s, u, cp, c)
      BY <1>3, <1>5, <1>7, <1>8, CopyMessageDoes, ZenonT(30)
  <1> QED
      BY <1>3, <1>4, <1>7, <1>8, <1>9, ZenonT(30) DEF Messaged, cp, k, v

LEMMA TableDoneDoes ==
    ASSUME Types, NEW s \in Shards, CopyTableDone(s)
    PROVE  /\ Moves(s) /\ pool' = pool /\ slot' = slot
           /\ conn[s].kind = "copy" /\ conn[s].rows = <<>> /\ ~rd[s].cp.done
           /\ conn'[s] = conn[s]
           /\ rd'[s].cp.on = rd[s].cp.on /\ rd'[s].cp.last = 0 /\ rd'[s].cp.done /\ rd'[s].delivered = rd[s].delivered
           /\ \E x \in Units : queue'[s] = Append(queue[s], x) /\ x.kind = "tabledone" /\ x.lsn = 0 /\ x.cp = rd'[s].cp
  <1> DEFINE c == conn[s]
             cp == [rd[s].cp EXCEPT !.last = 0, !.done = TRUE]
             u == Unit("tabledone")
  <1>1. conn[s] \in Calls /\ rd[s].cp \in Copies /\ "tabledone" \in Kinds
      BY Values, Zenon DEF Kinds
  <1>2. u \in Units /\ u.kind = "tabledone" /\ u.lsn = 0
      BY <1>1, UnitIs, Zenon
  <1>3. cp \in Copies
      BY <1>1, ZenonT(30) DEF Copies
  <1>8. cp.on = rd[s].cp.on /\ cp.last = 0 /\ cp.done
      BY <1>1, CopyTypes, ZenonT(30) DEF Copies
  <1>7. conn[s].kind = "copy" /\ conn[s].rows = <<>> /\ ~rd[s].cp.done
      BY Zenon DEF CopyTableDone
  <1>4. Called(s, c) /\ CopyMessage(s, u, cp)
      <2>1. conn = [conn EXCEPT ![s] = c]
          BY ZenonT(30) DEF Types, StreamTypes
      <2> QED
          BY <2>1, ZenonT(30) DEF CopyTableDone, Called
  <1>5. c \in Calls
      BY <1>1, Zenon
  <1> HIDE DEF c, cp, u
  <1>6. Messaged(s, u, cp, c)
      BY <1>2, <1>3, <1>4, <1>5, CopyMessageDoes, ZenonT(30)
  <1> QED
      BY <1>2, <1>6, <1>7, <1>8, ZenonT(30) DEF Messaged, c

LEMMA DoneDoes ==
    ASSUME Types, NEW s \in Shards, CopyDone(s)
    PROVE  /\ Moves(s) /\ pool' = pool /\ slot' = slot
           /\ conn[s].kind = "copy" /\ rd[s].cp.done
           /\ conn'[s] = NoConn
           /\ rd'[s].cp = NoCopy /\ rd'[s].delivered = rd[s].delivered
           /\ \E x \in Units : queue'[s] = Append(queue[s], x) /\ x.kind = "done" /\ x.lsn = 0 /\ x.cp = rd'[s].cp
  <1> DEFINE c == NoConn
             cp == NoCopy
             u == Unit("done")
  <1>1. conn[s] \in Calls /\ rd[s].cp \in Copies /\ "done" \in Kinds
      BY Values, Zenon DEF Kinds
  <1>2. u \in Units /\ u.kind = "done" /\ u.lsn = 0
      BY <1>1, UnitIs, Zenon
  <1>3. cp \in Copies /\ cp = NoCopy
      BY <1>1, CopyTypes, ZenonT(30) DEF Copies
  <1>4. conn[s].kind = "copy" /\ rd[s].cp.done /\ Called(s, c) /\ CopyMessage(s, u, cp)
      BY ZenonT(30) DEF CopyDone, Called, Hangup
  <1>5. c \in Calls
      BY SMT DEF NoConn, Calls
  <1> HIDE DEF c, cp, u
  <1>6. Messaged(s, u, cp, c)
      BY <1>2, <1>3, <1>4, <1>5, CopyMessageDoes, ZenonT(30)
  <1> QED
      BY <1>2, <1>3, <1>4, <1>5, <1>6, ZenonT(30) DEF Messaged, c

LEMMA StreamOpenDoes ==
    ASSUME Types, NEW s \in Shards, StreamOpen(s)
    PROVE  /\ Moves(s) /\ slot' = slot /\ queue' = queue
           /\ up /\ Reading(s) /\ ~rd[s].cp.on /\ conn[s].kind = "off" /\ topo[s] = epoch[s] /\ slot[s][epoch[s]] # 0
           /\ conn'[s].kind = "stream" /\ conn'[s].ep = topo[s] /\ conn'[s].at = Max2(rd[s].delivered, slot[s][epoch[s]]) /\ ~conn'[s].begun
           /\ rd'[s].delivered = rd[s].delivered /\ rd'[s].cp = rd[s].cp /\ rd'[s].asm = <<>>
           /\ pool'[s].ep = topo[s] /\ pool'[s].acked = 0 /\ pool'[s].sent = 0 /\ pool'[s].ask = 0
  <1> DEFINE e == topo[s]
             n == Max2(rd[s].delivered, slot[s][e])
             c == [NoConn EXCEPT !.kind = "stream", !.ep = e, !.at = n]
             x == [NoReader EXCEPT !.ep = e, !.delivered = rd[s].delivered]
  <1>1. up /\ Reading(s) /\ ~rd[s].cp.on /\ conn[s].kind = "off" /\ e = epoch[s] /\ slot[s][e] # 0
      BY ZenonT(30) DEF StreamOpen, MayStream, Reading, Serves
  <1>2. e \in Members /\ rd[s].delivered \in Nat /\ slot[s][e] \in Nat
      BY Values, Zenon
  <1>3. n \in Nat
      BY <1>2, TwoOf, Zenon
  <1>4. Called(s, c) /\ pool' = [pool EXCEPT ![s] = x] /\ rd' = [rd EXCEPT ![s].asm = <<>>]
      BY ZenonT(30) DEF StreamOpen, Called
  <1> HIDE DEF n
  <1>5. c \in Calls /\ c.kind = "stream" /\ c.ep = e /\ c.at = n /\ ~c.begun
    <2>1. NoConn \in Calls /\ NoConn.begun = FALSE
        BY SMT DEF NoConn, Calls
    <2> QED
        BY <1>2, <1>3, <2>1, ZenonT(30) DEF Calls
  <1>6. x \in Seats /\ x.ep = e /\ x.acked = 0 /\ x.sent = 0 /\ x.ask = 0
    <2>1. NoReader \in Seats /\ NoReader.acked = 0 /\ NoReader.sent = 0 /\ NoReader.ask = 0
        BY SMT DEF NoReader, Seats
    <2> QED
        BY <1>2, <2>1, ZenonT(30) DEF Seats
  <1>7. <<>> \in Seq(Nat)
      BY SMT
  <1> HIDE DEF c, x
  <1>8. conn' \in [Shards -> Calls] /\ conn'[s] = c /\ \A t \in Shards : t # s => conn'[t] = conn[t]
      BY <1>4, <1>5, ZenonT(30) DEF Types, StreamTypes, Called
  <1>9. pool' \in [Shards -> Seats] /\ pool'[s] = x /\ \A t \in Shards : t # s => pool'[t] = pool[t]
      BY <1>4, <1>6, ZenonT(30) DEF Types, ShardTypes
  <1>10. /\ rd' \in [Shards -> Readers] /\ rd'[s].delivered = rd[s].delivered /\ rd'[s].cp = rd[s].cp /\ rd'[s].asm = <<>>
         /\ \A t \in Shards : t # s => rd'[t] = rd[t]
      BY <1>4, <1>7, ZenonT(30) DEF Types, StreamTypes, Readers
  <1>11. /\ faults' = faults /\ slot' = slot /\ queue' = queue
         /\ up' = up /\ mrg' = mrg /\ acker' = acker /\ una' = una
         /\ saved' = saved /\ replica' = replica /\ high' = high /\ copy' = copy
         /\ wal' = wal /\ epoch' = epoch /\ cut' = cut /\ topo' = topo /\ plan' = plan
      BY Same, ZenonT(30) DEF StreamOpen
  <1>s. status' \in [Shards -> SUBSET Nat] /\ \A t \in Shards : status'[t] \subseteq status[t]
    <2>1. status \in [Shards -> SUBSET Nat] /\ status' = [status EXCEPT ![s] = {}]
        BY Zenon DEF StreamOpen, Types, ShardTypes
    <2> QED
        BY <2>1, ZenonT(30)
  <1>12. Moves(s)
      BY <1>8, <1>9, <1>10, <1>11, <1>s, ZenonT(30) DEF Moves, Types, ShardTypes, StreamTypes
  <1>13. conn'[s].at = Max2(rd[s].delivered, slot[s][epoch[s]])
      BY <1>1, <1>5, <1>8, Zenon DEF n
  <1> QED
      BY <1>1, <1>5, <1>6, <1>8, <1>9, <1>10, <1>11, <1>12, <1>13, ZenonT(30)

LEMMA RefusedDoes ==
    ASSUME Types, NEW s \in Shards, StreamRefused(s)
    PROVE  /\ Moves(s) /\ slot' = slot /\ pool' = pool /\ rd' = rd /\ conn' = conn
           /\ up /\ Reading(s) /\ ~rd[s].cp.on /\ conn[s].kind = "off" /\ topo[s] = epoch[s] /\ slot[s][epoch[s]] = 0
           /\ \E u \in Units : queue'[s] = Append(queue[s], u) /\ u.kind = "gone" /\ u.lsn = 0 /\ u.cp = NoCopy
  <1> DEFINE u == Unit("gone")
  <1>1. "gone" \in Kinds
      BY Zenon DEF Kinds
  <1>2. u \in Units /\ u.kind = "gone" /\ u.lsn = 0 /\ u.cp = NoCopy
      BY <1>1, UnitIs, Zenon
  <1>3. Push(s, u) /\ up /\ Reading(s) /\ ~rd[s].cp.on /\ conn[s].kind = "off" /\ topo[s] = epoch[s] /\ slot[s][topo[s]] = 0
      BY ZenonT(30) DEF StreamRefused, MayStream, Reading, Serves
  <1> HIDE DEF u
  <1>4. queue' \in [Shards -> Seq(Units)] /\ queue'[s] = Append(queue[s], u) /\ \A t \in Shards : t # s => queue'[t] = queue[t]
      BY <1>2, <1>3, PushDoes, Zenon
  <1>5. /\ faults' = faults /\ slot' = slot /\ pool' = pool /\ rd' = rd /\ conn' = conn
        /\ up' = up /\ mrg' = mrg /\ acker' = acker /\ una' = una
        /\ saved' = saved /\ replica' = replica /\ high' = high /\ copy' = copy
        /\ wal' = wal /\ status' = status /\ epoch' = epoch /\ cut' = cut /\ topo' = topo /\ plan' = plan
      BY Same, ZenonT(30) DEF StreamRefused
  <1>6. Moves(s)
      BY <1>4, <1>5, ZenonT(30) DEF Moves, Types, ShardTypes, StreamTypes
  <1> QED
      BY <1>2, <1>3, <1>4, <1>5, <1>6, ZenonT(30)

LEMMA SegmentDoes ==
    ASSUME Types, NEW s \in Shards, RecvSegment(s)
    PROVE  /\ Moves(s) /\ slot' = slot /\ pool' = pool /\ queue' = queue
           /\ conn[s].kind = "stream" /\ ~conn[s].begun
           /\ conn'[s].kind = "stream" /\ conn'[s].ep = conn[s].ep /\ conn'[s].at = conn[s].at /\ conn'[s].begun
           /\ rd'[s].delivered = rd[s].delivered /\ rd'[s].cp = rd[s].cp /\ rd'[s].asm = Append(rd[s].asm, 1)
  <1> DEFINE a == Append(rd[s].asm, 1)
             c == [conn[s] EXCEPT !.begun = TRUE]
  <1>1. conn[s] \in Calls /\ rd[s].asm \in Seq(Nat)
      BY Values, Zenon
  <1>2. a \in Seq(Nat)
      BY <1>1, SMT
  <1>3. conn[s].kind = "stream" /\ ~conn[s].begun /\ Called(s, c) /\ rd' = [rd EXCEPT ![s].asm = a]
      BY ZenonT(30) DEF RecvSegment, Delivers, Called
  <1>4. c \in Calls /\ c.kind = conn[s].kind /\ c.ep = conn[s].ep /\ c.at = conn[s].at /\ c.begun
      BY <1>1, ZenonT(30) DEF Calls
  <1> HIDE DEF a, c
  <1>5. conn' \in [Shards -> Calls] /\ conn'[s] = c /\ \A t \in Shards : t # s => conn'[t] = conn[t]
      BY <1>3, <1>4, ZenonT(30) DEF Types, StreamTypes, Called
  <1>6. /\ rd' \in [Shards -> Readers] /\ rd'[s].delivered = rd[s].delivered /\ rd'[s].cp = rd[s].cp /\ rd'[s].asm = a
        /\ \A t \in Shards : t # s => rd'[t] = rd[t]
      BY <1>2, <1>3, ZenonT(30) DEF Types, StreamTypes, Readers
  <1>7. /\ faults' = faults /\ slot' = slot /\ pool' = pool /\ queue' = queue
        /\ up' = up /\ mrg' = mrg /\ acker' = acker /\ una' = una
        /\ saved' = saved /\ replica' = replica /\ high' = high /\ copy' = copy
        /\ wal' = wal /\ status' = status /\ epoch' = epoch /\ cut' = cut /\ topo' = topo /\ plan' = plan
      BY Same, ZenonT(30) DEF RecvSegment
  <1>8. Moves(s)
      BY <1>5, <1>6, <1>7, ZenonT(30) DEF Moves, Types, ShardTypes, StreamTypes
  <1> QED
      BY <1>3, <1>4, <1>5, <1>6, <1>7, <1>8, ZenonT(30) DEF a

(* The reader's place after the unit at lsn i, and whether unit u went to the merger. *)
DeliveredAt(s, i, u) ==
    /\ Moves(s) /\ slot' = slot
    /\ rd'[s].delivered = Max2(rd[s].delivered, i) /\ rd'[s].cp = rd[s].cp /\ rd'[s].asm = <<>>
    /\ conn'[s].kind = conn[s].kind /\ conn'[s].ep = conn[s].ep /\ conn'[s].at = i /\ ~conn'[s].begun
    /\ IF i > rd[s].delivered THEN queue'[s] = Append(queue[s], u) ELSE queue'[s] = queue[s]
    /\ pool'[s].ep = pool[s].ep /\ pool'[s].acked = pool[s].acked /\ pool'[s].sent = pool[s].sent /\ pool'[s].ask = pool[s].ask

LEMMA DeliverDoes ==
    ASSUME Types, NEW s \in Shards, NEW i \in Nat, NEW u \in Units, Deliver(s, i, u)
    PROVE  DeliveredAt(s, i, u)
  <1> DEFINE n == Max2(rd[s].delivered, i)
             m == Max2(pool[s].delivered, i)
             r == [rd[s] EXCEPT !.delivered = n, !.asm = <<>>]
             c == [conn[s] EXCEPT !.at = i, !.begun = FALSE]
             x == [pool[s] EXCEPT !.delivered = m]
  <1>1. rd[s] \in Readers /\ conn[s] \in Calls /\ pool[s] \in Seats /\ rd[s].delivered \in Nat /\ pool[s].delivered \in Nat
      BY Values, Zenon
  <1>2. n \in Nat /\ m \in Nat
      BY <1>1, TwoOf, Zenon
  <1>3. <<>> \in Seq(Nat)
      BY SMT
  <1>4. rd' = [rd EXCEPT ![s] = r] /\ Called(s, c) /\ pool' = [pool EXCEPT ![s] = x]
      BY ZenonT(30) DEF Deliver, Called
  <1> HIDE DEF n, m
  <1>5. r \in Readers /\ r.delivered = n /\ r.cp = rd[s].cp /\ r.asm = <<>>
      BY <1>1, <1>2, <1>3, ZenonT(30) DEF Readers
  <1>6. c \in Calls /\ c.kind = conn[s].kind /\ c.ep = conn[s].ep /\ c.at = i /\ ~c.begun
      BY <1>1, ZenonT(30) DEF Calls
  <1>7. x \in Seats /\ x.ep = pool[s].ep /\ x.acked = pool[s].acked /\ x.sent = pool[s].sent /\ x.ask = pool[s].ask
      BY <1>1, <1>2, ZenonT(30) DEF Seats
  <1> HIDE DEF r, c, x
  <1>8. conn' \in [Shards -> Calls] /\ conn'[s] = c /\ \A t \in Shards : t # s => conn'[t] = conn[t]
      BY <1>4, <1>6, ZenonT(30) DEF Types, StreamTypes, Called
  <1>9. pool' \in [Shards -> Seats] /\ pool'[s] = x /\ \A t \in Shards : t # s => pool'[t] = pool[t]
      BY <1>4, <1>7, ZenonT(30) DEF Types, ShardTypes
  <1>10. rd' \in [Shards -> Readers] /\ rd'[s] = r /\ \A t \in Shards : t # s => rd'[t] = rd[t]
      BY <1>4, <1>5, ZenonT(30) DEF Types, StreamTypes
  <1>11. /\ queue' \in [Shards -> Seq(Units)] /\ \A t \in Shards : t # s => queue'[t] = queue[t]
         /\ IF i > rd[s].delivered THEN queue'[s] = Append(queue[s], u) ELSE queue'[s] = queue[s]
    <2>1. CASE i > rd[s].delivered
      <3>1. Push(s, u)
          BY <2>1, Zenon DEF Deliver
      <3> QED
          BY <2>1, <3>1, PushDoes, Zenon
    <2>2. CASE ~(i > rd[s].delivered)
      <3>1. queue' = queue
          BY <2>2, Zenon DEF Deliver
      <3> QED
          BY <2>2, <3>1, Zenon DEF Types, StreamTypes
    <2> QED
        BY <2>1, <2>2, Zenon
  <1>12. /\ faults' = faults /\ slot' = slot
         /\ up' = up /\ mrg' = mrg /\ acker' = acker /\ una' = una
         /\ saved' = saved /\ replica' = replica /\ high' = high /\ copy' = copy
         /\ wal' = wal /\ status' = status /\ epoch' = epoch /\ cut' = cut /\ topo' = topo /\ plan' = plan
      BY Same, ZenonT(30) DEF Deliver
  <1>13. Moves(s)
      BY <1>8, <1>9, <1>10, <1>11, <1>12, ZenonT(30) DEF Moves, Types, ShardTypes, StreamTypes
  <1>14. rd'[s].delivered = Max2(rd[s].delivered, i)
      BY <1>5, <1>10, Zenon DEF n
  <1> QED
      BY <1>5, <1>6, <1>7, <1>8, <1>9, <1>10, <1>11, <1>12, <1>13, <1>14, ZenonT(30) DEF DeliveredAt

LEMMA CommitDoes ==
    ASSUME Types, NEW s \in Shards, RecvCommit(s)
    PROVE  /\ conn[s].kind = "stream" /\ conn[s].begun
           /\ \E i \in NextTxn(s, conn[s].ep, conn[s].at), u \in Units :
                /\ i \in Nat /\ DeliveredAt(s, i, u)
                /\ u.kind = "txn" /\ u.lsn = i /\ u.key = wal[s][i] /\ u.ver = i /\ u.cp = NoCopy /\ u.parts = Append(rd[s].asm, 2)
  <1>1. conn[s].kind = "stream" /\ conn[s].begun /\ "txn" \in Kinds
      BY Zenon DEF RecvCommit, Delivers, Kinds
  <1>2. PICK i \in NextTxn(s, conn[s].ep, conn[s].at) :
           Deliver(s, i, [Unit("txn") EXCEPT !.lsn = i, !.key = wal[s][i], !.ver = i, !.parts = Append(rd[s].asm, 2)])
      BY Zenon DEF RecvCommit
  <1> DEFINE v == Unit("txn")
             k == wal[s][i]
             a == Append(rd[s].asm, 2)
             u == [v EXCEPT !.lsn = i, !.key = k, !.ver = i, !.parts = a]
  <1>3. v \in Units /\ v.kind = "txn" /\ v.cp = NoCopy
      BY <1>1, UnitIs, Zenon
  <1>4. i \in Nat /\ conn[s].at < i /\ i <= End(s, conn[s].ep)
      BY QuietEndIs, Values, Zenon DEF Types
  <1>5. a \in Seq(Nat)
    <2>1. rd[s].asm \in Seq(Nat)
        BY Values, Zenon
    <2> QED
        BY <2>1, SMT
  <1>6. k \in Keys \cup {0}
    <2>1. wal[s] \in Seq(Keys \cup {0}) /\ conn[s].at \in Nat
        BY Values, Zenon
    <2> QED
      <3>1. End(s, conn[s].ep) \in Nat /\ End(s, conn[s].ep) <= Len(wal[s])
          BY EndIs, Zenon DEF Types
      <3> QED
          BY <1>4, <2>1, <3>1, SMT
  <1> HIDE DEF v, k, a
  <1>7. u \in Units /\ u.kind = "txn" /\ u.lsn = i /\ u.key = k /\ u.ver = i /\ u.cp = NoCopy /\ u.parts = a
      BY <1>3, <1>4, <1>5, <1>6, ZenonT(30) DEF Units
  <1>8. Deliver(s, i, u)
      BY <1>2, Zenon DEF v, k, a
  <1> HIDE DEF u
  <1>9. DeliveredAt(s, i, u)
      BY <1>4, <1>7, <1>8, DeliverDoes, Zenon
  <1> QED
      BY <1>1, <1>4, <1>7, <1>9, ZenonT(30) DEF k, a

LEMMA KeepaliveDoes ==
    ASSUME Types, NEW s \in Shards, RecvKeepalive(s)
    PROVE  /\ conn[s].kind = "stream" /\ ~conn[s].begun
           /\ \E u \in Units :
                LET i == QuietEnd(s, conn[s].ep, conn[s].at)
                IN  /\ i \in Nat /\ i > rd[s].delivered /\ DeliveredAt(s, i, u)
                    /\ u.kind = "mark" /\ u.lsn = i /\ u.cp = NoCopy
  <1> DEFINE i == QuietEnd(s, conn[s].ep, conn[s].at)
             v == Unit("mark")
             u == [v EXCEPT !.lsn = i]
  <1>1. conn[s].kind = "stream" /\ ~conn[s].begun /\ i > rd[s].delivered /\ Deliver(s, i, u) /\ "mark" \in Kinds
      BY ZenonT(30) DEF RecvKeepalive, Delivers, Kinds
  <1>2. i \in Nat
      BY QuietEndIs, Values, Zenon DEF Types
  <1>3. v \in Units /\ v.kind = "mark" /\ v.cp = NoCopy
      BY <1>1, UnitIs, Zenon
  <1> HIDE DEF i, v
  <1>4. u \in Units /\ u.kind = "mark" /\ u.lsn = i /\ u.cp = NoCopy
      BY <1>2, <1>3, ZenonT(30) DEF Units
  <1> HIDE DEF u
  <1>5. DeliveredAt(s, i, u)
      BY <1>1, <1>2, <1>4, DeliverDoes, Zenon
  <1> QED
      BY <1>1, <1>2, <1>4, <1>5, ZenonT(30) DEF i

-----------------------------------------------------------------------------
(* What opening and ending the stream, and the merger's steps, do. *)

Phase(s) == IF saved[s].cp.on THEN saved[s].cp ELSE IF copy /\ saved[s].lsn = 0 THEN NewCopy ELSE NoCopy

LEMMA OpenDoes ==
    ASSUME Types, Open
    PROVE  /\ Types' /\ ~up /\ up' /\ primary' = primary /\ consumer' = consumer
           /\ topo' = topo /\ conn' = conn /\ queue' = queue /\ acker' = acker /\ pool' = pool /\ una' = una /\ plan' = plan
           /\ \A s \in Shards :
                /\ rd'[s].delivered = saved[s].lsn /\ rd'[s].cp = Phase(s)
                /\ mrg'[s].position = saved[s].lsn /\ mrg'[s].emitted = 0 /\ mrg'[s].copying = Phase(s)
  <1>1. /\ ~up /\ up' = TRUE /\ primary' = primary /\ consumer' = consumer /\ faults' = faults
        /\ topo' = topo /\ conn' = conn /\ queue' = queue /\ acker' = acker /\ pool' = pool /\ una' = una /\ plan' = plan
        /\ rd' = [s \in Shards |-> [Idle EXCEPT !.delivered = saved[s].lsn, !.cp = Phase(s)]]
        /\ mrg' = [s \in Shards |-> [position |-> saved[s].lsn, emitted |-> 0, copying |-> Phase(s)]]
      BY ZenonT(30) DEF Open, Phase
  <1>2. ASSUME NEW s \in Shards
        PROVE  /\ rd'[s] \in Readers /\ rd'[s].delivered = saved[s].lsn /\ rd'[s].cp = Phase(s)
               /\ mrg'[s] \in Mergers /\ mrg'[s].position = saved[s].lsn /\ mrg'[s].emitted = 0 /\ mrg'[s].copying = Phase(s)
    <2> DEFINE n == saved[s].lsn
               c == Phase(s)
               r == [Idle EXCEPT !.delivered = n, !.cp = c]
               m == [position |-> n, emitted |-> 0, copying |-> c]
    <2>1. n \in Nat /\ saved[s].cp \in Copies
        BY Values, Zenon
    <2>2. c \in Copies
        BY <2>1, CopyTypes, Zenon DEF Phase
    <2>3. rd'[s] = r /\ mrg'[s] = m
        BY <1>1, Zenon
    <2> HIDE DEF n, c
    <2>4. Idle \in Readers
        BY <2>1, <2>2, IdleIs, Zenon
    <2>5. r \in Readers /\ r.delivered = n /\ r.cp = c
        BY <2>1, <2>2, <2>4, ZenonT(30) DEF Readers
    <2>6. m \in Mergers /\ m.position = n /\ m.emitted = 0 /\ m.copying = c
        BY <2>1, <2>2, SMT DEF Mergers
    <2> HIDE DEF r, m
    <2> QED
        BY <2>3, <2>5, <2>6, Zenon DEF n, c
  <1>3. rd' \in [Shards -> Readers] /\ mrg' \in [Shards -> Mergers]
    <2>1. rd' = [s \in Shards |-> rd'[s]] /\ mrg' = [s \in Shards |-> mrg'[s]]
        BY <1>1, Zenon
    <2> QED
        BY <1>2, <2>1, Zenon
  <1>4. Types'
      BY <1>1, <1>3, Same, ZenonT(30) DEF Types, ShardTypes, StreamTypes
  <1> QED
      BY <1>1, <1>2, <1>4, ZenonT(30)

LEMMA CloseDoes ==
    ASSUME Types, StreamEnd \/ \E s \in Shards : EmitGone(s)
    PROVE  /\ Types' /\ ~up' /\ primary' = primary /\ topo' = topo /\ plan' = plan /\ replica' = replica /\ high' = high
           /\ \/ saved' = saved /\ copy' = copy
              \/ copy' = TRUE /\ \A s \in Shards : saved'[s] = Empty
           /\ \A s \in Shards :
                /\ rd'[s] = Idle /\ conn'[s] = NoConn /\ queue'[s] = <<>> /\ acker'[s] = NoAck
                /\ mrg'[s].position = 0 /\ mrg'[s].emitted = 0 /\ mrg'[s].copying = NoCopy
                /\ pool'[s].ep = pool[s].ep /\ pool'[s].acked = pool[s].acked /\ pool'[s].sent = pool[s].sent /\ pool'[s].ask = 0
           /\ \A b \in una' : \E a \in una : b.sh = a.sh /\ b.lsn = a.lsn /\ b.free /\ (a.free \/ ~mrg[a.sh].copying.on)
  <1>1. Close /\ primary' = primary /\ topo' = topo /\ plan' = plan
      BY ZenonT(30) DEF StreamEnd, EmitGone
  <1>2. replica' = replica /\ high' = high
      BY Same, ZenonT(30) DEF StreamEnd, EmitGone
  <1>3. \/ saved' = saved /\ copy' = copy
        \/ copy' = TRUE /\ saved' = [t \in Shards |-> Empty]
      BY Same, ZenonT(30) DEF StreamEnd, EmitGone
  <1>4. faults' \in Nat
    <2>1. faults \in Nat /\ (faults' = faults \/ faults' = faults + 1)
        BY ZenonT(30) DEF StreamEnd, EmitGone, Types, ShardTypes
    <2> QED
        BY <2>1, SMT
  <1>5. Empty \in Saves
      BY CopyTypes, SMT DEF Empty, Saves
  <1>6. saved' \in [Shards -> Saves] /\ copy' \in BOOLEAN
      BY <1>3, <1>5, ZenonT(30) DEF Types, StreamTypes
  <1>7. Types'
      BY <1>1, <1>2, <1>4, <1>6, CloseTypes, Same, ZenonT(30) DEF Types, ShardTypes, StreamTypes
  <1>8. ~up'
      BY <1>1, Zenon DEF Close
  <1>9. ASSUME NEW s \in Shards
        PROVE  /\ rd'[s] = Idle /\ conn'[s] = NoConn /\ queue'[s] = <<>> /\ acker'[s] = NoAck
               /\ mrg'[s].position = 0 /\ mrg'[s].emitted = 0 /\ mrg'[s].copying = NoCopy
               /\ pool'[s].ep = pool[s].ep /\ pool'[s].acked = pool[s].acked /\ pool'[s].sent = pool[s].sent /\ pool'[s].ask = 0
    <2>1. /\ rd'[s] = Idle /\ conn'[s] = NoConn /\ queue'[s] = <<>> /\ acker'[s] = NoAck
          /\ mrg'[s].position = 0 /\ mrg'[s].emitted = 0 /\ mrg'[s].copying = NoCopy
        BY <1>1, ZenonT(30) DEF Close
    <2>2. pool'[s] = [pool[s] EXCEPT !.ask = 0, !.got = 0] /\ pool[s] \in Seats
        BY <1>1, Values, ZenonT(30) DEF Close
    <2>3. pool'[s].ep = pool[s].ep /\ pool'[s].acked = pool[s].acked /\ pool'[s].sent = pool[s].sent /\ pool'[s].ask = 0
        BY <2>2, ZenonT(30) DEF Seats
    <2> QED
        BY <2>1, <2>3, Zenon
  <1>10. ASSUME NEW b \in una'
         PROVE  \E a \in una : b.sh = a.sh /\ b.lsn = a.lsn /\ b.free /\ (a.free \/ ~mrg[a.sh].copying.on)
    <2>1. PICK a \in una : b = [a EXCEPT !.free = TRUE] /\ (a.free \/ ~mrg[a.sh].copying.on)
        BY <1>1, ZenonT(30) DEF Close
    <2>2. a \in [sh : Shards, lsn : Nat, free : BOOLEAN]
        BY Zenon DEF Types, ShardTypes
    <2> QED
        BY <2>1, <2>2, FreeIs, ZenonT(30)
  <1>11. \/ saved' = saved /\ copy' = copy
         \/ copy' = TRUE /\ \A s \in Shards : saved'[s] = Empty
      BY <1>3, ZenonT(30)
  <1> QED
      BY <1>1, <1>2, <1>7, <1>8, <1>9, <1>10, <1>11, ZenonT(30)

LEMMA AfterIs ==
    ASSUME NEW m \in Mergers, NEW u \in Units
    PROVE  /\ After(m, u) \in Mergers
           /\ After(m, u).position = IF u.lsn > m.position THEN u.lsn ELSE m.position
           /\ After(m, u).emitted = IF u.lsn > m.position THEN Max2(m.emitted, u.lsn) ELSE m.emitted
           /\ After(m, u).copying = IF u.cp.on THEN u.cp ELSE IF u.kind = "done" THEN NoCopy ELSE m.copying
  <1> DEFINE p == IF u.lsn > m.position THEN u.lsn ELSE m.position
             e == IF u.lsn > m.position THEN Max2(m.emitted, u.lsn) ELSE m.emitted
             c == IF u.cp.on THEN u.cp ELSE IF u.kind = "done" THEN NoCopy ELSE m.copying
  <1>1. m.position \in Nat /\ m.emitted \in Nat /\ m.copying \in Copies /\ u.lsn \in Nat /\ u.cp \in Copies
      BY ZenonT(30) DEF Mergers, Units
  <1>2. p \in Nat
      BY <1>1, Zenon
  <1>3. e \in Nat
      BY <1>1, TwoOf, Zenon
  <1>4. c \in Copies
      BY <1>1, CopyTypes, Zenon
  <1>5. After(m, u) = [position |-> p, emitted |-> e, copying |-> c]
      BY Zenon DEF After
  <1> HIDE DEF p, e, c
  <1>6. /\ [position |-> p, emitted |-> e, copying |-> c] \in Mergers /\ [position |-> p, emitted |-> e, copying |-> c].position = p
        /\ [position |-> p, emitted |-> e, copying |-> c].emitted = e /\ [position |-> p, emitted |-> e, copying |-> c].copying = c
      BY <1>2, <1>3, <1>4, ZenonT(30) DEF Mergers
  <1> QED
      BY <1>5, <1>6, Zenon DEF p, e, c

LEMMA VectorIs ==
    ASSUME NEW m \in [Shards -> Mergers]
    PROVE  Vector(m) \in [Shards -> Saves] /\ \A s \in Shards : Vector(m)[s].lsn = m[s].position /\ Vector(m)[s].cp = m[s].copying
  <1>1. ASSUME NEW s \in Shards
        PROVE  LET x == [lsn |-> m[s].position, cp |-> m[s].copying]
               IN  x \in Saves /\ Vector(m)[s] = x /\ x.lsn = m[s].position /\ x.cp = m[s].copying
      BY ZenonT(30) DEF Vector, Saves, Mergers
  <1>2. Vector(m) = [s \in Shards |-> [lsn |-> m[s].position, cp |-> m[s].copying]]
      BY Zenon DEF Vector
  <1> QED
      BY <1>1, <1>2, ZenonT(30)

(* The unit the merger takes, and what it becomes of the shard's vector and replica. *)
LEMMA EmitDoes ==
    ASSUME Types, NEW s \in Shards, Emit(s)
    PROVE  /\ Types' /\ up /\ queue[s] # <<>>
           /\ Head(queue[s]) \in Units /\ Head(queue[s]).kind # "gone"
           /\ queue'[s] = Tail(queue[s]) /\ mrg'[s] = After(mrg[s], Head(queue[s]))
           /\ \A t \in Shards : t # s => queue'[t] = queue[t] /\ mrg'[t] = mrg[t] /\ replica'[t] = replica[t] /\ high'[t] = high[t]
           /\ replica'[s] = IF Head(queue[s]).kind \in {"txn", "row"}
                            THEN [replica[s] EXCEPT ![Head(queue[s]).key] = Head(queue[s]).ver] ELSE replica[s]
           /\ high'[s] = IF Head(queue[s]).kind \in {"txn", "mark", "done"} THEN Max2(high[s], mrg'[s].position) ELSE high[s]
           /\ saved' = saved \/ (saved' = Vector(mrg') /\ Head(queue[s]).kind \notin {"mark", "snap"})
           /\ primary' = primary /\ topo' = topo /\ up' = up /\ rd' = rd /\ conn' = conn /\ acker' = acker /\ pool' = pool
           /\ una' = una /\ copy' = copy /\ plan' = plan
  <1> DEFINE u == Head(queue[s])
             q == Tail(queue[s])
             a == After(mrg[s], u)
  <1>1. /\ up /\ queue[s] # <<>> /\ u.kind # "gone"
        /\ queue' = [queue EXCEPT ![s] = q] /\ mrg' = [mrg EXCEPT ![s] = a]
      BY ZenonT(30) DEF Emit
  <1>2. /\ primary' = primary /\ topo' = topo /\ up' = up /\ rd' = rd /\ conn' = conn /\ acker' = acker /\ pool' = pool
        /\ una' = una /\ copy' = copy /\ plan' = plan /\ faults' = faults
      BY ZenonT(30) DEF Emit
  <1>3. replica' = IF u.kind \in {"txn", "row"} THEN [replica EXCEPT ![s][u.key] = u.ver] ELSE replica
      BY ZenonT(30) DEF Emit
  <1>4. saved' = saved \/ (saved' = Vector(mrg') /\ u.kind \notin {"mark", "snap"})
      BY ZenonT(30) DEF Emit
  <1>5. high' = IF u.kind \in {"txn", "mark", "done"} THEN [high EXCEPT ![s] = Max2(high[s], mrg'[s].position)] ELSE high
    <2> DEFINE m == [mrg EXCEPT ![s] = After(mrg[s], Head(queue[s]))]
    <2>1. mrg' = m /\ high' = IF u.kind \in {"txn", "mark", "done"} THEN [high EXCEPT ![s] = Max2(high[s], m[s].position)] ELSE high
        BY ZenonT(30) DEF Emit
    <2> HIDE DEF m
    <2> QED
        BY <2>1, Zenon
  <1>6. queue[s] \in Seq(Units) /\ mrg[s] \in Mergers /\ high[s] \in Nat
      BY Values, Zenon
  <1>7. u \in Units /\ q \in Seq(Units)
      BY <1>1, <1>6, SMT
  <1>8. a \in Mergers
      BY <1>6, <1>7, AfterIs, Zenon
  <1>9. u.ver \in Nat
      BY <1>7, ZenonT(30) DEF Units
  <1> HIDE DEF u, q, a
  <1>10. queue' \in [Shards -> Seq(Units)] /\ queue'[s] = q /\ \A t \in Shards : t # s => queue'[t] = queue[t]
      BY <1>1, <1>7, ZenonT(30) DEF Types, StreamTypes
  <1>11. mrg' \in [Shards -> Mergers] /\ mrg'[s] = a /\ \A t \in Shards : t # s => mrg'[t] = mrg[t]
      BY <1>1, <1>8, ZenonT(30) DEF Types, StreamTypes
  <1>12. /\ replica' \in [Shards -> [Keys -> Nat]] /\ \A t \in Shards : t # s => replica'[t] = replica[t]
         /\ replica'[s] = IF u.kind \in {"txn", "row"} THEN [replica[s] EXCEPT ![u.key] = u.ver] ELSE replica[s]
    <2>0. replica \in [Shards -> [Keys -> Nat]]
        BY Zenon DEF Types, StreamTypes
    <2>1. CASE u.kind \in {"txn", "row"}
      <3>1. replica' = [replica EXCEPT ![s][u.key] = u.ver]
          BY <1>3, <2>1, Zenon
      <3> QED
          BY <2>0, <2>1, <3>1, <1>9, ZenonT(30)
    <2>2. CASE u.kind \notin {"txn", "row"}
      <3>1. replica' = replica
          BY <1>3, <2>2, Zenon
      <3> QED
          BY <2>0, <2>2, <3>1, ZenonT(30)
    <2> QED
        BY <2>1, <2>2, Zenon
  <1>13. /\ high' \in [Shards -> Nat] /\ \A t \in Shards : t # s => high'[t] = high[t]
         /\ high'[s] = IF u.kind \in {"txn", "mark", "done"} THEN Max2(high[s], mrg'[s].position) ELSE high[s]
    <2> DEFINE x == Max2(high[s], mrg'[s].position)
    <2>1. mrg'[s].position \in Nat
        BY <1>8, <1>11, ZenonT(30) DEF Mergers
    <2>2. x \in Nat
        BY <1>6, <2>1, TwoOf, Zenon
    <2>3. high' = IF u.kind \in {"txn", "mark", "done"} THEN [high EXCEPT ![s] = x] ELSE high
        BY <1>5, Zenon
    <2> HIDE DEF x
    <2>4. /\ high' \in [Shards -> Nat] /\ \A t \in Shards : t # s => high'[t] = high[t]
          /\ high'[s] = IF u.kind \in {"txn", "mark", "done"} THEN x ELSE high[s]
        BY <2>2, <2>3, ZenonT(30) DEF Types, StreamTypes
    <2> QED
        BY <2>4, Zenon DEF x
  <1>14. saved' \in [Shards -> Saves]
      BY <1>4, <1>11, VectorIs, ZenonT(30) DEF Types, StreamTypes
  <1>15. Types'
      BY <1>2, <1>10, <1>11, <1>12, <1>13, <1>14, Same, ZenonT(30) DEF Types, ShardTypes, StreamTypes
  <1> QED
      BY <1>1, <1>2, <1>4, <1>7, <1>10, <1>11, <1>12, <1>13, <1>15, ZenonT(30) DEF u, q, a

LEMMA HeartbeatTypes == ASSUME Types, Heartbeat PROVE Types'
  <1>1. mrg \in [Shards -> Mergers]
      BY Zenon DEF Types, StreamTypes
  <1>2. saved' \in [Shards -> Saves]
      BY <1>1, VectorIs, Zenon DEF Heartbeat
  <1> QED
      BY <1>2, Same, ZenonT(30) DEF Heartbeat, Types, ShardTypes, StreamTypes

LEMMA TypesNext == ASSUME Types, [Next]_vars PROVE Types'
  <1>1. CASE Open \/ StreamEnd \/ Heartbeat
      BY <1>1, OpenDoes, CloseDoes, HeartbeatTypes, Zenon
  <1>2. CASE \E a \in una : UnaryCall(a)
      BY <1>2, UnaryCallTypes, Zenon
  <1>3. ASSUME NEW s \in Shards, Read(s) PROVE Types'
    <2>1. CASE CopyOpen(s) \/ CopyTableBegin(s) \/ CopyRow(s) \/ CopyTableDone(s) \/ CopyDone(s)
        BY <2>1, CopyOpenDoes, TableBeginDoes, RowDoes, TableDoneDoes, DoneDoes, MovesTypes, Zenon
    <2>2. CASE StreamOpen(s) \/ StreamRefused(s) \/ RecvSegment(s) \/ EpochMoved(s)
        BY <2>2, StreamOpenDoes, RefusedDoes, SegmentDoes, HangupDoes, MovesTypes, Zenon
    <2>3. CASE RecvCommit(s)
        BY <2>3, CommitDoes, MovesTypes, Zenon DEF DeliveredAt
    <2>4. CASE RecvKeepalive(s)
        BY <2>4, KeepaliveDoes, MovesTypes, Zenon DEF DeliveredAt
    <2> QED
        BY <1>3, <2>1, <2>2, <2>3, <2>4, Zenon DEF Read
  <1>4. ASSUME NEW s \in Shards,
               \/ Commit(s) \/ SyncSlot(s) \/ Promote(s) \/ Reload(s)
               \/ Break(s) \/ CopyOpenLost(s) \/ Fenced(s)
               \/ Emit(s) \/ EmitGone(s) \/ SendStatus(s) \/ TakeStatus(s)
        PROVE  Types'
      BY <1>4, ShardStepTypes, HangupDoes, MovesTypes, EmitDoes, CloseDoes, Zenon
  <1>5. ASSUME NEW s \in Shards,
               \/ \E lsn \in 1..Len(wal[s]) : ForwardAck(s, lsn) \/ UnaryAck(s, lsn)
               \/ AckerCall(s) \/ AckerDone(s) \/ AckerFails(s) \/ ReleaseSlot(s)
        PROVE  Types'
    <2>1. \A lsn \in 1..Len(wal[s]) : lsn \in Nat
        BY Values, SMT
    <2> QED
        BY <1>5, <2>1, AckStepTypes, Zenon
  <1>6. CASE UNCHANGED vars
      BY <1>6, Same, ZenonT(30) DEF vars, Types, ShardTypes, StreamTypes
  <1> QED
      BY <1>1, <1>2, <1>3, <1>4, <1>5, <1>6, ZenonT(30) DEF Next

-----------------------------------------------------------------------------
(* What waits for the merger is above its position p, in order, and not above *)
(* what the reader counts as delivered, d.                                    *)
Copied == {"snap", "begin", "row", "tabledone"}
Fits(u) ==
    /\ u.kind \in {"txn", "mark"} => u.lsn > 0
    /\ u.kind = "txn" => u.parts = <<1, 2>>
    /\ u.kind \in Copied <=> u.cp.on

Queued(q, p, d) ==
    /\ p <= d
    /\ \A i \in 1..Len(q) : Fits(q[i]) /\ (q[i].lsn > 0 => p < q[i].lsn /\ q[i].lsn <= d)
    /\ \A i, j \in 1..Len(q) : i < j /\ q[i].lsn > 0 /\ q[j].lsn > 0 => q[i].lsn < q[j].lsn

(* The assembler of a call holds what the call brought and nothing else. *)
Ordered(s) ==
    /\ up => Queued(queue[s], mrg[s].position, rd[s].delivered)
    /\ ~up => queue[s] = <<>> /\ conn[s].kind = "off" /\ mrg[s].emitted = 0
    /\ mrg[s].emitted <= mrg[s].position
    /\ conn[s].kind = "stream" => ~rd[s].cp.on /\ rd[s].asm = IF conn[s].begun THEN << 1 >> ELSE <<>>
    /\ conn[s].kind = "copy" => rd[s].cp.on

LEMMA LsnIs == ASSUME NEW u \in Units PROVE u.lsn \in Nat
  BY Zenon DEF Units

LEMMA Appended ==
    ASSUME NEW q \in Seq(Units), NEW u \in Units
    PROVE  /\ Append(q, u) \in Seq(Units) /\ Len(Append(q, u)) = Len(q) + 1 /\ Len(q) \in Nat
           /\ \A i \in 1..Len(q) : Append(q, u)[i] = q[i]
           /\ Append(q, u)[Len(q) + 1] = u /\ \A i \in 1..Len(q) : q[i] \in Units
  BY SMT

LEMMA Popped ==
    ASSUME NEW q \in Seq(Units), q # <<>>
    PROVE  /\ Tail(q) \in Seq(Units) /\ Len(q) \in Nat /\ Len(q) > 0 /\ Len(Tail(q)) = Len(q) - 1 /\ Head(q) = q[1]
           /\ \A i \in 1..(Len(q) - 1) : Tail(q)[i] = q[i + 1]
           /\ \A i \in 1..Len(q) : q[i] \in Units
  BY SMT

LEMMA QueuedPush ==
    ASSUME NEW q \in Seq(Units), NEW u \in Units, NEW p \in Nat, NEW d \in Nat, NEW e \in Nat,
           Queued(q, p, d), Fits(u), (u.lsn = 0 /\ e = d) \/ (u.lsn > d /\ e = u.lsn)
    PROVE  Queued(Append(q, u), p, e)
  <1> DEFINE z == Append(q, u)
             n == Len(q)
  <1>1. /\ n \in Nat /\ Len(z) = n + 1 /\ z[n + 1] = u
        /\ \A i \in 1..n : z[i] = q[i] /\ q[i].lsn \in Nat
      BY Appended, LsnIs, Zenon
  <1>2. u.lsn \in Nat
      BY LsnIs
  <1>3. p <= d /\ d <= e
      BY <1>2, SMT DEF Queued
  <1>4. \A i \in 1..n : Fits(q[i]) /\ (q[i].lsn > 0 => p < q[i].lsn /\ q[i].lsn <= d)
      BY Zenon DEF Queued
  <1>5. \A i, j \in 1..n : i < j /\ q[i].lsn > 0 /\ q[j].lsn > 0 => q[i].lsn < q[j].lsn
      BY Zenon DEF Queued
  <1> HIDE DEF z, n
  <1>6. ASSUME NEW i \in 1..(n + 1) PROVE Fits(z[i]) /\ (z[i].lsn > 0 => p < z[i].lsn /\ z[i].lsn <= e)
    <2>1. CASE i = n + 1
        BY <1>1, <1>2, <1>3, <2>1, SMT
    <2>2. CASE i # n + 1
      <3>1. i \in 1..n
          BY <1>1, <2>2, SMT
      <3>2. z[i] = q[i] /\ q[i].lsn \in Nat /\ Fits(q[i]) /\ (q[i].lsn > 0 => p < q[i].lsn /\ q[i].lsn <= d)
          BY <1>1, <1>4, <3>1, Zenon
      <3>3. q[i].lsn <= d => q[i].lsn <= e
          BY <3>2, <1>3, SMT
      <3> QED
          BY <3>2, <3>3, Zenon
    <2> QED
        BY <2>1, <2>2, Zenon
  <1>7. ASSUME NEW i \in 1..(n + 1), NEW j \in 1..(n + 1), i < j, z[i].lsn > 0, z[j].lsn > 0 PROVE z[i].lsn < z[j].lsn
    <2>1. i \in 1..n
        BY <1>1, <1>7, SMT
    <2>2. z[i] = q[i] /\ q[i].lsn \in Nat /\ q[i].lsn > 0 /\ q[i].lsn <= d
        BY <1>1, <1>4, <1>7, <2>1, Zenon
    <2>3. CASE j = n + 1
        BY <1>1, <1>2, <1>7, <2>2, <2>3, SMT
    <2>4. CASE j # n + 1
      <3>1. j \in 1..n
          BY <1>1, <2>4, SMT
      <3> QED
          BY <1>1, <1>5, <1>7, <2>1, <2>2, <3>1, Zenon
    <2> QED
        BY <2>3, <2>4, Zenon
  <1>8. p <= e
      BY <1>3, SMT
  <1> QED
      BY <1>1, <1>6, <1>7, <1>8, Zenon DEF Queued, z

LEMMA QueuedPop ==
    ASSUME NEW q \in Seq(Units), q # <<>>, NEW p \in Nat, NEW d \in Nat, Queued(q, p, d)
    PROVE  Queued(Tail(q), IF Head(q).lsn > p THEN Head(q).lsn ELSE p, d)
  <1> DEFINE z == Tail(q)
             n == Len(q)
             a == IF Head(q).lsn > p THEN Head(q).lsn ELSE p
  <1>1. /\ n \in Nat /\ n > 0 /\ Len(z) = n - 1 /\ Head(q) = q[1]
        /\ \A i \in 1..(n - 1) : z[i] = q[i + 1]
        /\ \A i \in 1..n : q[i].lsn \in Nat
      BY Popped, LsnIs, ZenonT(30)
  <1>2. p <= d /\ \A i \in 1..n : Fits(q[i]) /\ (q[i].lsn > 0 => p < q[i].lsn /\ q[i].lsn <= d)
      BY Zenon DEF Queued
  <1>3. \A i, j \in 1..n : i < j /\ q[i].lsn > 0 /\ q[j].lsn > 0 => q[i].lsn < q[j].lsn
      BY Zenon DEF Queued
  <1>4. 1 \in 1..n /\ \A i \in 1..(n - 1) : i + 1 \in 1..n /\ 1 < i + 1
      BY <1>1, SMT
  <1>5. a = IF q[1].lsn > p THEN q[1].lsn ELSE p
      BY <1>1, Zenon
  <1> HIDE DEF z, n, a
  <1>6. a <= d
      BY <1>1, <1>2, <1>4, <1>5, SMT
  <1>7. ASSUME NEW i \in 1..(n - 1) PROVE Fits(z[i]) /\ (z[i].lsn > 0 => a < z[i].lsn /\ z[i].lsn <= d)
    <2>1. /\ z[i] = q[i + 1] /\ i + 1 \in 1..n /\ q[i + 1].lsn \in Nat
          /\ Fits(q[i + 1]) /\ (q[i + 1].lsn > 0 => p < q[i + 1].lsn /\ q[i + 1].lsn <= d)
          /\ q[1].lsn > 0 /\ q[i + 1].lsn > 0 => q[1].lsn < q[i + 1].lsn
        BY <1>1, <1>2, <1>3, <1>4, Zenon
    <2>2. q[1].lsn \in Nat
        BY <1>1, <1>4, Zenon
    <2>3. q[i + 1].lsn > 0 => a < q[i + 1].lsn
        BY <1>5, <2>1, <2>2, SMT
    <2> QED
        BY <2>1, <2>3, Zenon
  <1>8. ASSUME NEW i \in 1..(n - 1), NEW j \in 1..(n - 1), i < j, z[i].lsn > 0, z[j].lsn > 0 PROVE z[i].lsn < z[j].lsn
    <2>1. i + 1 < j + 1
        BY <1>1, <1>8, SMT
    <2> QED
        BY <1>1, <1>3, <1>4, <1>8, <2>1, Zenon
  <1> QED
      BY <1>1, <1>6, <1>7, <1>8, ZenonT(30) DEF Queued, z, a

LEMMA FitsIs ==
    ASSUME NEW u
    PROVE  /\ u.kind \in Copied /\ u.cp.on => Fits(u)
           /\ u.kind \in {"done", "gone"} /\ u.cp = NoCopy => Fits(u)
           /\ u.kind = "mark" /\ u.lsn > 0 /\ u.cp = NoCopy => Fits(u)
           /\ u.kind = "txn" /\ u.lsn > 0 /\ u.cp = NoCopy /\ u.parts = <<1, 2>> => Fits(u)
  <1>1. ~NoCopy.on
      BY SMT DEF NoCopy
  <1>2. ASSUME u.kind \in Copied PROVE u.kind \notin {"txn", "mark"} /\ u.kind # "txn"
      BY <1>2, SMT DEF Copied
  <1>3. /\ u.kind \in {"done", "gone"} => u.kind \notin {"txn", "mark"} /\ u.kind # "txn" /\ u.kind \notin Copied
        /\ u.kind = "mark" => u.kind # "txn" /\ u.kind \notin Copied
        /\ u.kind = "txn" => u.kind \notin Copied
      BY SMT DEF Copied
  <1> QED
      BY <1>1, <1>2, <1>3, ZenonT(30) DEF Fits

(* Steps that leave the reader, the call, the queue and the merger of s alone. *)
LEMMA OrderedKept ==
    ASSUME NEW s, Ordered(s), up' = up, queue'[s] = queue[s], mrg'[s] = mrg[s], rd'[s] = rd[s], conn'[s] = conn[s]
    PROVE  Ordered(s)'
  BY ZenonT(30) DEF Ordered

(* The reader pushes a unit at the position it has delivered up to, or an event without one. *)
LEMMA OrderedPush ==
    ASSUME Types, Types', NEW s \in Shards, Ordered(s), up, up' = up, mrg' = mrg,
           NEW u \in Units, Fits(u), queue'[s] = Append(queue[s], u),
           \/ u.lsn = 0 /\ rd'[s].delivered = rd[s].delivered
           \/ u.lsn > rd[s].delivered /\ rd'[s].delivered = u.lsn,
           conn'[s].kind = "stream" => ~rd'[s].cp.on /\ rd'[s].asm = IF conn'[s].begun THEN << 1 >> ELSE <<>>,
           conn'[s].kind = "copy" => rd'[s].cp.on
    PROVE  Ordered(s)'
  <1>1. queue[s] \in Seq(Units) /\ mrg[s].position \in Nat /\ rd[s].delivered \in Nat /\ rd'[s].delivered \in Nat
    <2>1. \A t \in Shards : rd'[t] \in Readers
        BY Zenon DEF Types, StreamTypes
    <2> QED
        BY <2>1, Values, ZenonT(30) DEF Readers
  <1>2. Queued(queue[s], mrg[s].position, rd[s].delivered) /\ mrg[s].emitted <= mrg[s].position
      BY Zenon DEF Ordered
  <1>3. Queued(Append(queue[s], u), mrg[s].position, rd'[s].delivered)
      BY <1>1, <1>2, QueuedPush, Zenon
  <1> QED
      BY <1>2, <1>3, ZenonT(30) DEF Ordered

LEMMA Calling ==
    ASSUME Types, NEW s \in Shards, Ordered(s)
    PROVE  /\ conn[s].kind # "off" => up
           /\ conn[s].kind = "copy" => rd[s].cp.on /\ ~(conn[s].kind = "stream")
           /\ NoConn.kind = "off" /\ NoCopy.on = FALSE
           /\ \A c \in Copies, k \in Keys \cup {0} : Checkpoint(c, k).on = c.on
           /\ {"snap", "begin", "row", "tabledone"} = Copied
  <1>1. NoConn.kind = "off" /\ NoCopy.on = FALSE
      BY SMT DEF NoConn, NoCopy
  <1>2. "copy" # "stream"
      OBVIOUS
  <1> QED
      BY <1>1, <1>2, CheckpointIs, ZenonT(30) DEF Ordered, Copied

LEMMA OrderedCopies ==
    ASSUME Types, NEW s \in Shards, Ordered(s),
           CopyOpen(s) \/ CopyTableBegin(s) \/ CopyRow(s) \/ CopyTableDone(s) \/ CopyDone(s)
    PROVE  Moves(s) /\ Ordered(s)'
  <1>a. conn[s].kind # "copy" \/ (up /\ rd[s].cp.on)
    <2>1. "copy" # "off"
        OBVIOUS
    <2> QED
        BY <2>1, Calling, Zenon
  <1>b. "copy" # "stream" /\ "off" # "stream" /\ "off" # "copy"
      OBVIOUS
  <1>c. rd[s].cp \in Copies /\ rd[s].cp.last \in Keys \cup {0} /\ rd[s].delivered \in Nat
      BY Values, ZenonT(30) DEF Copies
  <1>1. CASE CopyOpen(s)
    <2>1. PICK u \in Units :
             /\ queue'[s] = Append(queue[s], u)
             /\ u.kind = "snap" /\ u.lsn = (IF rd[s].delivered = 0 THEN Len(wal[s]) ELSE 0) /\ u.cp = rd[s].cp
             /\ rd'[s].delivered = Max2(rd[s].delivered, u.lsn)
        BY <1>1, CopyOpenDoes, Zenon
    <2>2. Moves(s) /\ up /\ rd[s].cp.on /\ rd'[s].cp = rd[s].cp /\ conn'[s].kind = "copy"
        BY <1>1, CopyOpenDoes, Zenon
    <2>3. Types' /\ up' = up /\ mrg' = mrg
        BY <2>2, MovesTypes, Zenon DEF Moves
    <2>4. wal[s] \in Seq(Keys \cup {0}) /\ wal[s] # <<>>
        BY Zenon DEF Types, ShardTypes
    <2>5. Len(wal[s]) \in Nat /\ Len(wal[s]) > 0
        BY <2>4, SMT
    <2>6. \/ u.lsn = 0 /\ rd'[s].delivered = rd[s].delivered
          \/ u.lsn > rd[s].delivered /\ rd'[s].delivered = u.lsn
        BY <1>c, <2>1, <2>5, SMT DEF Max2
    <2>7. Fits(u)
        BY <2>1, <2>2, FitsIs, ZenonT(30) DEF Copied
    <2> QED
        BY <1>b, <2>1, <2>2, <2>3, <2>6, <2>7, OrderedPush, ZenonT(30)
  <1>2. CASE CopyTableBegin(s) \/ CopyRow(s) \/ CopyTableDone(s)
    <2>1. /\ Moves(s) /\ conn[s].kind = "copy" /\ conn'[s].kind = "copy" /\ rd'[s].delivered = rd[s].delivered
          /\ \E x \in Units : queue'[s] = Append(queue[s], x) /\ x.kind \in Copied /\ x.lsn = 0 /\ x.cp = rd'[s].cp
      <3>1. CASE CopyTableBegin(s)
          BY <3>1, TableBeginDoes, ZenonT(30) DEF Copied
      <3>2. CASE CopyRow(s)
          BY <3>2, RowDoes, ZenonT(30) DEF Copied
      <3>3. CASE CopyTableDone(s)
          BY <3>3, TableDoneDoes, ZenonT(30) DEF Copied
      <3> QED
          BY <1>2, <3>1, <3>2, <3>3, Zenon
    <2>2. rd'[s].cp.on
      <3>1. CASE CopyTableBegin(s)
        <4>1. rd'[s].cp = Checkpoint(rd[s].cp, rd[s].cp.last)
            BY <3>1, TableBeginDoes, Zenon
        <4> QED
            BY <1>a, <1>c, <2>1, <4>1, CheckpointIs, Zenon
      <3>2. CASE CopyRow(s)
        <4>1. Head(conn[s].rows) \in Keys \cup {0} /\ rd'[s].cp = Checkpoint(rd[s].cp, Head(conn[s].rows))
            BY <3>2, RowDoes, Zenon
        <4> QED
            BY <1>a, <1>c, <2>1, <4>1, CheckpointIs, Zenon
      <3>3. CASE CopyTableDone(s)
          BY <1>a, <2>1, <3>3, TableDoneDoes, Zenon
      <3> QED
          BY <1>2, <3>1, <3>2, <3>3, Zenon
    <2>3. PICK x \in Units : queue'[s] = Append(queue[s], x) /\ x.kind \in Copied /\ x.lsn = 0 /\ x.cp = rd'[s].cp
        BY <2>1, Zenon
    <2>4. Types' /\ up' = up /\ mrg' = mrg /\ up
        BY <1>a, <2>1, MovesTypes, Zenon DEF Moves
    <2>5. Fits(x)
        BY <2>2, <2>3, FitsIs, Zenon
    <2> QED
        BY <1>b, <2>1, <2>2, <2>3, <2>4, <2>5, OrderedPush, ZenonT(30)
  <1>3. CASE CopyDone(s)
    <2>1. PICK x \in Units : queue'[s] = Append(queue[s], x) /\ x.kind = "done" /\ x.lsn = 0 /\ x.cp = rd'[s].cp
        BY <1>3, DoneDoes, Zenon
    <2>2. Moves(s) /\ conn[s].kind = "copy" /\ conn'[s].kind = "off" /\ rd'[s].cp = NoCopy /\ rd'[s].delivered = rd[s].delivered
        BY <1>3, DoneDoes, Calling, Zenon
    <2>3. Types' /\ up' = up /\ mrg' = mrg /\ up
        BY <1>a, <2>2, MovesTypes, Zenon DEF Moves
    <2>4. Fits(x)
        BY <2>1, <2>2, FitsIs, Zenon
    <2> QED
        BY <1>b, <2>1, <2>2, <2>3, <2>4, OrderedPush, ZenonT(30)
  <1> QED
      BY <1>1, <1>2, <1>3, Zenon

LEMMA OrderedDelivers ==
    ASSUME Types, NEW s \in Shards, Ordered(s), conn[s].kind = "stream",
           NEW i \in Nat, NEW u \in Units, DeliveredAt(s, i, u), u.lsn = i, i > rd[s].delivered => Fits(u)
    PROVE  Moves(s) /\ Ordered(s)'
  <1>1. Moves(s) /\ rd'[s].cp = rd[s].cp /\ rd'[s].asm = <<>> /\ conn'[s].kind = "stream" /\ ~conn'[s].begun
      BY Zenon DEF DeliveredAt
  <1>2. /\ rd'[s].delivered = Max2(rd[s].delivered, i)
        /\ IF i > rd[s].delivered THEN queue'[s] = Append(queue[s], u) ELSE queue'[s] = queue[s]
      BY Zenon DEF DeliveredAt
  <1>3. Types' /\ up' = up /\ mrg' = mrg
      BY <1>1, MovesTypes, Zenon DEF Moves
  <1>4. "stream" # "off" /\ "stream" # "copy"
      OBVIOUS
  <1>5. up /\ ~rd[s].cp.on
      BY <1>4, Zenon DEF Ordered
  <1>6. rd[s].delivered \in Nat
      BY Values, Zenon
  <1>7. CASE i > rd[s].delivered
    <2>1. u.lsn > rd[s].delivered /\ rd'[s].delivered = u.lsn
        BY <1>2, <1>6, <1>7, SMT DEF Max2
    <2> QED
        BY <1>1, <1>2, <1>3, <1>4, <1>5, <1>7, <2>1, OrderedPush, ZenonT(30)
  <1>8. CASE ~(i > rd[s].delivered)
    <2>1. rd'[s].delivered = rd[s].delivered
        BY <1>2, <1>6, <1>8, SMT DEF Max2
    <2> QED
        BY <1>1, <1>2, <1>3, <1>4, <1>5, <1>8, <2>1, ZenonT(30) DEF Ordered
  <1> QED
      BY <1>7, <1>8, Zenon

(* A transaction in two batches is whole. *)
LEMMA AppendNat ==
    ASSUME NEW a \in Seq(Nat), NEW x \in Nat
    PROVE  /\ Append(a, x) \in Seq(Nat) /\ Len(Append(a, x)) = Len(a) + 1
           /\ (\A i \in 1..Len(a) : Append(a, x)[i] = a[i]) /\ Append(a, x)[Len(a) + 1] = x
  BY SMT

LEMMA SameSeq ==
    ASSUME NEW a \in Seq(Nat), NEW b \in Seq(Nat), Len(a) = Len(b), \A i \in 1..Len(a) : a[i] = b[i]
    PROVE  a = b
  BY SMT

LEMMA TwoBatches ==
    ASSUME NEW a \in Seq(Nat), Len(a) = 1, a[1] = 1, NEW b \in Seq(Nat), Len(b) = 2, b[1] = 1, b[2] = 2,
           NEW x \in Nat, x = 2
    PROVE  Append(a, x) = b
  <1> DEFINE c == Append(a, x)
  <1>1. c \in Seq(Nat) /\ Len(c) = Len(a) + 1 /\ (\A i \in 1..Len(a) : c[i] = a[i]) /\ c[Len(a) + 1] = x
      BY AppendNat, Zenon
  <1> HIDE DEF c
  <1>2. c \in Seq(Nat) /\ Len(c) = 2 /\ c[1] = 1 /\ c[2] = 2
      BY <1>1, SMT
  <1>3. c = b
    <2>1. Len(c) = Len(b) /\ \A i \in 1..Len(c) : c[i] = b[i]
        BY <1>2, SMT
    <2> QED
        BY <1>2, <2>1, SameSeq, Zenon
  <1> QED
      BY <1>3, Zenon DEF c

LEMMA Whole == Append(<< 1 >>, 2) = <<1, 2>>
  <1>1. << 1 >> \in Seq(Nat) /\ Len(<< 1 >>) = 1 /\ << 1 >>[1] = 1 /\ 2 \in Nat
      BY SMT
  <1>2. <<1, 2>> \in Seq(Nat) /\ Len(<<1, 2>>) = 2 /\ <<1, 2>>[1] = 1 /\ <<1, 2>>[2] = 2
      BY SMT
  <1> QED
      BY <1>1, <1>2, TwoBatches, Zenon

LEMMA OrderedStreams ==
    ASSUME Types, NEW s \in Shards, Ordered(s),
           \/ StreamOpen(s) \/ StreamRefused(s) \/ RecvSegment(s) \/ RecvCommit(s) \/ RecvKeepalive(s)
           \/ Break(s) \/ EpochMoved(s) \/ Fenced(s)
    PROVE  Moves(s) /\ Ordered(s)'
  <1>a. "copy" # "stream" /\ "off" # "stream" /\ "off" # "copy" /\ NoConn.kind = "off"
      BY Calling, Zenon
  <1>1. CASE StreamOpen(s)
    <2>1. /\ Moves(s) /\ queue'[s] = queue[s] /\ up /\ ~rd[s].cp.on /\ conn'[s].kind = "stream" /\ ~conn'[s].begun
          /\ rd'[s].delivered = rd[s].delivered /\ rd'[s].cp = rd[s].cp /\ rd'[s].asm = <<>>
        BY <1>1, StreamOpenDoes, Zenon
    <2> QED
        BY <1>a, <2>1, ZenonT(30) DEF Ordered, Moves
  <1>2. CASE StreamRefused(s)
    <2>1. Moves(s) /\ rd' = rd /\ conn' = conn /\ up /\ conn[s].kind = "off"
        BY <1>2, RefusedDoes, Zenon
    <2>2. PICK u \in Units : queue'[s] = Append(queue[s], u) /\ u.kind = "gone" /\ u.lsn = 0 /\ u.cp = NoCopy
        BY <1>2, RefusedDoes, Zenon
    <2>3. Types' /\ up' = up /\ mrg' = mrg
        BY <2>1, MovesTypes, Zenon DEF Moves
    <2>4. Fits(u)
        BY <2>2, FitsIs, Zenon
    <2> QED
        BY <1>a, <2>1, <2>2, <2>3, <2>4, OrderedPush, ZenonT(30)
  <1>3. CASE RecvSegment(s)
    <2>1. /\ Moves(s) /\ queue'[s] = queue[s] /\ conn[s].kind = "stream" /\ ~conn[s].begun
          /\ conn'[s].kind = "stream" /\ conn'[s].begun
          /\ rd'[s].delivered = rd[s].delivered /\ rd'[s].cp = rd[s].cp /\ rd'[s].asm = Append(rd[s].asm, 1)
        BY <1>3, SegmentDoes, Zenon
    <2>2. rd[s].asm = <<>>
        BY <2>1, Zenon DEF Ordered
    <2>3. Append(<<>>, 1) = << 1 >>
        BY SMT
    <2> QED
        BY <1>a, <2>1, <2>2, <2>3, ZenonT(30) DEF Ordered, Moves
  <1>4. CASE RecvCommit(s)
    <2>1. conn[s].kind = "stream" /\ conn[s].begun
        BY <1>4, CommitDoes, Zenon
    <2>2. PICK i \in NextTxn(s, conn[s].ep, conn[s].at), u \in Units :
             /\ i \in Nat /\ DeliveredAt(s, i, u)
             /\ u.kind = "txn" /\ u.lsn = i /\ u.key = wal[s][i] /\ u.ver = i /\ u.cp = NoCopy /\ u.parts = Append(rd[s].asm, 2)
        BY <1>4, CommitDoes, Zenon
    <2>3. rd[s].asm = << 1 >>
        BY <2>1, Zenon DEF Ordered
    <2>5. ASSUME i > rd[s].delivered PROVE i > 0
        BY <2>2, <2>5, Values, SMT
    <2>6. i > rd[s].delivered => Fits(u)
        BY <2>2, <2>3, <2>5, Whole, FitsIs, Zenon
    <2> QED
        BY <2>1, <2>2, <2>6, OrderedDelivers, Zenon
  <1>5. CASE RecvKeepalive(s)
    <2> DEFINE i == QuietEnd(s, conn[s].ep, conn[s].at)
    <2>1. conn[s].kind = "stream"
        BY <1>5, KeepaliveDoes, Zenon
    <2>2. PICK u \in Units :
             i \in Nat /\ i > rd[s].delivered /\ DeliveredAt(s, i, u) /\ u.kind = "mark" /\ u.lsn = i /\ u.cp = NoCopy
        BY <1>5, KeepaliveDoes, Zenon
    <2> HIDE DEF i
    <2>3. i > 0
        BY <2>2, Values, SMT
    <2>4. Fits(u)
        BY <2>2, <2>3, FitsIs, Zenon
    <2> QED
        BY <2>1, <2>2, <2>4, OrderedDelivers, Zenon
  <1>6. CASE Break(s) \/ EpochMoved(s) \/ Fenced(s)
    <2>1. Moves(s) /\ conn[s].kind # "off" /\ conn'[s].kind = "off" /\ rd' = rd /\ queue' = queue
        BY <1>a, <1>6, HangupDoes, Zenon
    <2> QED
        BY <1>a, <2>1, ZenonT(30) DEF Ordered, Moves
  <1> QED
      BY <1>1, <1>2, <1>3, <1>4, <1>5, <1>6, Zenon

LEMMA OrderedOpens == ASSUME Types, Open, NEW s \in Shards, Ordered(s) PROVE Ordered(s)'
  <1>1. /\ ~up /\ up' /\ conn'[s] = conn[s] /\ queue'[s] = queue[s]
        /\ rd'[s].delivered = saved[s].lsn /\ mrg'[s].position = saved[s].lsn /\ mrg'[s].emitted = 0
      BY OpenDoes, Zenon
  <1>2. queue'[s] = <<>> /\ conn'[s].kind = "off" /\ saved[s].lsn \in Nat
      BY <1>1, Values, Zenon DEF Ordered
  <1>3. "off" # "copy" /\ "off" # "stream"
      OBVIOUS
  <1>4. \A n \in Nat : Queued(<<>>, n, n) /\ 0 <= n
      BY SMT DEF Queued
  <1> QED
      BY <1>1, <1>2, <1>3, <1>4, ZenonT(30) DEF Ordered

LEMMA OrderedCloses ==
    ASSUME Types, StreamEnd \/ \E t \in Shards : EmitGone(t), NEW s \in Shards
    PROVE  Ordered(s)'
  <1>1. /\ ~up' /\ conn'[s] = NoConn /\ queue'[s] = <<>> /\ mrg'[s].position = 0 /\ mrg'[s].emitted = 0
      BY CloseDoes, Zenon
  <1>2. NoConn.kind = "off" /\ "off" # "copy" /\ "off" # "stream" /\ 0 <= 0
      BY SMT DEF NoConn
  <1> QED
      BY <1>1, <1>2, ZenonT(30) DEF Ordered

LEMMA OrderedEmits == ASSUME Types, NEW s \in Shards, Ordered(s), Emit(s) PROVE Ordered(s)'
  <1> DEFINE u == Head(queue[s])
  <1>1. /\ up /\ up' = up /\ queue[s] # <<>> /\ u \in Units /\ rd' = rd /\ conn' = conn
        /\ queue'[s] = Tail(queue[s]) /\ mrg'[s] = After(mrg[s], u)
      BY EmitDoes, Zenon
  <1>2. /\ queue[s] \in Seq(Units) /\ mrg[s] \in Mergers /\ mrg[s].position \in Nat /\ mrg[s].emitted \in Nat
        /\ rd[s].delivered \in Nat
      BY Values, Zenon
  <1>3. /\ mrg'[s].position = IF u.lsn > mrg[s].position THEN u.lsn ELSE mrg[s].position
        /\ mrg'[s].emitted = IF u.lsn > mrg[s].position THEN Max2(mrg[s].emitted, u.lsn) ELSE mrg[s].emitted
    <2> HIDE DEF u
    <2>1. /\ After(mrg[s], u).position = IF u.lsn > mrg[s].position THEN u.lsn ELSE mrg[s].position
          /\ After(mrg[s], u).emitted = IF u.lsn > mrg[s].position THEN Max2(mrg[s].emitted, u.lsn) ELSE mrg[s].emitted
        BY <1>1, <1>2, AfterIs, Zenon
    <2> QED
        BY <1>1, <2>1, Zenon
  <1>4. Queued(queue[s], mrg[s].position, rd[s].delivered) /\ mrg[s].emitted <= mrg[s].position
      BY <1>1, Zenon DEF Ordered
  <1>5. Queued(queue'[s], mrg'[s].position, rd[s].delivered)
      BY <1>1, <1>2, <1>3, <1>4, QueuedPop, Zenon
  <1>6. u.lsn \in Nat
      BY <1>1, LsnIs, Zenon
  <1> HIDE DEF u
  <1>7. mrg'[s].emitted <= mrg'[s].position
      BY <1>2, <1>3, <1>4, <1>6, SMT DEF Max2
  <1> QED
      BY <1>1, <1>5, <1>7, ZenonT(30) DEF Ordered

(* The steps that move no reader, call, queue or merger. *)
Beside ==
    \/ Heartbeat
    \/ \E a \in una : UnaryCall(a)
    \/ \E s \in Shards :
          \/ Commit(s) \/ SyncSlot(s) \/ Promote(s) \/ Reload(s) \/ CopyOpenLost(s)
          \/ \E lsn \in 1..Len(wal[s]) : ForwardAck(s, lsn) \/ UnaryAck(s, lsn)
          \/ AckerCall(s) \/ AckerDone(s) \/ AckerFails(s) \/ SendStatus(s) \/ TakeStatus(s) \/ ReleaseSlot(s)
    \/ UNCHANGED vars

LEMMA BesideKeeps == Beside => up' = up /\ queue' = queue /\ mrg' = mrg /\ rd' = rd /\ conn' = conn
  <1>1. CASE Heartbeat \/ \E a \in una : UnaryCall(a)
      BY <1>1, Same, ZenonT(30) DEF Heartbeat, UnaryCall
  <1>2. ASSUME NEW s \in Shards,
               Commit(s) \/ SyncSlot(s) \/ Promote(s) \/ Reload(s) \/ CopyOpenLost(s) \/ SendStatus(s) \/ TakeStatus(s) \/ ReleaseSlot(s) \/ AckerFails(s)
        PROVE  up' = up /\ queue' = queue /\ mrg' = mrg /\ rd' = rd /\ conn' = conn
      BY <1>2, Same, ZenonT(30) DEF Commit, SyncSlot, Promote, Reload, CopyOpenLost, SendStatus, TakeStatus, ReleaseSlot, AckerFails
  <1>3. ASSUME NEW s \in Shards,
               AckerCall(s) \/ AckerDone(s) \/ \E lsn \in 1..Len(wal[s]) : ForwardAck(s, lsn) \/ UnaryAck(s, lsn)
        PROVE  up' = up /\ queue' = queue /\ mrg' = mrg /\ rd' = rd /\ conn' = conn
      BY <1>3, Same, ZenonT(30) DEF AckerCall, AckerDone, ForwardAck, UnaryAck
  <1>4. CASE UNCHANGED vars
      BY <1>4, Same, ZenonT(30) DEF vars
  <1> QED
      BY <1>1, <1>2, <1>3, <1>4, ZenonT(30) DEF Beside

(* Every step opens or ends the stream, moves one reader, emits one unit, or is beside them. *)
LEMMA NextIs ==
    [Next]_vars => \/ Open
                   \/ StreamEnd \/ \E s \in Shards : EmitGone(s)
                   \/ \E s \in Shards :
                        \/ CopyOpen(s) \/ CopyTableBegin(s) \/ CopyRow(s) \/ CopyTableDone(s) \/ CopyDone(s)
                        \/ StreamOpen(s) \/ StreamRefused(s) \/ RecvSegment(s) \/ RecvCommit(s) \/ RecvKeepalive(s)
                        \/ Break(s) \/ EpochMoved(s) \/ Fenced(s)
                   \/ \E s \in Shards : Emit(s)
                   \/ Beside
  BY ZenonT(30) DEF Next, Read, Beside

LEMMA OrderedNext ==
    ASSUME Types, \A s \in Shards : Ordered(s), [Next]_vars
    PROVE  \A s \in Shards : Ordered(s)'
  <1>1. CASE Open
      BY <1>1, OrderedOpens, Zenon
  <1>2. CASE StreamEnd \/ \E s \in Shards : EmitGone(s)
      BY <1>2, OrderedCloses, Zenon
  <1>3. ASSUME NEW s \in Shards,
               \/ CopyOpen(s) \/ CopyTableBegin(s) \/ CopyRow(s) \/ CopyTableDone(s) \/ CopyDone(s)
               \/ StreamOpen(s) \/ StreamRefused(s) \/ RecvSegment(s) \/ RecvCommit(s) \/ RecvKeepalive(s)
               \/ Break(s) \/ EpochMoved(s) \/ Fenced(s)
        PROVE  \A t \in Shards : Ordered(t)'
    <2>1. Moves(s) /\ Ordered(s)'
        BY <1>3, OrderedCopies, OrderedStreams, Zenon
    <2>2. up' = up /\ mrg' = mrg /\ \A t \in Shards : t # s => rd'[t] = rd[t] /\ conn'[t] = conn[t] /\ queue'[t] = queue[t]
        BY <2>1, Zenon DEF Moves
    <2> QED
        BY <2>1, <2>2, OrderedKept, ZenonT(30)
  <1>4. ASSUME NEW s \in Shards, Emit(s) PROVE \A t \in Shards : Ordered(t)'
    <2>1. up' = up /\ rd' = rd /\ conn' = conn /\ \A t \in Shards : t # s => queue'[t] = queue[t] /\ mrg'[t] = mrg[t]
        BY <1>4, EmitDoes, Zenon
    <2> QED
        BY <1>4, <2>1, OrderedEmits, OrderedKept, ZenonT(30)
  <1>5. CASE Beside
      BY <1>5, BesideKeeps, OrderedKept, ZenonT(30)
  <1> QED
      BY <1>1, <1>2, <1>3, <1>4, <1>5, NextIs, Zenon

-----------------------------------------------------------------------------
(* Acks: everything on its way to a slot, in the router, in the pooler or in a *)
(* status its primary has not read, is at or below what the consumer was sent  *)
(* of the shard. An Ack checked against a stream that still copies is below    *)
(* what that stream emitted, and counts only once its copy is done.            *)
Sent(s) ==
    /\ ~mrg[s].copying.on => mrg[s].emitted <= high[s]
    /\ acker[s].want <= high[s]
    /\ pool[s].acked <= high[s]
    /\ \A n \in status[s] : n <= high[s]

Unary(a) == IF a.free THEN a.lsn <= high[a.sh] ELSE up /\ a.lsn <= mrg[a.sh].emitted

Acks == (\A s \in Shards : Sent(s)) /\ \A a \in una : Unary(a)

LEMMA AckValues == ASSUME Types PROVE \A a \in una : a.sh \in Shards /\ a.lsn \in Nat /\ a.free \in BOOLEAN
  <1>1. una \in SUBSET [sh : Shards, lsn : Nat, free : BOOLEAN]
      BY Zenon DEF Types, ShardTypes
  <1> QED
      BY <1>1, ZenonT(30)

LEMMA SentKept ==
    ASSUME NEW s, Sent(s), mrg'[s] = mrg[s], high'[s] = high[s], acker'[s] = acker[s], pool'[s] = pool[s], status'[s] \subseteq status[s]
    PROVE  Sent(s)'
  BY ZenonT(30) DEF Sent

LEMMA SentStep ==
    ASSUME Types, Types', NEW s \in Shards,
           ~mrg'[s].copying.on => mrg'[s].emitted <= high'[s],
           high[s] <= high'[s], acker'[s].want <= high[s], pool'[s].acked <= high[s], \A n \in status'[s] : n <= high[s]
    PROVE  Sent(s)'
  <1>1. high'[s] \in Nat /\ acker'[s] \in Ackers /\ pool'[s] \in Seats /\ status'[s] \in SUBSET Nat
      BY ZenonT(30) DEF Types, ShardTypes, StreamTypes
  <1>2. acker'[s].want \in Nat /\ pool'[s].acked \in Nat /\ high[s] \in Nat
      BY <1>1, Values, Zenon DEF Ackers, Seats
  <1>3. \A n \in Nat : n <= high[s] => n <= high'[s]
      BY <1>1, <1>2, SMT
  <1> QED
      BY <1>1, <1>2, <1>3, ZenonT(30) DEF Sent

(* What a step of the reader does to the slot and its seat. *)
LEMMA ReadsSlot ==
    ASSUME Types, NEW s \in Shards,
           \/ CopyOpen(s) \/ CopyTableBegin(s) \/ CopyRow(s) \/ CopyTableDone(s) \/ CopyDone(s)
           \/ StreamOpen(s) \/ StreamRefused(s) \/ RecvSegment(s) \/ RecvCommit(s) \/ RecvKeepalive(s)
           \/ Break(s) \/ EpochMoved(s) \/ Fenced(s)
    PROVE  /\ Moves(s)
           /\ \A e \in Members : slot'[s][e] = slot[s][e] \/ slot[s][e] = 0
           /\ pool'[s].acked = pool[s].acked \/ pool'[s].acked = 0
  <1>1. CASE CopyOpen(s)
    <2>1. /\ Moves(s) /\ pool' = pool
          /\ slot' = IF slot[s][epoch[s]] = 0 THEN [slot EXCEPT ![s][epoch[s]] = Len(wal[s])] ELSE slot
        BY <1>1, CopyOpenDoes, Zenon
    <2>2. slot \in [Shards -> [Members -> Nat]]
        BY Zenon DEF Types, ShardTypes
    <2> QED
        BY <2>1, <2>2, ZenonT(30)
  <1>2. CASE CopyTableBegin(s) \/ CopyRow(s) \/ CopyTableDone(s) \/ CopyDone(s) \/ StreamRefused(s) \/ RecvSegment(s)
    <2>1. Moves(s) /\ pool' = pool /\ slot' = slot
        BY <1>2, TableBeginDoes, RowDoes, TableDoneDoes, DoneDoes, RefusedDoes, SegmentDoes, Zenon
    <2> QED
        BY <2>1, Zenon
  <1>3. CASE StreamOpen(s)
      BY <1>3, StreamOpenDoes, Zenon
  <1>4. CASE RecvCommit(s) \/ RecvKeepalive(s)
    <2>1. \E i, u : DeliveredAt(s, i, u)
      <3>1. CASE RecvCommit(s)
          BY <3>1, CommitDoes, Zenon
      <3>2. CASE RecvKeepalive(s)
          BY <3>2, KeepaliveDoes, Zenon
      <3> QED
          BY <1>4, <3>1, <3>2, Zenon
    <2> QED
        BY <2>1, Zenon DEF DeliveredAt
  <1>5. CASE Break(s) \/ EpochMoved(s) \/ Fenced(s)
    <2>1. Moves(s) /\ slot' = slot /\ (pool'[s] = pool[s] \/ pool'[s] = NoReader)
        BY <1>5, HangupDoes, Zenon
    <2>2. NoReader.acked = 0
        BY SMT DEF NoReader
    <2> QED
        BY <2>1, <2>2, Zenon
  <1> QED
      BY <1>1, <1>2, <1>3, <1>4, <1>5, Zenon

(* What AcksTrue says of one shard's step. *)
AckStep(s) ==
    \A e \in 1..epoch[s] : slot[s][e] # 0 /\ slot'[s][e] > slot[s][e] => slot'[s][e] <= high[s]

LEMMA AckStepQuiet ==
    ASSUME Types, NEW s \in Shards, \A e \in 1..epoch[s] : slot'[s][e] = slot[s][e] \/ slot[s][e] = 0
    PROVE  AckStep(s)
  <1>1. epoch[s] \in Members /\ slot[s] \in [Members -> Nat]
      BY Values, Zenon
  <1>2. 1..epoch[s] \subseteq Members
      BY <1>1, SMT DEF Members
  <1>3. \A e \in 1..epoch[s] : slot[s][e] \in Nat
      BY <1>1, <1>2, Zenon
  <1>4. \A n \in Nat : ~(n > n)
      BY SMT
  <1> QED
      BY <1>3, <1>4, ZenonT(30) DEF AckStep

LEMMA UnaryKept ==
    ASSUME Types, Types', Acks, NEW a \in una, up => up', high[a.sh] <= high'[a.sh], mrg[a.sh].emitted <= mrg'[a.sh].emitted
    PROVE  Unary(a)'
  <1>1. a.sh \in Shards /\ a.lsn \in Nat
      BY AckValues, Zenon
  <1>2. high'[a.sh] \in Nat /\ mrg'[a.sh] \in Mergers
      BY <1>1, Zenon DEF Types, StreamTypes
  <1>3. mrg'[a.sh].emitted \in Nat
      BY <1>2, Zenon DEF Mergers
  <1>4. high[a.sh] \in Nat /\ mrg[a.sh].emitted \in Nat
      BY <1>1, Values, Zenon
  <1>5. /\ a.lsn <= high[a.sh] => a.lsn <= high'[a.sh]
        /\ a.lsn <= mrg[a.sh].emitted => a.lsn <= mrg'[a.sh].emitted
      BY <1>1, <1>2, <1>3, <1>4, SMT
  <1>6. Unary(a)
      BY Zenon DEF Acks
  <1> QED
      BY <1>5, <1>6, Zenon DEF Unary

LEMMA AcksReads ==
    ASSUME Types, Acks, NEW s \in Shards,
           \/ CopyOpen(s) \/ CopyTableBegin(s) \/ CopyRow(s) \/ CopyTableDone(s) \/ CopyDone(s)
           \/ StreamOpen(s) \/ StreamRefused(s) \/ RecvSegment(s) \/ RecvCommit(s) \/ RecvKeepalive(s)
           \/ Break(s) \/ EpochMoved(s) \/ Fenced(s)
    PROVE  Acks' /\ \A t \in Shards : AckStep(t)
  <1>1. /\ Moves(s)
        /\ \A e \in Members : slot'[s][e] = slot[s][e] \/ slot[s][e] = 0
        /\ pool'[s].acked = pool[s].acked \/ pool'[s].acked = 0
      BY ReadsSlot, Zenon
  <1>2. Types' /\ up' = up /\ mrg' = mrg /\ high' = high /\ acker' = acker /\ una' = una
      BY <1>1, MovesTypes, Zenon DEF Moves
  <1>3. (\A t \in Shards : t # s => slot'[t] = slot[t] /\ pool'[t] = pool[t]) /\ \A t \in Shards : status'[t] \subseteq status[t]
      BY <1>1, Zenon DEF Moves
  <1>4. \A t \in Shards : high[t] \in Nat /\ mrg[t].emitted \in Nat /\ epoch[t] \in Members
      BY Values, Zenon
  <1>5. (\A n \in Nat : 0 <= n /\ n <= n) /\ 1..epoch[s] \subseteq Members
      BY <1>4, SMT DEF Members
  <1>6. Sent(s)
      BY Zenon DEF Acks
  <1>7. /\ ~mrg'[s].copying.on => mrg'[s].emitted <= high'[s]
        /\ high[s] <= high'[s] /\ acker'[s].want <= high[s] /\ pool'[s].acked <= high[s] /\ \A n \in status'[s] : n <= high[s]
      BY <1>1, <1>2, <1>3, <1>4, <1>5, <1>6, ZenonT(30) DEF Sent
  <1>8. Sent(s)'
      BY <1>2, <1>7, SentStep, Zenon
  <1>9. \A t \in Shards : Sent(t)'
      BY <1>2, <1>3, <1>8, SentKept, ZenonT(30) DEF Acks
  <1>10. \A a \in una' : Unary(a)'
      BY <1>2, <1>4, <1>5, UnaryKept, AckValues, ZenonT(30)
  <1>11. \A t \in Shards : AckStep(t)
    <2>1. AckStep(s)
        BY <1>1, <1>5, AckStepQuiet, Zenon
    <2>2. ASSUME NEW t \in Shards, t # s PROVE AckStep(t)
        BY <1>3, <2>2, AckStepQuiet, Zenon
    <2> QED
        BY <2>1, <2>2, Zenon
  <1> QED
      BY <1>9, <1>10, <1>11, Zenon DEF Acks

LEMMA AcksOpens == ASSUME Types, Acks, (\A s \in Shards : Ordered(s)), Open PROVE Acks' /\ \A t \in Shards : AckStep(t)
  <1>1. /\ Types' /\ ~up /\ up' /\ primary' = primary /\ consumer' = consumer /\ acker' = acker /\ pool' = pool /\ una' = una
        /\ \A s \in Shards : mrg'[s].emitted = 0
      BY OpenDoes, Zenon
  <1>2. slot' = slot /\ status' = status /\ high' = high
      BY <1>1, Same, Zenon
  <1>3. \A n \in Nat : 0 <= n
      BY SMT
  <1>4. \A s \in Shards : high[s] \in Nat /\ mrg[s].emitted = 0
      BY <1>1, Values, Zenon DEF Ordered
  <1>5. \A s \in Shards : Sent(s)'
      BY <1>1, <1>2, <1>3, <1>4, ZenonT(30) DEF Acks, Sent
  <1>6. \A n \in Nat : n <= n
      BY SMT
  <1>7. 0 \in Nat
      BY SMT
  <1>8. \A a \in una' : Unary(a)'
      BY <1>1, <1>2, <1>4, <1>6, <1>7, UnaryKept, AckValues, ZenonT(30)
  <1>9. \A t \in Shards : AckStep(t)
      BY <1>1, <1>2, AckStepQuiet, ZenonT(30)
  <1> QED
      BY <1>5, <1>8, <1>9, Zenon DEF Acks

LEMMA AcksCloses ==
    ASSUME Types, Acks, StreamEnd \/ \E s \in Shards : EmitGone(s)
    PROVE  Acks' /\ \A t \in Shards : AckStep(t)
  <1>1. /\ primary' = primary /\ high' = high
        /\ \A s \in Shards :
              acker'[s] = NoAck /\ mrg'[s].emitted = 0 /\ pool'[s].acked = pool[s].acked
        /\ \A b \in una' : \E a \in una : b.sh = a.sh /\ b.lsn = a.lsn /\ b.free /\ (a.free \/ ~mrg[a.sh].copying.on)
      BY CloseDoes, Zenon
  <1>2. slot' = slot /\ status' = status
      BY <1>1, Same, Zenon
  <1>3. (\A n \in Nat : 0 <= n) /\ NoAck.want = 0
      BY SMT DEF NoAck
  <1>4. \A s \in Shards : high[s] \in Nat /\ mrg[s].emitted \in Nat
      BY Values, Zenon
  <1>5. ASSUME NEW s \in Shards PROVE Sent(s)'
    <2>1. Sent(s) /\ acker'[s].want <= high'[s] /\ mrg'[s].emitted <= high'[s] /\ status'[s] = status[s] /\ high'[s] = high[s]
        BY <1>1, <1>2, <1>3, <1>4, ZenonT(30) DEF Acks
    <2> QED
        BY <1>1, <2>1, ZenonT(30) DEF Sent
  <1>6. ASSUME NEW b \in una' PROVE Unary(b)'
    <2>1. PICK a \in una : b.sh = a.sh /\ b.lsn = a.lsn /\ b.free /\ (a.free \/ ~mrg[a.sh].copying.on)
        BY <1>1, Zenon
    <2>2. a.sh \in Shards /\ a.lsn \in Nat /\ high[a.sh] \in Nat /\ mrg[a.sh].emitted \in Nat
        BY <1>4, AckValues, Zenon
    <2>3. a.lsn <= high[a.sh] \/ (a.lsn <= mrg[a.sh].emitted /\ mrg[a.sh].emitted <= high[a.sh])
        BY <2>1, <2>2, ZenonT(30) DEF Acks, Unary, Sent
    <2>4. a.lsn <= high[a.sh]
        BY <2>2, <2>3, SMT
    <2> QED
        BY <1>1, <2>1, <2>4, Zenon DEF Unary
  <1>7. \A t \in Shards : AckStep(t)
      BY <1>1, <1>2, <1>3, AckStepQuiet, ZenonT(30)
  <1> QED
      BY <1>5, <1>6, <1>7, Zenon DEF Acks

(* A unit that is not of the copy is everything up to its position. *)
LEMMA EmitSends ==
    ASSUME Types, NEW s \in Shards, Ordered(s), Sent(s), Emit(s)
    PROVE  /\ ~mrg'[s].copying.on => mrg'[s].emitted <= high'[s]
           /\ high[s] <= high'[s] /\ mrg[s].emitted <= mrg'[s].emitted
  <1> DEFINE u == Head(queue[s])
  <1>1. /\ Types' /\ up /\ queue[s] # <<>> /\ u \in Units /\ u.kind # "gone" /\ mrg'[s] = After(mrg[s], u)
        /\ high'[s] = IF u.kind \in {"txn", "mark", "done"} THEN Max2(high[s], mrg'[s].position) ELSE high[s]
      BY EmitDoes, Zenon
  <1>2. queue[s] \in Seq(Units) /\ mrg[s] \in Mergers /\ mrg[s].position \in Nat /\ mrg[s].emitted \in Nat /\ high[s] \in Nat
      BY Values, Zenon
  <1>3. Fits(u)
    <2>1. u = queue[s][1] /\ 1 \in 1..Len(queue[s])
      <3>1. Head(queue[s]) = queue[s][1] /\ Len(queue[s]) \in Nat /\ Len(queue[s]) > 0
          BY <1>1, <1>2, Popped, Zenon
      <3> QED
          BY <3>1, SMT
    <2>2. Queued(queue[s], mrg[s].position, rd[s].delivered)
        BY <1>1, Zenon DEF Ordered
    <2> QED
        BY <2>1, <2>2, Zenon DEF Queued
  <1> HIDE DEF u
  <1>4. /\ After(mrg[s], u) \in Mergers
        /\ After(mrg[s], u).emitted = IF u.lsn > mrg[s].position THEN Max2(mrg[s].emitted, u.lsn) ELSE mrg[s].emitted
        /\ After(mrg[s], u).copying = IF u.cp.on THEN u.cp ELSE IF u.kind = "done" THEN NoCopy ELSE mrg[s].copying
      BY <1>1, <1>2, AfterIs, Zenon
  <1>5. /\ mrg'[s].position \in Nat /\ mrg'[s].emitted \in Nat
        /\ mrg'[s].emitted = IF u.lsn > mrg[s].position THEN Max2(mrg[s].emitted, u.lsn) ELSE mrg[s].emitted
        /\ u.cp.on => mrg'[s].copying.on
      BY <1>1, <1>4, ZenonT(30) DEF Mergers
  <1>6. u.lsn \in Nat /\ u.kind \in Kinds
      BY <1>1, Zenon DEF Units
  <1>7. mrg'[s].emitted <= mrg'[s].position
      BY OrderedEmits, Zenon DEF Ordered
  <1>8. mrg[s].emitted <= mrg'[s].emitted
      BY <1>2, <1>5, <1>6, SMT DEF Max2
  <1>9. CASE u.kind \in {"txn", "mark", "done"}
    <2>1. high'[s] = Max2(high[s], mrg'[s].position)
        BY <1>1, <1>9, Zenon
    <2>2. high[s] <= high'[s] /\ mrg'[s].emitted <= high'[s]
        BY <1>2, <1>5, <1>7, <2>1, SMT DEF Max2
    <2> QED
        BY <1>8, <2>2, Zenon
  <1>10. CASE u.kind \notin {"txn", "mark", "done"}
    <2>1. u.kind \in Copied
        BY <1>1, <1>6, <1>10, ZenonT(30) DEF Kinds, Copied
    <2>2. mrg'[s].copying.on
        BY <1>3, <1>5, <2>1, Zenon DEF Fits
    <2>3. high'[s] = high[s]
        BY <1>1, <1>10, Zenon
    <2>4. high[s] <= high'[s]
        BY <1>2, <2>3, SMT
    <2> QED
        BY <1>8, <2>2, <2>4, Zenon
  <1> QED
      BY <1>9, <1>10, Zenon

LEMMA AcksEmits ==
    ASSUME Types, Acks, NEW s \in Shards, Ordered(s), Emit(s)
    PROVE  Acks' /\ \A t \in Shards : AckStep(t)
  <1>1. /\ Types' /\ primary' = primary /\ up' = up /\ acker' = acker /\ pool' = pool /\ una' = una
        /\ \A t \in Shards : t # s => mrg'[t] = mrg[t] /\ high'[t] = high[t]
      BY EmitDoes, Zenon
  <1>2. slot' = slot /\ status' = status
      BY <1>1, Same, Zenon
  <1>3. Sent(s)
      BY Zenon DEF Acks
  <1>4. /\ ~mrg'[s].copying.on => mrg'[s].emitted <= high'[s]
        /\ high[s] <= high'[s] /\ mrg[s].emitted <= mrg'[s].emitted
      BY <1>3, EmitSends, Zenon
  <1>5. \A t \in Shards : high[t] \in Nat /\ mrg[t].emitted \in Nat
      BY Values, Zenon
  <1>6. \A n \in Nat : n <= n
      BY SMT
  <1>7. acker'[s].want <= high[s] /\ pool'[s].acked <= high[s] /\ \A n \in status'[s] : n <= high[s]
      BY <1>1, <1>2, <1>3, Zenon DEF Sent
  <1>9. Sent(s)'
      BY <1>1, <1>4, <1>7, SentStep, Zenon
  <1>10. \A t \in Shards : Sent(t)'
      BY <1>1, <1>2, <1>9, SentKept, ZenonT(30) DEF Acks
  <1>11. \A a \in una' : Unary(a)'
    <2>1. \A t \in Shards : high[t] <= high'[t] /\ mrg[t].emitted <= mrg'[t].emitted
        BY <1>1, <1>4, <1>5, <1>6, ZenonT(30)
    <2> QED
        BY <1>1, <2>1, UnaryKept, AckValues, ZenonT(30)
  <1>12. \A t \in Shards : AckStep(t)
      BY <1>1, <1>2, AckStepQuiet, ZenonT(30)
  <1> QED
      BY <1>10, <1>11, <1>12, Zenon DEF Acks

(* Steps that leave the stream's acks, its acker and what was emitted alone: the *)
(* slot moves only on a member that is not primary yet, or is made.              *)
LEMMA AcksQuiet ==
    ASSUME Types, Types', Acks, up' = up, mrg' = mrg, high' = high, acker' = acker, pool' = pool, una' = una,
           \A s \in Shards : status'[s] \subseteq status[s] /\ \A e \in 1..epoch[s] : slot'[s][e] = slot[s][e] \/ slot[s][e] = 0
    PROVE  Acks' /\ \A t \in Shards : AckStep(t)
  <1>1. \A s \in Shards : Sent(s)'
      BY SentKept, ZenonT(30) DEF Acks
  <1>2. \A a \in una' : Unary(a)'
      BY Zenon DEF Acks, Unary
  <1>3. \A t \in Shards : AckStep(t)
      BY AckStepQuiet, Zenon
  <1> QED
      BY <1>1, <1>2, <1>3, Zenon DEF Acks

LEMMA QuietSteps ==
    ASSUME Types, Types', Acks, NEW s \in Shards,
           Heartbeat \/ Commit(s) \/ SyncSlot(s) \/ Promote(s) \/ Reload(s) \/ CopyOpenLost(s) \/ UNCHANGED vars
    PROVE  Acks' /\ \A t \in Shards : AckStep(t)
  <1>1. up' = up /\ mrg' = mrg /\ high' = high /\ acker' = acker /\ pool' = pool /\ una' = una
    <2>1. CASE Heartbeat
        BY <2>1, Same, ZenonT(30) DEF Heartbeat
    <2>2. CASE Commit(s) \/ SyncSlot(s) \/ Promote(s) \/ Reload(s) \/ CopyOpenLost(s)
        BY <2>2, Same, ZenonT(30) DEF Commit, SyncSlot, Promote, Reload, CopyOpenLost
    <2>3. CASE UNCHANGED vars
        BY <2>3, Same, ZenonT(30) DEF vars
    <2> QED
        BY <2>1, <2>2, <2>3, Zenon
  <1>2. \A t \in Shards : epoch[t] \in Members /\ slot[t] \in [Members -> Nat]
      BY Values, Zenon
  <1>3. \A e \in 1..1 : e # 2
      BY SMT
  <1>4. \A t \in Shards : status'[t] \subseteq status[t]
    <2>1. CASE Promote(s)
        BY <2>1, ZenonT(30) DEF Promote, Types, ShardTypes
    <2>2. CASE ~Promote(s)
      <3>1. status' = status
          BY <2>2, Same, ZenonT(30) DEF Heartbeat, Commit, SyncSlot, Reload, CopyOpenLost, vars
      <3> QED
          BY <3>1, Zenon
    <2> QED
        BY <2>1, <2>2, Zenon
  <1>5. ASSUME NEW t \in Shards, NEW e \in 1..epoch[t] PROVE slot'[t][e] = slot[t][e] \/ slot[t][e] = 0
    <2>0. slot \in [Shards -> [Members -> Nat]] /\ topo[s] \in Members /\ e \in Members
      <3>1. e \in Members
          BY <1>2, SMT DEF Members
      <3> QED
          BY <3>1, Values, Zenon DEF Types, ShardTypes
    <2>1. CASE SyncSlot(s)
      <3>1. epoch[s] = 1 /\ slot' = [slot EXCEPT ![s][2] = slot[s][1]]
          BY <2>1, Zenon DEF SyncSlot
      <3> QED
        <4>1. t # s => slot'[t] = slot[t]
            BY <2>0, <3>1, ZenonT(30)
        <4>2. \A i \in Members : i # 2 => slot'[s][i] = slot[s][i]
            BY <2>0, <3>1, ZenonT(30)
        <4>3. t = s => e # 2
            BY <1>3, <3>1, Zenon
        <4> QED
            BY <2>0, <4>1, <4>2, <4>3, Zenon
    <2>2. CASE CopyOpenLost(s)
      <3>1. slot[s][topo[s]] = 0 /\ slot' = [slot EXCEPT ![s][topo[s]] = End(s, topo[s])]
          BY <2>2, Zenon DEF CopyOpenLost, ExportSnapshot
      <3> QED
        <4>1. t # s => slot'[t] = slot[t]
            BY <2>0, <3>1, ZenonT(30)
        <4>2. \A i \in Members : i # topo[s] => slot'[s][i] = slot[s][i]
            BY <2>0, <3>1, ZenonT(30)
        <4> QED
            BY <2>0, <3>1, <4>1, <4>2, Zenon
    <2>3. CASE ~SyncSlot(s) /\ ~CopyOpenLost(s)
      <3>1. slot' = slot
          BY <2>3, Same, ZenonT(30) DEF Heartbeat, Commit, Promote, Reload, vars
      <3> QED
          BY <3>1, Zenon
    <2> QED
        BY <2>1, <2>2, <2>3, Zenon
  <1> QED
      BY <1>1, <1>4, <1>5, AcksQuiet, ZenonT(30)

(* The acker's and the seat's steps on one shard, and what they may write. *)
LEMMA AcksStep ==
    ASSUME Types, Types', Acks, NEW s \in Shards, up' = up, mrg' = mrg, high' = high, slot' = slot, status' = status,
           \A t \in Shards : t # s => pool'[t] = pool[t] /\ acker'[t] = acker[t],
           acker'[s].want <= high[s], pool'[s].acked <= high[s]
    PROVE  /\ \A t \in Shards : Sent(t)'
           /\ \A a \in una \cap una' : Unary(a)'
           /\ \A t \in Shards : AckStep(t)
  <1>1. Sent(s) /\ high[s] \in Nat
      BY Values, Zenon DEF Acks
  <1>2. \A n \in Nat : n <= n
      BY SMT
  <1>3. high[s] <= high'[s] /\ (~mrg'[s].copying.on => mrg'[s].emitted <= high'[s]) /\ \A n \in status'[s] : n <= high[s]
      BY <1>1, <1>2, Zenon DEF Sent
  <1>4. Sent(s)'
      BY <1>3, SentStep, Zenon
  <1>5. \A t \in Shards : Sent(t)'
      BY <1>4, SentKept, ZenonT(30) DEF Acks
  <1>6. \A a \in una \cap una' : Unary(a)'
      BY Zenon DEF Acks, Unary
  <1>7. \A t \in Shards : AckStep(t)
      BY AckStepQuiet, Zenon
  <1> QED
      BY <1>5, <1>6, <1>7, Zenon

(* What forwardAck, Server.Ack, ackers.loop and releaseSlot write. *)
LEMMA AskSteps ==
    ASSUME Types, Types', Acks, NEW s \in Shards, NEW lsn \in Nat, ForwardAck(s, lsn) \/ UnaryAck(s, lsn)
    PROVE  Acks' /\ \A t \in Shards : AckStep(t)
  <1>1. mrg[s].emitted \in Nat /\ high[s] \in Nat
      BY Values, Zenon
  <1>2. Clamped(s, lsn) \in Nat /\ Clamped(s, lsn) <= mrg[s].emitted
      BY <1>1, TwoOf, Zenon DEF Clamped
  <1>3. CASE ForwardAck(s, lsn)
    <2>1. /\ ~mrg[s].copying.on /\ acker' = [acker EXCEPT ![s].want = Clamped(s, lsn), ![s].wake = TRUE]
          /\ primary' = primary /\ consumer' = consumer /\ up' = up /\ mrg' = mrg /\ pool' = pool /\ una' = una
        BY <1>3, Zenon DEF ForwardAck
    <2>2. slot' = slot /\ status' = status /\ high' = high
        BY <2>1, Same, Zenon
    <2>3. acker \in [Shards -> Ackers] /\ Sent(s)
        BY Zenon DEF Types, ShardTypes, Acks
    <2>4. acker'[s].want = Clamped(s, lsn) /\ \A t \in Shards : t # s => acker'[t] = acker[t]
        BY <2>1, <2>3, ZenonT(30) DEF Ackers
    <2>5. mrg[s].emitted <= high[s] /\ pool'[s].acked <= high[s]
        BY <2>1, <2>3, Zenon DEF Sent
    <2>6. acker'[s].want <= high[s]
        BY <1>1, <1>2, <2>4, <2>5, SMT
    <2>7. \A a \in una' : a \in una \cap una'
        BY <2>1, Zenon
    <2>8. /\ \A t \in Shards : Sent(t)' /\ AckStep(t)
          /\ \A a \in una \cap una' : Unary(a)'
        BY <2>1, <2>2, <2>4, <2>5, <2>6, AcksStep, Zenon
    <2> QED
        BY <2>7, <2>8, Zenon DEF Acks
  <1>4. CASE UnaryAck(s, lsn)
    <2> DEFINE x == [sh |-> s, lsn |-> Clamped(s, lsn), free |-> FALSE]
    <2>1. /\ up /\ una' = {x} /\ primary' = primary /\ stream' = stream /\ consumer' = consumer /\ pool' = pool
        BY <1>4, Zenon DEF UnaryAck
    <2>2. slot' = slot /\ status' = status /\ high' = high /\ up' = up /\ mrg' = mrg /\ acker' = acker
        BY <2>1, Same, Zenon
    <2>3. \A t \in Shards : Sent(t)'
        BY <2>1, <2>2, SentKept, ZenonT(30) DEF Acks
    <2>4. x.sh = s /\ x.lsn = Clamped(s, lsn) /\ ~x.free
        BY Zenon
    <2> HIDE DEF x
    <2>5. ASSUME NEW y \in una' PROVE Unary(y)'
      <3>1. y.sh = s /\ y.lsn = Clamped(s, lsn) /\ ~y.free
          BY <2>1, <2>4, Zenon
      <3>2. up' /\ y.lsn <= mrg'[y.sh].emitted
          BY <1>2, <2>1, <2>2, <3>1, Zenon
      <3> QED
          BY <3>1, <3>2, Zenon DEF Unary
    <2>6. \A t \in Shards : AckStep(t)
        BY <2>2, AckStepQuiet, ZenonT(30)
    <2> QED
        BY <2>1, <2>3, <2>5, <2>6, ZenonT(30) DEF Acks
  <1> QED
      BY <1>3, <1>4, Zenon

LEMMA SeatSteps ==
    ASSUME Types, Types', Acks, NEW s \in Shards, AckerCall(s) \/ AckerDone(s) \/ AckerFails(s) \/ ReleaseSlot(s)
    PROVE  Acks' /\ \A t \in Shards : AckStep(t)
  <1>t. /\ pool \in [Shards -> Seats] /\ acker \in [Shards -> Ackers] /\ Sent(s)
        /\ acker[s].want \in Nat /\ pool[s] \in Seats
        /\ pool[s].delivered \in Nat /\ pool[s].acked \in Nat /\ high[s] \in Nat
      BY Values, Zenon DEF Types, ShardTypes, Acks
  <1>s. acker[s].want <= high[s] /\ pool[s].acked <= high[s]
      BY <1>t, Zenon DEF Sent
  <1>u. /\ up' = up /\ mrg' = mrg /\ high' = high /\ slot' = slot /\ status' = status /\ una' = una
      BY Same, ZenonT(30) DEF AckerCall, AckerDone, AckerFails, ReleaseSlot
  <1> SUFFICES /\ acker'[s].want <= high[s] /\ pool'[s].acked <= high[s]
               /\ \A t \in Shards : t # s => pool'[t] = pool[t] /\ acker'[t] = acker[t]
    <2>1. \A a \in una' : a \in una \cap una'
        BY <1>u, Zenon
    <2> QED
        BY <1>u, <2>1, AcksStep, ZenonT(30) DEF Acks
  <1>1. CASE AckerCall(s)
    <2> DEFINE m == Min2(acker[s].want, pool[s].delivered)
               x == Max2(pool[s].acked, m)
               p == [[pool[s] EXCEPT !.acked = x] EXCEPT !.ask = acker[s].want, !.got = m]
    <2>1. m \in Nat /\ m <= acker[s].want
        BY <1>t, TwoOf, Zenon
    <2>2. x \in Nat /\ x <= high[s]
      <3> HIDE DEF m
      <3> QED
          BY <1>t, <1>s, <2>1, SMT DEF Max2
    <2>3. pool' = pool \/ pool' = [pool EXCEPT ![s] = p]
        BY <1>1, ZenonT(30) DEF AckerCall, Acked
    <2>4. acker' = [acker EXCEPT ![s].wake = FALSE]
        BY <1>1, Zenon DEF AckerCall
    <2>5. acker'[s].want = acker[s].want /\ \A t \in Shards : t # s => acker'[t] = acker[t]
        BY <1>t, <2>4, ZenonT(30) DEF Ackers
    <2> HIDE DEF x, m
    <2>6. p.acked = x
        BY <1>t, ZenonT(30) DEF Seats
    <2> HIDE DEF p
    <2>7. pool'[s].acked <= high[s] /\ \A t \in Shards : t # s => pool'[t] = pool[t]
        BY <1>t, <1>s, <2>2, <2>3, <2>6, ZenonT(30)
    <2> QED
        BY <1>s, <2>5, <2>7, Zenon
  <1>2. CASE AckerDone(s)
    <2>1. /\ acker' = [acker EXCEPT ![s].done = pool[s].got, ![s].wake = @ \/ pool[s].got = pool[s].ask]
          /\ pool' = [pool EXCEPT ![s].ask = 0, ![s].got = 0]
        BY <1>2, Zenon DEF AckerDone
    <2>2. acker'[s].want = acker[s].want /\ \A t \in Shards : t # s => acker'[t] = acker[t]
        BY <1>t, <2>1, ZenonT(30) DEF Ackers
    <2>3. pool'[s].acked = pool[s].acked /\ \A t \in Shards : t # s => pool'[t] = pool[t]
        BY <1>t, <2>1, ZenonT(30) DEF Seats
    <2> QED
        BY <1>s, <2>2, <2>3, Zenon
  <1>3. CASE AckerFails(s)
    <2>1. acker' = acker /\ pool' = [pool EXCEPT ![s].ask = 0, ![s].got = 0]
        BY <1>3, Same, Zenon DEF AckerFails
    <2>2. pool'[s].acked = pool[s].acked /\ \A t \in Shards : t # s => pool'[t] = pool[t]
        BY <1>t, <2>1, ZenonT(30) DEF Seats
    <2> QED
        BY <1>s, <2>1, <2>2, Zenon
  <1>4. CASE ReleaseSlot(s)
    <2>1. acker' = acker /\ pool' = [pool EXCEPT ![s] = NoReader]
        BY <1>4, Same, Zenon DEF ReleaseSlot
    <2>2. pool'[s] = NoReader /\ \A t \in Shards : t # s => pool'[t] = pool[t]
        BY <1>t, <2>1, ZenonT(30)
    <2>3. NoReader.acked = 0 /\ 0 <= high[s]
        BY <1>t, SMT DEF NoReader
    <2> QED
        BY <1>s, <2>1, <2>2, <2>3, Zenon
  <1> QED
      BY <1>1, <1>2, <1>3, <1>4, Zenon

(* A status carries what was acked, and the slot moves to what one carried. *)
LEMMA StatusSteps ==
    ASSUME Types, Types', Acks, NEW s \in Shards, SendStatus(s) \/ TakeStatus(s)
    PROVE  Acks' /\ \A t \in Shards : AckStep(t)
  <1>1. up' = up /\ mrg' = mrg /\ high' = high /\ una' = una /\ acker' = acker
      BY Same, ZenonT(30) DEF SendStatus, TakeStatus
  <1>2. Sent(s) /\ high[s] \in Nat /\ status \in [Shards -> SUBSET Nat] /\ slot \in [Shards -> [Members -> Nat]] /\ pool \in [Shards -> Seats]
      BY Values, Zenon DEF Types, ShardTypes, Acks
  <1>3. \A a \in una' : Unary(a)'
      BY <1>1, Zenon DEF Acks, Unary
  <1>4. CASE SendStatus(s)
    <2>1. /\ status' = status \/ status' = [status EXCEPT ![s] = status[s] \cup {pool[s].acked}]
          /\ slot' = slot /\ pool' = [pool EXCEPT ![s].sent = pool[s].acked]
        BY <1>4, ZenonT(30) DEF SendStatus
    <2>2. (\A n \in status'[s] : n \in status[s] \/ n = pool[s].acked) /\ \A t \in Shards : t # s => status'[t] = status[t]
        BY <1>2, <2>1, ZenonT(30)
    <2>3. pool'[s].acked = pool[s].acked /\ \A t \in Shards : t # s => pool'[t] = pool[t]
        BY <1>2, <2>1, ZenonT(30) DEF Seats
    <2>4. Sent(s)'
        BY <1>1, <1>2, <2>2, <2>3, ZenonT(30) DEF Sent
    <2>5. \A t \in Shards : Sent(t)'
        BY <1>1, <2>2, <2>3, <2>4, SentKept, ZenonT(30) DEF Acks
    <2>6. \A t \in Shards : AckStep(t)
        BY <2>1, AckStepQuiet, Zenon
    <2> QED
        BY <1>3, <2>5, <2>6, Zenon DEF Acks
  <1>5. CASE TakeStatus(s)
    <2>1. PICK lsn \in status[s] : slot' = [slot EXCEPT ![s][epoch[s]] = Max2(slot[s][epoch[s]], lsn)] /\ status' = [status EXCEPT ![s] = status[s] \ {lsn}]
        BY <1>5, ZenonT(30) DEF TakeStatus
    <2> DEFINE e == epoch[s]
               n == Max2(slot[s][e], lsn)
    <2>2. e \in Members /\ slot[s][e] \in Nat /\ lsn \in Nat /\ lsn <= high[s] /\ slot[s] \in [Members -> Nat]
        BY <1>2, Values, ZenonT(30) DEF Sent
    <2>3. pool' = pool
        BY <1>5, Zenon DEF TakeStatus
    <2>4. \A t \in Shards : status'[t] \subseteq status[t]
        BY <1>2, <2>1, ZenonT(30)
    <2>5. \A t \in Shards : Sent(t)'
        BY <1>1, <2>3, <2>4, SentKept, ZenonT(30) DEF Acks
    <2>6. n = slot[s][e] \/ n = lsn
        BY <2>2, TwoOf, Zenon
    <2>7. slot' = [slot EXCEPT ![s][e] = n]
        BY <2>1, Zenon
    <2>8. 1..e \subseteq Members /\ \A m \in Nat : ~(m > m)
        BY <2>2, SMT DEF Members
    <2> HIDE DEF n, e
    <2>9. /\ slot'[s][e] = n /\ \A i \in Members : i # e => slot'[s][i] = slot[s][i]
          /\ \A t \in Shards : t # s => slot'[t] = slot[t]
        BY <1>2, <2>2, <2>7, ZenonT(30)
    <2>10. AckStep(s)
      <3>1. ASSUME NEW i \in 1..e, slot'[s][i] > slot[s][i] PROVE slot'[s][i] <= high[s]
        <4>1. i \in Members /\ slot[s][i] \in Nat
            BY <2>2, <2>8, Zenon
        <4> QED
            BY <2>2, <2>6, <2>8, <2>9, <3>1, <4>1, Zenon
      <3> QED
          BY <3>1, Zenon DEF AckStep, e
    <2>11. \A t \in Shards : t # s => AckStep(t)
        BY <2>9, AckStepQuiet, ZenonT(30)
    <2> QED
        BY <1>3, <2>5, <2>10, <2>11, Zenon DEF Acks
  <1> QED
      BY <1>4, <1>5, Zenon

(* Server.Ack reaches the pooler: its position was sent, or its stream still copies. *)
LEMMA UnaryCalls ==
    ASSUME Types, Types', Acks, NEW a \in una, UnaryCall(a)
    PROVE  Acks' /\ \A t \in Shards : AckStep(t)
  <1> DEFINE s == a.sh
             x == Max2(pool[s].acked, Min2(a.lsn, pool[s].delivered))
  <1>1. /\ una' = una \ {a}
        /\ pool' = pool \/ ((a.free \/ ~mrg[s].copying.on) /\ pool' = [pool EXCEPT ![s] = [pool[s] EXCEPT !.acked = x]])
        /\ up' = up /\ mrg' = mrg /\ high' = high /\ slot' = slot /\ status' = status /\ acker' = acker
      BY Same, ZenonT(30) DEF UnaryCall, Acked
  <1>2. s \in Shards /\ a.lsn \in Nat /\ Unary(a)
      BY AckValues, Zenon DEF Acks
  <1>3. /\ pool \in [Shards -> Seats] /\ pool[s] \in Seats /\ pool[s].acked \in Nat /\ pool[s].delivered \in Nat
        /\ high[s] \in Nat /\ mrg[s].emitted \in Nat /\ Sent(s)
      BY <1>2, Values, Zenon DEF Types, ShardTypes, Acks
  <1>4. /\ a.free \/ ~mrg[s].copying.on => a.lsn <= high[s] \/ (a.lsn <= mrg[s].emitted /\ mrg[s].emitted <= high[s])
        /\ pool[s].acked <= high[s] /\ acker[s].want <= high[s]
      BY <1>2, <1>3, Zenon DEF Unary, Sent
  <1>5. x \in Nat /\ (a.free \/ ~mrg[s].copying.on => x <= high[s])
    <2> HIDE DEF s
    <2> QED
        BY <1>2, <1>3, <1>4, SMT DEF Max2, Min2
  <1> HIDE DEF s, x
  <1>6. [pool[s] EXCEPT !.acked = x].acked = x
      BY <1>3, ZenonT(30) DEF Seats
  <1>7. pool'[s].acked <= high[s] /\ \A t \in Shards : t # s => pool'[t] = pool[t]
      BY <1>1, <1>2, <1>3, <1>4, <1>5, <1>6, ZenonT(30)
  <1>8. /\ \A t \in Shards : Sent(t)'
        /\ \A b \in una \cap una' : Unary(b)'
        /\ \A t \in Shards : AckStep(t)
      BY <1>1, <1>2, <1>4, <1>7, AcksStep, Zenon
  <1>9. \A b \in una' : b \in una \cap una'
      BY <1>1, Zenon
  <1> QED
      BY <1>1, <1>8, <1>9, Zenon DEF Acks

LEMMA AcksNext ==
    ASSUME Types, Types', Acks, \A s \in Shards : Ordered(s), [Next]_vars
    PROVE  Acks' /\ \A t \in Shards : AckStep(t)
  <1>1. CASE Open
      BY <1>1, AcksOpens, Zenon
  <1>2. CASE StreamEnd \/ \E s \in Shards : EmitGone(s)
      BY <1>2, AcksCloses, Zenon
  <1>3. ASSUME NEW s \in Shards,
               \/ CopyOpen(s) \/ CopyTableBegin(s) \/ CopyRow(s) \/ CopyTableDone(s) \/ CopyDone(s)
               \/ StreamOpen(s) \/ StreamRefused(s) \/ RecvSegment(s) \/ RecvCommit(s) \/ RecvKeepalive(s)
               \/ Break(s) \/ EpochMoved(s) \/ Fenced(s)
        PROVE  Acks' /\ \A t \in Shards : AckStep(t)
      BY <1>3, AcksReads, Zenon
  <1>4. ASSUME NEW s \in Shards, Emit(s) PROVE Acks' /\ \A t \in Shards : AckStep(t)
      BY <1>4, AcksEmits, Zenon
  <1>5. CASE Beside
    <2>1. ASSUME NEW s \in Shards,
                 Heartbeat \/ Commit(s) \/ SyncSlot(s) \/ Promote(s) \/ Reload(s) \/ CopyOpenLost(s) \/ UNCHANGED vars
          PROVE  Acks' /\ \A t \in Shards : AckStep(t)
        BY <2>1, QuietSteps, Zenon
    <2>2. ASSUME NEW s \in Shards, NEW lsn \in 1..Len(wal[s]), ForwardAck(s, lsn) \/ UnaryAck(s, lsn)
          PROVE  Acks' /\ \A t \in Shards : AckStep(t)
      <3>1. lsn \in Nat
          BY Values, SMT
      <3> QED
          BY <2>2, <3>1, AskSteps, Zenon
    <2>3. ASSUME NEW s \in Shards, AckerCall(s) \/ AckerDone(s) \/ AckerFails(s) \/ ReleaseSlot(s)
          PROVE  Acks' /\ \A t \in Shards : AckStep(t)
        BY <2>3, SeatSteps, Zenon
    <2>4. ASSUME NEW s \in Shards, SendStatus(s) \/ TakeStatus(s) PROVE Acks' /\ \A t \in Shards : AckStep(t)
        BY <2>4, StatusSteps, Zenon
    <2>5. ASSUME NEW a \in una, UnaryCall(a) PROVE Acks' /\ \A t \in Shards : AckStep(t)
        BY <2>5, UnaryCalls, Zenon
    <2>6. CASE \E s \in Shards : TRUE
        BY <1>5, <2>1, <2>2, <2>3, <2>4, <2>5, <2>6, ZenonT(30) DEF Beside
    <2>7. CASE Shards = {}
      <3>1. \A a \in una' : a.sh \in Shards
          BY ZenonT(30) DEF Types, ShardTypes
      <3> QED
          BY <2>7, <3>1, ZenonT(30) DEF Acks
    <2> QED
        BY <2>6, <2>7, Zenon
  <1> QED
      BY <1>1, <1>2, <1>3, <1>4, <1>5, NextIs, Zenon

-----------------------------------------------------------------------------
(* The inductive invariant of the stream's order and of its acks. *)
IInv == Types /\ (\A s \in Shards : Ordered(s)) /\ Acks

LEMMA IInvInit == Init => IInv
  <1> SUFFICES ASSUME Init PROVE IInv
      OBVIOUS
  <1>1. Types
      BY TypesInit
  <1>2. ASSUME NEW s \in Shards PROVE Ordered(s) /\ Sent(s)
    <2>1. ~up /\ queue[s] = <<>> /\ conn[s] = NoConn /\ mrg[s] = [position |-> 0, emitted |-> 0, copying |-> NoCopy]
        BY ZenonT(30) DEF Init
    <2>2. acker[s] = NoAck /\ pool[s] = NoReader /\ status[s] = {} /\ high[s] \in Nat
        BY <1>1, Values, ZenonT(30) DEF Init
    <2>3. mrg[s].position = 0 /\ mrg[s].emitted = 0
        BY <2>1, SMT
    <2>4. /\ NoConn.kind = "off" /\ "off" # "stream" /\ "off" # "copy" /\ NoAck.want = 0 /\ 0 <= 0 /\ 0 <= high[s]
          /\ NoReader.acked = 0
        BY <2>2, SMT DEF NoConn, NoAck, NoReader
    <2> QED
        BY <2>1, <2>2, <2>3, <2>4, ZenonT(30) DEF Ordered, Sent
  <1>3. una = {}
      BY Zenon DEF Init
  <1> QED
      BY <1>1, <1>2, <1>3, Zenon DEF IInv, Acks

LEMMA IInvNext == IInv /\ [Next]_vars => IInv' /\ \A s \in Shards : AckStep(s)
  <1> SUFFICES ASSUME IInv, [Next]_vars PROVE IInv' /\ \A s \in Shards : AckStep(s)
      OBVIOUS
  <1>0. Types /\ (\A s \in Shards : Ordered(s)) /\ Acks
      BY Zenon DEF IInv
  <1>1. Types'
      BY <1>0, TypesNext, Zenon
  <1>2. \A s \in Shards : Ordered(s)'
      BY <1>0, OrderedNext, Zenon
  <1>3. Acks' /\ \A s \in Shards : AckStep(s)
      BY <1>0, <1>1, AcksNext, Zenon
  <1> QED
      BY <1>1, <1>2, <1>3, Zenon DEF IInv

(* The reader, the merger and the acks keep the invariant, over any number of     *)
(* calls lost, streams ended and primaries deposed (reader.run, merger.emit).    *)
THEOREM Invariance == Spec => []IInv
  <1>1. Init => IInv
      BY IInvInit
  <1>2. IInv /\ [Next]_vars => IInv'
      BY IInvNext
  <1> QED
      BY <1>1, <1>2, PTL DEF Spec

(* Every transaction of a shard goes out once per stream, in commit order and     *)
(* whole, whatever calls are lost in between (reader.once, assembler.reset).     *)
THEOREM SentOnce == Spec => []OnceInOrder
  <1>1. IInv => OnceInOrder
    <2> SUFFICES ASSUME IInv, NEW s \in Shards,
                        NEW i \in DOMAIN queue[s], queue[s][i].kind \in {"txn", "mark"}
                 PROVE  /\ queue[s][i].lsn > mrg[s].position
                        /\ \A j \in DOMAIN queue[s] : queue[s][j].kind \in {"txn", "mark"} /\ i < j => queue[s][i].lsn < queue[s][j].lsn
                        /\ queue[s][i].kind = "txn" => queue[s][i].parts = <<1, 2>>
        BY ZenonT(30) DEF OnceInOrder
    <2>1. queue[s] \in Seq(Units) /\ Ordered(s) /\ mrg[s].position \in Nat
        BY Values, Zenon DEF IInv
    <2>2. DOMAIN queue[s] = 1..Len(queue[s]) /\ \A j \in DOMAIN queue[s] : queue[s][j] \in Units
        BY <2>1, SMT
    <2>3. up
      <3>1. queue[s] # <<>>
          BY <2>1, SMT
      <3> QED
          BY <2>1, <3>1, Zenon DEF Ordered
    <2>4. Queued(queue[s], mrg[s].position, rd[s].delivered)
        BY <2>1, <2>3, Zenon DEF Ordered
    <2>5. \A j \in DOMAIN queue[s] : Fits(queue[s][j]) /\ (queue[s][j].lsn > 0 => mrg[s].position < queue[s][j].lsn)
        BY <2>2, <2>4, Zenon DEF Queued
    <2>6. \A j \in DOMAIN queue[s] : queue[s][j].kind \in {"txn", "mark"} => queue[s][j].lsn > 0
        BY <2>5, Zenon DEF Fits
    <2>7. \A j \in DOMAIN queue[s] : queue[s][j].kind \in {"txn", "mark"} /\ i < j => queue[s][i].lsn < queue[s][j].lsn
        BY <2>2, <2>4, <2>6, Zenon DEF Queued
    <2>8. queue[s][i].kind = "txn" => queue[s][i].parts = <<1, 2>>
        BY <2>5, Zenon DEF Fits
    <2>9. mrg[s].position < queue[s][i].lsn /\ queue[s][i].lsn \in Nat
        BY <2>2, <2>5, <2>6, LsnIs, Zenon
    <2>10. queue[s][i].lsn > mrg[s].position
        BY <2>1, <2>9, SMT
    <2> QED
        BY <2>7, <2>8, <2>10, Zenon
  <1> QED
      BY <1>1, Invariance, PTL

(* A slot moves only to what the consumer was sent, never into a running copy,    *)
(* whichever stream, call or member the ack went through and however late its    *)
(* status is read (merger.forwardAck, Server.Ack, Pooler.Ack, sendStatus).       *)
THEOREM AckedIsSent == Spec => AcksTrue
  <1> DEFINE Step == \A s \in Shards : \A e \in 1..epoch[s] :
                        slot[s][e] # 0 /\ slot'[s][e] > slot[s][e] => slot'[s][e] <= high[s]
  <1>1. IInv /\ [Next]_vars => [Step]_vars
    <2>1. IInv /\ [Next]_vars => \A s \in Shards : AckStep(s)
        BY IInvNext
    <2> QED
        BY <2>1, Zenon DEF AckStep
  <1>2. AcksTrue <=> [][Step]_vars
      BY PTL DEF AcksTrue
  <1> HIDE DEF Step
  <1> QED
      BY <1>1, <1>2, Invariance, PTL DEF Spec

=============================================================================
