-------------------------------- MODULE Pool --------------------------------
(***************************************************************************)
(* The pooler's backend pool (internal/pooler/pool.go): PostgreSQL         *)
(* connections ("backends") shared by the goroutines that relay sessions,  *)
(* under one shard-wide budget and one quota per role.                     *)
(*                                                                         *)
(* Both limits are buffered Go channels used as semaphores.  A waiting     *)
(* goroutine blocks in a select over three things: a send on the channel,  *)
(* its own wake-up channel, and its deadline.  The model keeps Go's rule   *)
(* for such a select: on entry any ready case may be taken; once blocked,  *)
(* the first event decides, and a slot that is freed is handed to the      *)
(* goroutine that has been blocked on the channel longest.                 *)
(*                                                                         *)
(* A goroutine's state carries the steps it still has to run, first one    *)
(* first.  Each step is one critical section under Pool.mu, one channel    *)
(* operation, or one call out (a dial).                                    *)
(***************************************************************************)
EXTENDS Integers, FiniteSets, Sequences, FiniteSetsExt, SequencesExt

CONSTANTS
    Procs,            \* goroutines that acquire and release backends
    Databases, Roles,
    SuperuserRoles,   \* the roles held to MaxPerSuperuser
    MaxBackends, MaxPerRole, MaxPerSuperuser,
    Digests,          \* fingerprints of the credentials a caller presents
    ExpireInDrain,    \* backends expire while Server.Drain runs, too
    Reaper, Closer,   \* the reaping goroutine, and the one that drains and closes
    None, Shard       \* no backend; the shard-wide budget

ASSUME PoolAssumption ==
    /\ MaxBackends \in Nat \ {0}
    /\ MaxPerRole \in Nat \ {0}
    /\ MaxPerSuperuser \in Nat \ {0}
    /\ SuperuserRoles \subseteq Roles
    /\ ExpireInDrain \in BOOLEAN
    /\ Shard \notin Roles

Keys == Databases \X Roles
RoleOf(k) == k[2]
Chans == Roles \cup {Shard}
Queues == Keys \cup {Shard}
All == Procs \cup {Reaper, Closer}

\* Pointers to backends. Dialling takes one nobody refers to, so the number of
\* live and of remembered backends bounds how many are needed.
Backends == 1 .. (MaxBackends + Cardinality(Procs) + 1)

Cap(c) ==
    IF c = Shard THEN MaxBackends
    ELSE IF c \in SuperuserRoles THEN MaxPerSuperuser ELSE MaxPerRole

VARIABLES
    draining, \* Server.draining
    closed,   \* Pool.closed
    tokens,   \* tokens in each semaphore: Pool.total and Pool.sems
    sendq,    \* goroutines blocked in a send on it, longest first
    idle,     \* rolePool.idle, by (database, role); the last is the warmest
    waiters,  \* rolePool.waiters by key, and Pool.budget
    be,       \* what a backend carries: its key, its digest, its released flag
    proc      \* per goroutine: steps left, key, digest, backend, wake-up, slots to free

vars == <<draining, closed, tokens, sendq, idle, waiters, be, proc>>

Without(s, p) == SelectSeq(s, LAMBDA q : q # p)

NewProc == [todo |-> <<>>, key |-> None, dig |-> None, b |-> None, ch |-> FALSE, drop |-> <<>>]

Init ==
    /\ draining = FALSE
    /\ closed = FALSE
    /\ tokens = [c \in Chans |-> 0]
    /\ sendq = [c \in Chans |-> <<>>]
    /\ idle = [k \in Keys |-> <<>>]
    /\ waiters = [q \in Queues |-> <<>>]
    /\ be = [b \in Backends |-> [key |-> None, dig |-> None, released |-> TRUE]]
    /\ proc = [p \in All |-> NewProc]

At(p, step) == proc[p].todo # <<>> /\ Head(proc[p].todo) = step
Then(p, steps) == [proc EXCEPT ![p].todo = steps]
Key(p) == proc[p].key

\* The first step of p done; a goroutine left with nothing is outside again.
Next1(p) == [proc EXCEPT ![p] = IF Len(@.todo) = 1 /\ @.b = None THEN NewProc
                                ELSE [@ EXCEPT !.todo = Tail(@)]]

\* MaxLifetime or MaxIdleTime has passed for some backend.
MayExpire == draining => ExpireInDrain

\* A goroutine with nothing left to run holds a backend or is outside the pool.
Outside(p) == proc[p].todo = <<>> /\ proc[p].b = None
Holding(p) == proc[p].todo = <<>> /\ proc[p].b # None

(***************************************************************************)
(* Channels and wake-ups                                                   *)
(***************************************************************************)
Full(c) == tokens[c] >= Cap(c)
Put(c) == tokens' = [tokens EXCEPT ![c] = @ + 1]

\* A receive from semaphore c: the goroutine blocked on it longest gets the
\* slot, and otherwise the channel holds one token fewer. With no token the
\* receive blocks.
Receive(c, f) ==
    /\ tokens[c] > 0
    /\ IF sendq[c] = <<>>
       THEN /\ tokens' = [tokens EXCEPT ![c] = @ - 1]
            /\ proc' = f
            /\ UNCHANGED sendq
       ELSE /\ sendq' = [sendq EXCEPT ![c] = Tail(@)]
            /\ proc' = [f EXCEPT ![Head(sendq[c])].todo =
                            IF c = Shard THEN <<"leaveBudget", "dial">>
                            ELSE <<"leaveRole", "total">>]
            /\ UNCHANGED tokens

\* wake: a goroutine blocked in its select returns from it; for any other the
\* wake-up stays in its one-place channel.
Wake(f, W) ==
    [p \in DOMAIN f |->
        IF p \notin W THEN f[p]
        ELSE IF f[p].todo = <<"asleepRole">> THEN [f[p] EXCEPT !.todo = <<"leaveRole", "park">>]
        ELSE IF f[p].todo = <<"asleepBudget">> THEN [f[p] EXCEPT !.todo = <<"woken">>]
        ELSE [f[p] EXCEPT !.ch = TRUE]]

Unblock(W) == sendq' = [c \in Chans |-> SelectSeq(sendq[c], LAMBDA p : p \notin W)]

\* The first n[q] waiters of every queue are woken.
WakeFirst(n, f) ==
    LET W == UNION {{waiters[q][i] : i \in 1 .. Min({n[q], Len(waiters[q])})} : q \in Queues} IN
    /\ waiters' = [q \in Queues |-> SubSeq(waiters[q], n[q] + 1, Len(waiters[q]))]
    /\ proc' = Wake(f, W)
    /\ Unblock(W)

WakeOne(Q, f) == WakeFirst([q \in Queues |-> IF q \in Q THEN 1 ELSE 0], f)
WakeAll(f) == WakeFirst([q \in Queues |-> Len(waiters[q])], f)

\* Mutant: only a budget waiter is woken.
WakeForBudget(k, f) == WakeOne({Shard}, f)

\* One waiter of the role's pool, which can reuse the backend, and one of the
\* budget, which can evict it.
WakeFor(k, f) == WakeOne({k, Shard}, f)

\* Pool.leave: a waiter no longer queued hands on a wake-up it did not take.
Leave(p, q, f) ==
    IF p \in Range(waiters[q])
    THEN /\ waiters' = [waiters EXCEPT ![q] = Without(@, p)]
         /\ proc' = f
         /\ UNCHANGED sendq
    ELSE IF proc[p].ch
    THEN WakeOne({q}, [f EXCEPT ![p].ch = FALSE])
    ELSE proc' = f /\ UNCHANGED <<waiters, sendq>>

\* park: queue the waiter and drop a stale wake-up.
Park(p, q, steps) ==
    /\ waiters' = [waiters EXCEPT ![q] = Append(@, p)]
    /\ proc' = [proc EXCEPT ![p].ch = FALSE, ![p].todo = steps]

\* free drains the shard's channel and then the role's, for the first key of
\* drop: two channel operations.
FreeTotal(p) ==
    /\ At(p, "freeTotal")
    /\ Receive(Shard, Next1(p))
    /\ UNCHANGED <<draining, closed, idle, waiters, be>>

FreeRole(p) ==
    /\ At(p, "freeRole")
    /\ Receive(RoleOf(Head(proc[p].drop)), [Next1(p) EXCEPT ![p].drop = Tail(proc[p].drop)])
    /\ UNCHANGED <<draining, closed, idle, waiters, be>>

Free == <<"freeTotal", "freeRole">>

(***************************************************************************)
(* Acquire                                                                 *)
(***************************************************************************)
\* A relay asks for a backend only while the server is not draining.
Acquire(p, k, d) ==
    /\ Outside(p)
    /\ ~draining /\ ~closed
    /\ proc' = [proc EXCEPT ![p] = [NewProc EXCEPT !.todo = <<"pop", "try">>, !.key = k, !.dig = d]]
    /\ UNCHANGED <<draining, closed, tokens, sendq, idle, waiters, be>>

\* popIdle takes the warmest idle backend of the pool and owns it again. One
\* that expired, or that other credentials authenticated, is closed and its
\* slot freed, and the loop looks again. In awaitSlot the steps left start
\* with the look for another database's idle backend.
PopIdle(p) ==
    /\ At(p, "pop")
    /\ IF idle[Key(p)] = <<>>
       THEN proc' = Next1(p) /\ UNCHANGED <<idle, be>>
       ELSE LET b == Last(idle[Key(p)]) IN
            /\ idle' = [idle EXCEPT ![Key(p)] = Front(@)]
            /\ be' = [be EXCEPT ![b].released = FALSE]
            /\ \/ /\ be[b].dig = proc[p].dig
                  /\ proc' = [proc EXCEPT ![p].b = b,
                                          ![p].todo = IF @ = <<"pop", "try">> THEN <<>> ELSE <<"leaveRole">>]
               \/ /\ MayExpire \/ be[b].dig # proc[p].dig
                  /\ proc' = [proc EXCEPT ![p].drop = <<Key(p)>>, ![p].todo = Free \o @]
    /\ UNCHANGED <<draining, closed, tokens, sendq, waiters>>

TrySem(p) ==
    /\ At(p, "try")
    /\ IF Full(RoleOf(Key(p)))
       THEN proc' = Then(p, <<"park">>) /\ UNCHANGED tokens
       ELSE Put(RoleOf(Key(p))) /\ proc' = Then(p, <<"total">>)
    /\ UNCHANGED <<draining, closed, sendq, idle, waiters, be>>

\* awaitSlot queues before it looks.
AwaitSlot(p) ==
    /\ At(p, "park")
    /\ Park(p, Key(p), IF closed THEN <<"leaveRole">> ELSE <<"pop", "evictRole">>)
    /\ UNCHANGED <<draining, closed, tokens, sendq, idle, be>>

\* The least recently used idle backend among those of the pools in K; which
\* one that is depends on times the model leaves out, so it is any of them.
Victim(K, p, steps) ==
    \E k \in K : \E i \in DOMAIN idle[k] :
        /\ idle' = [idle EXCEPT ![k] = RemoveAt(@, i)]
        /\ proc' = [proc EXCEPT ![p].drop = <<k>>, ![p].todo = Free \o steps]

NoneIdle(K) == \A k \in K : idle[k] = <<>>

EvictIdleOfRole(p) ==
    /\ At(p, "evictRole")
    /\ LET K == {k \in Keys : RoleOf(k) = RoleOf(Key(p)) /\ k # Key(p)} IN
       \/ Victim(K, p, <<"leaveRole", "park">>)
       \/ NoneIdle(K) /\ proc' = Then(p, <<"selectRole">>) /\ UNCHANGED idle
    /\ UNCHANGED <<draining, closed, tokens, sendq, waiters, be>>

\* awaitSlot's select. Its deferred leave is the next step.
SelectRole(p) ==
    LET c == RoleOf(Key(p)) IN
    /\ At(p, "selectRole")
    /\ \/ ~Full(c) /\ Put(c) /\ proc' = Then(p, <<"leaveRole", "total">>) /\ UNCHANGED sendq
       \/ /\ proc[p].ch
          /\ proc' = [proc EXCEPT ![p].ch = FALSE, ![p].todo = <<"leaveRole", "park">>]
          /\ UNCHANGED <<tokens, sendq>>
       \/ /\ Full(c) /\ ~proc[p].ch
          /\ sendq' = [sendq EXCEPT ![c] = Append(@, p)]
          /\ proc' = Then(p, <<"asleepRole">>)
          /\ UNCHANGED tokens
    /\ UNCHANGED <<draining, closed, idle, waiters, be>>

LeaveRole(p) ==
    /\ At(p, "leaveRole")
    /\ Leave(p, Key(p), Next1(p))
    /\ UNCHANGED <<draining, closed, tokens, idle, be>>

\* acquireTotal tries, queues, evicts, and blocks, in that order.
TryTotal(p) ==
    /\ At(p, "total")
    /\ IF Full(Shard)
       THEN proc' = Then(p, <<"parkBudget">>) /\ UNCHANGED tokens
       ELSE Put(Shard) /\ proc' = Then(p, <<"dial">>)
    /\ UNCHANGED <<draining, closed, sendq, idle, waiters, be>>

ParkBudget(p) ==
    /\ At(p, "parkBudget")
    /\ Park(p, Shard, <<"evict">>)
    /\ UNCHANGED <<draining, closed, tokens, sendq, idle, be>>

EvictIdle(p) ==
    /\ At(p, "evict")
    /\ \/ Victim(Keys, p, <<"leaveBudget", "total">>)
       \/ NoneIdle(Keys) /\ proc' = Then(p, <<"selectBudget">>) /\ UNCHANGED idle
    /\ UNCHANGED <<draining, closed, tokens, sendq, waiters, be>>

SelectBudget(p) ==
    /\ At(p, "selectBudget")
    /\ \/ ~Full(Shard) /\ Put(Shard) /\ proc' = Then(p, <<"leaveBudget", "dial">>) /\ UNCHANGED sendq
       \/ /\ proc[p].ch
          /\ proc' = [proc EXCEPT ![p].ch = FALSE, ![p].todo = <<"woken">>]
          /\ UNCHANGED <<tokens, sendq>>
       \/ /\ Full(Shard) /\ ~proc[p].ch
          /\ sendq' = [sendq EXCEPT ![Shard] = Append(@, p)]
          /\ proc' = Then(p, <<"asleepBudget">>)
          /\ UNCHANGED tokens
    /\ UNCHANGED <<draining, closed, idle, waiters, be>>

\* A woken budget waiter gives up on a closed pool and otherwise starts over.
Woken(p) ==
    /\ At(p, "woken")
    /\ proc' = Then(p, IF closed THEN <<"leaveBudget", "giveBack">> ELSE <<"leaveBudget", "total">>)
    /\ UNCHANGED <<draining, closed, tokens, sendq, idle, waiters, be>>

LeaveBudget(p) ==
    /\ At(p, "leaveBudget")
    /\ Leave(p, Shard, Next1(p))
    /\ UNCHANGED <<draining, closed, tokens, idle, be>>

\* The acquire deadline, in the select or blocked in it.
Timeout(p) ==
    /\ \/ At(p, "selectRole") \/ At(p, "asleepRole")
       \/ At(p, "selectBudget") \/ At(p, "asleepBudget")
    /\ proc' = Then(p, IF Head(proc[p].todo) \in {"selectRole", "asleepRole"}
                       THEN <<"leaveRole">> ELSE <<"leaveBudget", "giveBack">>)
    /\ Unblock({p})
    /\ UNCHANGED <<draining, closed, tokens, idle, waiters, be>>

\* Acquire returns the role's slot when the budget gave none.
GiveBack(p) ==
    /\ At(p, "giveBack")
    /\ Receive(RoleOf(Key(p)), Next1(p))
    /\ UNCHANGED <<draining, closed, idle, waiters, be>>

Unused == Backends \ (UNION {Range(idle[k]) : k \in Keys} \cup {proc[p].b : p \in All})

\* With both slots Acquire looks at closed once more, and dials.
CheckClosed(p) ==
    /\ At(p, "dial")
    /\ proc' = IF closed THEN [proc EXCEPT ![p].drop = <<Key(p)>>, ![p].todo = Free]
               ELSE Then(p, <<"dialling">>)
    /\ UNCHANGED <<draining, closed, tokens, sendq, idle, waiters, be>>

\* Mutant: a failed dial keeps its slots.
DialLeaks(p) ==
    /\ At(p, "dialling")
    /\ proc' = [proc EXCEPT ![p] = NewProc]
    /\ UNCHANGED <<draining, closed, tokens, sendq, idle, waiters, be>>

Dial(p) ==
    /\ At(p, "dialling")
    /\ \/ LET b == Min(Unused) IN
          /\ be' = [be EXCEPT ![b] = [key |-> Key(p), dig |-> proc[p].dig, released |-> FALSE]]
          /\ proc' = [proc EXCEPT ![p].b = b, ![p].todo = <<>>]
       \/ /\ proc' = [proc EXCEPT ![p].drop = <<Key(p)>>, ![p].todo = Free]
          /\ UNCHANGED be
    /\ UNCHANGED <<draining, closed, tokens, sendq, idle, waiters>>

(***************************************************************************)
(* Release, Discard, Abandon, reapOnce, Close                              *)
(***************************************************************************)
\* release returns a backend once: kept when the pool is open and the backend
\* sound (not broken, nothing unflushed, no transaction, not expired), closed
\* and its slots freed otherwise.
Release(p, sound) ==
    LET b == proc[p].b
        k == be[b].key
        gone == [proc EXCEPT ![p] = NewProc] IN
    /\ Holding(p)
    /\ IF be[b].released
       THEN proc' = gone /\ UNCHANGED <<sendq, idle, waiters, be>>
       ELSE /\ be' = [be EXCEPT ![b].released = TRUE]
            /\ IF sound /\ ~closed
               THEN idle' = [idle EXCEPT ![k] = Append(@, b)] /\ WakeFor(k, gone)
               ELSE /\ proc' = [gone EXCEPT ![p].drop = <<k>>, ![p].todo = Free]
                    /\ UNCHANGED <<sendq, idle, waiters>>
    /\ UNCHANGED <<draining, closed, tokens>>

Drain ==
    /\ ~draining /\ ~closed
    /\ draining' = TRUE
    /\ UNCHANGED <<closed, tokens, sendq, idle, waiters, be, proc>>

\* Server.Drain takes the backend a running session holds; the session's
\* relay still has its own pointer to it.
Snapshot(p) ==
    /\ draining /\ ~closed
    /\ Outside(Closer) /\ Holding(p)
    /\ ~be[proc[p].b].released
    /\ proc' = [proc EXCEPT ![Closer].b = proc[p].b, ![Closer].todo = <<"abandon">>]
    /\ UNCHANGED <<draining, closed, tokens, sendq, idle, waiters, be>>

Abandon ==
    LET b == proc[Closer].b
        done == [proc EXCEPT ![Closer] = NewProc] IN
    /\ At(Closer, "abandon")
    /\ IF be[b].released
       THEN proc' = done /\ UNCHANGED be
       ELSE /\ be' = [be EXCEPT ![b].released = TRUE]
            /\ proc' = [done EXCEPT ![Closer].drop = <<be[b].key>>, ![Closer].todo = Free]
    /\ UNCHANGED <<draining, closed, tokens, sendq, idle, waiters>>

\* The steps that free one slot after another, for as many keys as there are.
FreeAll(n) == [i \in 1 .. 2 * n |-> IF i % 2 = 1 THEN "freeTotal" ELSE "freeRole"]

\* The keys of the idle backends at the places S, a place being a key and a
\* position in its list, in some order: the lists hang off a map.
Dropped(S) ==
    {f \in [1 .. Cardinality(S) -> {x[1] : x \in S}] :
        \A k \in Keys : Cardinality({i \in DOMAIN f : f[i] = k}) = Cardinality({x \in S : x[1] = k})}

IdlePlaces == UNION {{<<k, i>> : i \in DOMAIN idle[k]} : k \in Keys}

KeptOf(k, S) ==
    LET kept == SetToSortSeq({i \in DOMAIN idle[k] : <<k, i>> \notin S}, <) IN
    [j \in DOMAIN kept |-> idle[k][kept[j]]]

\* reapOnce takes the expired backends off the lists, closes them and frees
\* their slots, and then wakes for each.
ReapOnce ==
    /\ MayExpire /\ ~closed
    /\ Outside(Reaper)
    /\ \E S \in SUBSET IdlePlaces \ {{}} : \E f \in Dropped(S) :
        /\ idle' = [k \in Keys |-> KeptOf(k, S)]
        /\ proc' = [proc EXCEPT ![Reaper].key = f, ![Reaper].drop = f,
                                ![Reaper].todo = FreeAll(Len(f)) \o <<"wake">>]
    /\ UNCHANGED <<draining, closed, tokens, sendq, waiters, be>>

ReapWake ==
    LET dead == Key(Reaper) IN
    /\ At(Reaper, "wake")
    /\ WakeFirst([q \in Queues |-> IF q = Shard THEN Len(dead)
                                   ELSE Cardinality({i \in DOMAIN dead : dead[i] = q})],
                 [proc EXCEPT ![Reaper] = NewProc])
    /\ UNCHANGED <<draining, closed, tokens, idle, be>>

\* Close wakes every waiter and closes the idle backends.
Close ==
    /\ Outside(Closer) /\ ~closed
    /\ draining
    /\ closed' = TRUE
    /\ \E f \in Dropped(IdlePlaces) :
        WakeAll([proc EXCEPT ![Closer].drop = f, ![Closer].todo = FreeAll(Len(f))])
    /\ idle' = [k \in Keys |-> <<>>]
    /\ UNCHANGED <<draining, tokens, be>>

Step(p) ==
    \/ FreeTotal(p) \/ FreeRole(p)
    \/ PopIdle(p) \/ TrySem(p)
    \/ AwaitSlot(p) \/ EvictIdleOfRole(p) \/ SelectRole(p) \/ LeaveRole(p)
    \/ TryTotal(p) \/ ParkBudget(p) \/ EvictIdle(p) \/ SelectBudget(p) \/ Woken(p) \/ LeaveBudget(p)
    \/ GiveBack(p) \/ CheckClosed(p) \/ Dial(p)

Next ==
    \/ \E p \in All : Step(p)
    \/ \E p \in Procs : Timeout(p)
    \/ \E p \in Procs, k \in Keys, d \in Digests : Acquire(p, k, d)
    \/ \E p \in Procs, sound \in BOOLEAN : Release(p, sound)
    \/ Drain
    \/ \E p \in Procs : Snapshot(p)
    \/ Abandon
    \/ ReapOnce \/ ReapWake
    \/ Close

Spec == Init /\ [][Next]_vars

(***************************************************************************)
(* Properties                                                              *)
(***************************************************************************)
Steps == {"freeTotal", "freeRole", "pop", "try", "park", "evictRole", "selectRole", "asleepRole",
          "leaveRole", "total", "parkBudget", "evict", "selectBudget", "asleepBudget", "woken",
          "leaveBudget", "giveBack", "dial", "dialling", "abandon", "wake"}

\* The state keeps its types: semaphores within their capacity, and every list
\* and queue made of backends and of goroutines.
TypeOK ==
    /\ closed \in BOOLEAN /\ draining \in BOOLEAN
    /\ \A c \in Chans : tokens[c] \in 0 .. Cap(c) /\ Range(sendq[c]) \subseteq Procs
    /\ \A k \in Keys : Range(idle[k]) \subseteq Backends
    /\ \A q \in Queues : Range(waiters[q]) \subseteq Procs
    /\ \A b \in Backends : be[b].key \in Keys \cup {None} /\ be[b].released \in BOOLEAN
    /\ \A p \in All : Range(proc[p].todo) \subseteq Steps /\ proc[p].b \in Backends \cup {None}

Has(p, step) == step \in Range(proc[p].todo)
Count(S) == Cardinality(S)
Out == {b \in Backends : ~be[b].released /\ \E p \in Procs : proc[p].b = b}

\* Slots of the shard's budget a goroutine has in hand besides backends: one
\* for a dial in progress and one for each backend it has yet to free.
InHand(p) ==
    Count({i \in DOMAIN proc[p].todo : proc[p].todo[i] \in {"freeTotal", "dial", "dialling"}})

\* "Budget slots count existing backends, idle or held": the tokens in the
\* shard-wide semaphore are exactly the idle backends, the backends handed
\* out and not yet returned, and the slots a goroutine is about to use or to
\* free, and each backend is in one of those places only. A slot freed twice
\* or never, or a backend handed to two sessions, would break the limit. In a
\* closed pool no backend is idle: one returned while or after Close runs is
\* closed, not kept.
SlotsAccounted ==
    /\ tokens[Shard] = Count(IdlePlaces) + Count(Out) + MapThenSumSet(InHand, All)
    /\ \A b \in Out : /\ Count({p \in Procs : proc[p].b = b}) = 1
                       /\ \A k \in Keys : b \notin Range(idle[k])
    /\ Count(IdlePlaces) = Count(UNION {Range(idle[k]) : k \in Keys})
    /\ closed => IdlePlaces = {}

\* No goroutine is between two steps of the pool's code: each is outside,
\* holds a backend, or is blocked.
Quiet == \A p \in All : proc[p].todo \in {<<>>, <<"asleepRole">>, <<"asleepBudget">>}

\* A waiter is never left asleep beside what it waits for: when nothing is
\* moving, a goroutine blocked for a role has no idle backend in its own pool
\* and no free slot of its role, and one blocked for the budget no free slot.
WaiterServed ==
    Quiet => \A p \in Procs :
        /\ At(p, "asleepRole") => idle[Key(p)] = <<>> /\ Full(RoleOf(Key(p)))
        /\ At(p, "asleepBudget") => Full(Shard)
=============================================================================
