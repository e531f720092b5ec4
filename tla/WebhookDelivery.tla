-------------------------- MODULE WebhookDelivery ---------------------------
(***************************************************************************)
(* The receipt of webhooks: POST /webhooks, its replay protection          *)
(* (dedupStore.claim), the queue between it and POST /processHooks, and    *)
(* the start of the events.  The SCM sends a delivery again when it got an *)
(* error, or no answer yet.                                                *)
(*                                                                         *)
(* A request is a pair <<h, a>>: the a-th sending of delivery h.           *)
(***************************************************************************)
EXTENDS Naturals, FiniteSets

CONSTANTS
    Hooks,      \* deliveries
    Id,         \* Id[h], the x-github-delivery of h
    Context,    \* Context[h], the scmContext of h
    Pipelines,  \* the pipelines triggeredPipelines finds
    Configs,    \* configurations a behaviour may have, see ConfigType
    MaxSends,   \* bound: MaxSends[h], sendings of h
    MaxFails    \* bound: failures

ConfigType(Processes) ==
    [enabled : BOOLEAN,           \* webhooks.replayProtection.enabled
     redis : BOOLEAN,             \* lock.redis exists; else one map per process
     redisFails : BOOLEAN,        \* a call to Redis may be rejected
     expires : BOOLEAN,           \* the TTL may end while the SCM still sends
     queue : BOOLEAN,             \* queueWebhookEnabled, and the executor implements it
     processes : SUBSET Processes] \* the processes of the API

Attempts(h) == 1 .. MaxSends[h]
Requests == UNION {{h} \X Attempts(h) : h \in Hooks}

VARIABLES
    conf,    \* the configuration
    redis,   \* keys set in Redis
    seen,    \* seen[r], dedupStore.memorySeen of process r
    at,      \* at[q], the process that handles request q
    pc,      \* pc[q]
    todo,    \* todo[q], pipelines in which q has not tried to create its event
    ok,      \* ok[q], q has created an event
    answer,  \* answer[q], the status sent to the SCM
    fails,   \* failures so far
    runs     \* history: runs[h][p], the events h has started in p

vars == <<conf, redis, seen, at, pc, todo, ok, answer, fails, runs>>

Processes == UNION {c.processes : c \in Configs}
NoProcess == "none"

ASSUME DeliveryAssumption ==
    /\ \A c \in Configs : c \in ConfigType(Processes) /\ IsFiniteSet(c.processes)
    /\ \A h \in Hooks : MaxSends[h] \in Nat \ {0}
    /\ MaxFails \in Nat

\* dedupKey; wrong: a key without the context.
KeyOfId(h) == <<"webhook", Id[h]>>
Key(h) == <<Context[h], Id[h]>>
Keys == {Key(h) : h \in Hooks}

TypeOK ==
    /\ conf \in Configs
    /\ redis \subseteq Keys
    /\ seen \in [Processes -> SUBSET Keys]
    /\ at \in [Requests -> Processes \cup {NoProcess}]
    /\ pc \in [Requests -> {"unsent", "claim", "enqueue", "queued", "start", "done"}]
    /\ todo \in [Requests -> SUBSET Pipelines]
    /\ ok \in [Requests -> BOOLEAN]
    /\ answer \in [Requests -> {"none", "201", "204", "500"}]
    /\ fails \in 0 .. MaxFails
    /\ runs \in [Hooks -> [Pipelines -> Nat]]

Init ==
    /\ conf \in Configs
    /\ redis = {}
    /\ seen = [r \in Processes |-> {}]
    /\ at = [q \in Requests |-> NoProcess]
    /\ pc = [q \in Requests |-> "unsent"]
    /\ todo = [q \in Requests |-> {}]
    /\ ok = [q \in Requests |-> FALSE]
    /\ answer = [q \in Requests |-> "none"]
    /\ fails = 0
    /\ runs = [h \in Hooks |-> [p \in Pipelines |-> 0]]

-----------------------------------------------------------------------------
\* The SCM sends h for the a-th time, after an error or while it has no answer.
Send(h, a) ==
    /\ pc[<<h, a>>] = "unsent"
    /\ a > 1 => /\ pc[<<h, a - 1>>] # "unsent"
                /\ answer[<<h, a - 1>>] \in {"none", "500"}
    /\ pc' = [pc EXCEPT ![<<h, a>>] = "claim"]
    /\ \E r \in conf.processes : at' = [at EXCEPT ![<<h, a>>] = r]
    /\ UNCHANGED <<conf, redis, seen, todo, ok, answer, fails, runs>>

\* The keys the process of q finds taken.
Claimed(q) == IF conf.redis THEN redis ELSE seen[at[q]]

\* Wrong: the key is tested and not stored.
TestKey(q) == Key(q[1]) \notin Claimed(q) /\ UNCHANGED <<redis, seen>>

\* SET NX EX, or has and set of the map: test and set are one step.
TakeKey(q) ==
    /\ Key(q[1]) \notin Claimed(q)
    /\ IF conf.redis
       THEN redis' = redis \cup {Key(q[1])} /\ UNCHANGED seen
       ELSE seen' = [seen EXCEPT ![at[q]] = @ \cup {Key(q[1])}] /\ UNCHANGED redis

\* claim resolves to true: the key was free, there is no protection, or Redis
\* rejects the call.
ClaimFresh(q) ==
    /\ pc[q] = "claim"
    /\ \/ conf.enabled /\ TakeKey(q)
       \/ ~conf.enabled /\ UNCHANGED <<redis, seen>>
       \/ conf.enabled /\ conf.redis /\ conf.redisFails /\ UNCHANGED <<redis, seen>>
    /\ pc' = [pc EXCEPT ![q] = IF conf.queue THEN "enqueue" ELSE "start"]
    /\ todo' = [todo EXCEPT ![q] = Pipelines]
    /\ UNCHANGED <<conf, at, ok, answer, fails, runs>>

\* claim resolves to false: 204 and nothing else.
ClaimDuplicate(q) ==
    /\ pc[q] = "claim"
    /\ conf.enabled /\ Key(q[1]) \in Claimed(q)
    /\ pc' = [pc EXCEPT ![q] = "done"]
    /\ answer' = [answer EXCEPT ![q] = "204"]
    /\ UNCHANGED <<conf, redis, seen, at, todo, ok, fails, runs>>

\* executor.enqueueWebhook: the SCM has its answer, the queue-service the hook.
Enqueue(q) ==
    /\ pc[q] = "enqueue"
    /\ pc' = [pc EXCEPT ![q] = "queued"]
    /\ answer' = [answer EXCEPT ![q] = "201"]
    /\ UNCHANGED <<conf, redis, seen, at, todo, ok, fails, runs>>

\* POST /processHooks: the queue-service calls startHookEvent, in any process.
ProcessHook(q) ==
    /\ pc[q] = "queued"
    /\ pc' = [pc EXCEPT ![q] = "start"]
    /\ \E r \in conf.processes : at' = [at EXCEPT ![q] = r]
    /\ UNCHANGED <<conf, redis, seen, todo, ok, answer, fails, runs>>

\* startEvents: createEvent of one pipeline succeeds or is rejected; the
\* others go on (Promise.allSettled).
StartOne(q, p) ==
    /\ pc[q] = "start" /\ p \in todo[q]
    /\ todo' = [todo EXCEPT ![q] = @ \ {p}]
    /\ \/ /\ runs' = [runs EXCEPT ![q[1]][p] = @ + 1]
          /\ ok' = [ok EXCEPT ![q] = TRUE]
          /\ UNCHANGED fails
       \/ /\ fails < MaxFails /\ fails' = fails + 1
          /\ UNCHANGED <<runs, ok>>
    /\ UNCHANGED <<conf, redis, seen, at, pc, answer>>

\* Wrong ends: the answer does not look at the failures; it waits for a success.
SettleOk(q) ==
    /\ pc[q] = "start" /\ todo[q] = {}
    /\ pc' = [pc EXCEPT ![q] = "done"]
    /\ answer' = [answer EXCEPT ![q] = IF @ # "none" THEN @ ELSE "201"]
    /\ UNCHANGED <<conf, redis, seen, at, todo, ok, fails, runs>>
SettleAny(q) == ok[q] /\ SettleOk(q)

\* All have settled: an error only if each failed.
Settle(q) ==
    /\ pc[q] = "start" /\ todo[q] = {}
    /\ pc' = [pc EXCEPT ![q] = "done"]
    /\ answer' = [answer EXCEPT ![q] = IF @ # "none" THEN @ ELSE IF ok[q] THEN "201" ELSE "500"]
    /\ UNCHANGED <<conf, redis, seen, at, todo, ok, fails, runs>>

\* Reading the SCM or the queue fails after the claim: the SCM gets an error
\* unless it has been answered.
Throw(q) ==
    /\ pc[q] \in {"enqueue", "start"} /\ todo[q] = Pipelines
    /\ fails < MaxFails /\ fails' = fails + 1
    /\ pc' = [pc EXCEPT ![q] = "done"]
    /\ answer' = [answer EXCEPT ![q] = IF @ = "none" THEN "500" ELSE @]
    /\ UNCHANGED <<conf, redis, seen, at, todo, ok, runs>>

\* The TTL of a key ends, in Redis or by setTimeout.
Expire(k) ==
    /\ conf.expires
    /\ k \in redis \cup UNION {seen[r] : r \in Processes}
    /\ redis' = redis \ {k}
    /\ seen' = [r \in Processes |-> seen[r] \ {k}]
    /\ UNCHANGED <<conf, at, pc, todo, ok, answer, fails, runs>>

Handle(q) ==
    \/ ClaimFresh(q)
    \/ ClaimDuplicate(q)
    \/ Enqueue(q)
    \/ ProcessHook(q)
    \/ \E p \in Pipelines : StartOne(q, p)
    \/ Settle(q)

Next ==
    \/ \E h \in Hooks : \E a \in Attempts(h) : Send(h, a)
    \/ \E q \in Requests : Handle(q) \/ Throw(q)
    \/ \E k \in Keys : Expire(k)

Spec == Init /\ [][Next]_vars

\* A handler that has begun goes on, and the queue-service delivers.
FairSpec == Spec /\ \A q \in Requests : WF_vars(Handle(q))

-----------------------------------------------------------------------------
\* The configurations in which a claim is seen by every process as long as
\* the SCM sends: Redis that answers, or a single process; and no expiry.
Protected ==
    /\ conf.enabled /\ ~conf.expires
    /\ IF conf.redis THEN ~conf.redisFails ELSE Cardinality(conf.processes) = 1

\* The promise of the replay protection, as a refinement: whatever the SCM
\* repeats and whatever fails, a delivery starts at most one event in a
\* pipeline.  Its effect is the number of events it has created.
Effect == [h \in Hooks |-> [p \in Pipelines |-> IF Protected THEN runs[h][p] ELSE 0]]

Once == INSTANCE HookOnce WITH effect <- Effect

AtMostOnce == Once!OnceSpec

Settled(h) ==
    /\ pc[<<h, 1>>] = "done"
    /\ \A a \in Attempts(h) : pc[<<h, a>>] \in {"unsent", "done"}

\* Fail open: protection never swallows a delivery.  As long as nothing has
\* failed, a delivery whose requests have all been handled has started its
\* event in every pipeline, also if Redis rejects calls, the TTL ends, or
\* another SCM uses the same delivery id (dedupStore.js:75, index.js:108).
NothingSwallowed ==
    fails = 0 => \A h \in Hooks : Settled(h) => \A p \in Pipelines : runs[h][p] >= 1

\* A delivery that started nothing was reported: without the queue, the SCM
\* got an error for one of its requests, even if the repeated one was then
\* answered 204 because the key had been claimed (index.js:109).
LossReported ==
    \A h \in Hooks :
        /\ ~conf.queue /\ Settled(h)
        /\ \A p \in Pipelines : runs[h][p] = 0
        => \E a \in Attempts(h) : answer[<<h, a>>] = "500"

\* Every request that arrives is handled to its end: whenever some are at work,
\* there comes a time when all have been.
EveryHookHandled ==
    (\E q \in Requests : pc[q] \notin {"unsent", "done"}) ~> (\A q \in Requests : pc[q] \in {"unsent", "done"})
=============================================================================
