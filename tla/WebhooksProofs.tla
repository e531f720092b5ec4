---------------------------- MODULE WebhooksProofs ----------------------------
(***************************************************************************)
(* What webhooks keep, for any deliveries, processes, hooks and failures.  *)
(*                                                                         *)
(* ImplementsOnce: a delivery starts at most one event in a pipeline if    *)
(* its claim is seen by all processes.  The argument is that of a lock     *)
(* which is never given back: the first request to take the key is the     *)
(* only one of its delivery that goes on.                                  *)
(*                                                                         *)
(* NoneSwallowed and NoSilentLoss: a key that is taken has a request that  *)
(* goes on, or has come to its end, so one that finds it taken may stop.   *)
(*                                                                         *)
(* HookJustified: the events of a hook come from the list of pipelines it  *)
(* has found and not left out, and an error is answered before any event.  *)
(*                                                                         *)
(* OlderStopped: a hook that stops is always on its way to the builds that *)
(* ran when it came (their pipeline, their job or they themselves are on   *)
(* its lists), and no close archives their job before it has done so.      *)
(*                                                                         *)
(* ClosedQuiet: as long as the closes of a PR had nothing beside them, a   *)
(* first build never runs without its job, a close stops it before it      *)
(* archives the job, and leaves no job active until the next hook.         *)
(***************************************************************************)
EXTENDS Webhooks, FiniteSetTheorems, TLAPS

States == {"unsent", "claim", "enqueue", "queued", "start", "done"}

Typed ==
    /\ conf \in Configs
    /\ seen \in [Processes -> SUBSET Keys]
    /\ at \in [Requests -> Processes \cup {NoProcess}]
    /\ pc \in [Requests -> States]
    /\ todo \in [Requests -> SUBSET Pipelines]
    /\ runs \in [Hooks -> [Pipelines -> Nat]]

Located == \A q \in Requests : pc[q] # "unsent" => at[q] \in conf.processes

\* A request that has claimed its delivery and goes on.
Going(q) == pc[q] \in {"enqueue", "queued", "start"}

Taken(h) == \E r \in conf.processes : Key(h) \in (IF conf.redis THEN redis ELSE seen[r])

Unclaimed == \A h \in Hooks : ~Taken(h) => /\ \A p \in Pipelines : runs[h][p] = 0
                                           /\ \A q \in Requests : q[1] = h => ~Going(q)
Single  == \A q, t \in Requests : Going(q) /\ Going(t) /\ q[1] = t[1] => q = t
Untried == \A q \in Requests : Going(q) => \A p \in todo[q] : runs[q[1]][p] = 0

OnceInv == Unclaimed /\ Single /\ Untried

IInv == Typed /\ Located /\ (Protected => OnceInv)

-----------------------------------------------------------------------------
LEMMA RequestOf == \A q \in Requests : q[1] \in Hooks
BY DEF Requests, Attempts

LEMMA SentOf == \A h \in Hooks : \A a \in Attempts(h) : <<h, a>> \in Requests
BY DEF Requests

\* What a request finds claimed is claimed for all requests.
LEMMA OneView ==
    ASSUME Typed, Protected,
           NEW q \in Requests, at[q] \in conf.processes
    PROVE  Key(q[1]) \in Claimed(q) <=> Taken(q[1])
<1>1. CASE conf.redis
  BY <1>1 DEF Claimed, Taken
<1>2. CASE ~conf.redis
  <2>1. IsFiniteSet(conf.processes) /\ Cardinality(conf.processes) = 1
    BY <1>2, DeliveryAssumption DEF ConfigType, Typed, Protected
  <2>2. PICK r : conf.processes = {r}
    BY <2>1, FS_Singleton
  <2> QED
    BY <1>2, <2>2 DEF Claimed, Taken
<1> QED
  BY <1>1, <1>2

LEMMA InitInv == ASSUME Init PROVE IInv
<1>1. Typed
  BY DEF Init, Typed, States, Keys
<1>2. \A q \in Requests : pc[q] = "unsent"
  BY DEF Init
<1>3. \A h \in Hooks : \A p \in Pipelines : runs[h][p] = 0
  BY DEF Init
<1> QED
  BY <1>1, <1>2, <1>3 DEF IInv, Located, OnceInv, Unclaimed, Single, Untried, Going

-----------------------------------------------------------------------------
(* The steps *)

\* A step that starts nothing, and after which no other request goes on.
LEMMA Quiet ==
    ASSUME IInv, Typed', Located', UNCHANGED <<conf, redis, seen, todo, runs>>,
           \A q \in Requests : Going(q)' => Going(q)
    PROVE  IInv'
<1>1. Protected' = Protected
  BY DEF Protected
<1>2. \A h \in Hooks : Taken(h)' = Taken(h)
  BY DEF Taken
<1>3. ASSUME OnceInv PROVE OnceInv'
  <2>1. Unclaimed'
    BY <1>2, <1>3 DEF OnceInv, Unclaimed
  <2>2. Single'
    BY <1>3 DEF OnceInv, Single
  <2>3. Untried'
    BY <1>3 DEF OnceInv, Untried
  <2> QED
    BY <2>1, <2>2, <2>3 DEF OnceInv
<1> QED
  BY <1>1, <1>3 DEF IInv

LEMMA SendInv ==
    ASSUME IInv, NEW h \in Hooks, NEW a \in Attempts(h), Send(h, a)
    PROVE  IInv'
<1> DEFINE s == <<h, a>>
<1>1. s \in Requests
  BY SentOf
<1>2. PICK r \in conf.processes : at' = [at EXCEPT ![s] = r]
  BY DEF Send
<1>3. r \in Processes
  BY DEF IInv, Typed, Processes
<1>4. /\ pc' = [pc EXCEPT ![s] = "claim"]
      /\ pc[s] = "unsent"
      /\ UNCHANGED <<conf, redis, seen, todo, runs>>
  BY DEF Send
<1>5. Typed'
  BY <1>1, <1>2, <1>3, <1>4 DEF IInv, Typed, States
<1>6. Located'
  BY <1>1, <1>2, <1>4 DEF IInv, Typed, Located
<1>7. \A q \in Requests : Going(q)' => Going(q)
  BY <1>1, <1>4 DEF IInv, Typed, Going
<1> QED
  BY <1>4, <1>5, <1>6, <1>7, Quiet

\* A request moves on to a state in which it no longer goes on, or still does.
LEMMA Onward ==
    ASSUME IInv, NEW q \in Requests, NEW new \in States, pc[q] # "unsent",
           pc' = [pc EXCEPT ![q] = new], new \in {"enqueue", "queued", "start"} => Going(q),
           UNCHANGED <<conf, redis, seen, at, todo, runs>>
    PROVE  IInv'
<1>1. Typed'
  BY DEF IInv, Typed
<1>2. Located'
  BY DEF IInv, Typed, Located
<1>3. \A t \in Requests : Going(t)' => Going(t)
  BY DEF IInv, Typed, Going
<1> QED
  BY <1>1, <1>2, <1>3, Quiet

\* The first request to take a key.
LEMMA ClaimInv ==
    ASSUME IInv, NEW q \in Requests, ClaimFresh(q)
    PROVE  IInv'
<1> DEFINE new == IF conf.queue THEN "enqueue" ELSE "start"
<1>1. /\ pc[q] = "claim" /\ pc' = [pc EXCEPT ![q] = new]
      /\ todo' = [todo EXCEPT ![q] = Pipelines]
      /\ UNCHANGED <<conf, at, runs>>
  BY DEF ClaimFresh
<1>2. at[q] \in conf.processes /\ at[q] \in Processes /\ q[1] \in Hooks
  BY <1>1, RequestOf DEF IInv, Located, Typed, Processes
<1>3. seen' \in [Processes -> SUBSET Keys]
  BY <1>2 DEF ClaimFresh, TakeKey, IInv, Typed, Keys
<1>4. Typed'
  BY <1>1, <1>3 DEF IInv, Typed, States
<1>5. Located'
  BY <1>1 DEF IInv, Typed, Located
<1>6. Protected' = Protected
  BY <1>1 DEF Protected
<1>7. ASSUME Protected PROVE OnceInv'
  <2>1. TakeKey(q)
    BY <1>7, <1>1 DEF ClaimFresh, Protected
  <2>2. ~Taken(q[1])
    BY <2>1, <1>2, <1>7, OneView DEF TakeKey, IInv
  <2>3. OnceInv
    BY <1>7 DEF IInv
  <2>4. Taken(q[1])'
    BY <2>1, <1>1, <1>2 DEF TakeKey, Taken, IInv, Typed
  <2>5. \A h \in Hooks : Taken(h) => Taken(h)'
    BY <2>1, <1>1, <1>2 DEF TakeKey, Taken, IInv, Typed, Processes
  <2>6. \A t \in Requests : t # q => Going(t)' = Going(t) /\ todo'[t] = todo[t]
    BY <1>1 DEF IInv, Typed, Going
  <2>7. \A t \in Requests : t[1] = q[1] => ~Going(t)
    BY <2>2, <2>3, <1>2 DEF OnceInv, Unclaimed
  <2>8. \A p \in Pipelines : runs[q[1]][p] = 0
    BY <2>2, <2>3, <1>2 DEF OnceInv, Unclaimed
  <2>9. Unclaimed'
    BY <2>3, <2>4, <2>5, <2>6, <1>1 DEF OnceInv, Unclaimed
  <2>10. Single'
    BY <2>3, <2>6, <2>7 DEF OnceInv, Single
  <2>11. todo'[q] = Pipelines
    BY <1>1 DEF IInv, Typed
  <2>12. Untried'
    BY <2>3, <2>6, <2>8, <2>11, <1>1 DEF OnceInv, Untried
  <2> QED
    BY <2>9, <2>10, <2>12 DEF OnceInv
<1> QED
  BY <1>4, <1>5, <1>6, <1>7 DEF IInv

\* An event is created, or the attempt fails.
LEMMA StartInv ==
    ASSUME IInv, NEW q \in Requests, NEW p \in Pipelines, StartOne(q, p)
    PROVE  /\ IInv'
           /\ runs' = runs \/ /\ runs' = [runs EXCEPT ![q[1]][p] = @ + 1]
                              /\ Protected => runs[q[1]][p] = 0
<1>1. /\ pc[q] = "start" /\ p \in todo[q]
      /\ todo' = [todo EXCEPT ![q] = @ \ {p}]
      /\ runs' = runs \/ runs' = [runs EXCEPT ![q[1]][p] = @ + 1]
      /\ UNCHANGED <<conf, redis, seen, at, pc>>
  BY DEF StartOne
<1>2. q[1] \in Hooks
  BY RequestOf
<1>3. Typed'
  <2>1. todo' \in [Requests -> SUBSET Pipelines]
    BY <1>1 DEF IInv, Typed
  <2>2. CASE runs' = runs
    BY <1>1, <2>1, <2>2 DEF IInv, Typed
  <2>3. CASE runs' = [runs EXCEPT ![q[1]][p] = @ + 1]
    <3>1. runs \in [Hooks -> [Pipelines -> Nat]] /\ runs[q[1]][p] \in Nat
      BY <1>2 DEF IInv, Typed
    <3>2. runs' \in [Hooks -> [Pipelines -> Nat]]
      BY <2>3, <1>2, <3>1
    <3> QED
      BY <1>1, <2>1, <3>2 DEF IInv, Typed
  <2> QED
    BY <1>1, <2>2, <2>3
<1>4. Located'
  BY <1>1 DEF IInv, Located
<1>5. Protected' = Protected /\ \A h \in Hooks : Taken(h)' = Taken(h)
  BY <1>1 DEF Protected, Taken
<1>6. \A h \in Hooks, o \in Pipelines : h # q[1] \/ o # p => runs'[h][o] = runs[h][o]
  BY <1>1, <1>2 DEF IInv, Typed
<1>7. \A t \in Requests : /\ Going(t)' = Going(t) /\ todo'[t] \subseteq todo[t]
                          /\ todo[t] \subseteq Pipelines
                          /\ t = q => p \notin todo'[t]
  BY <1>1 DEF IInv, Typed, Going
<1>8. ASSUME Protected PROVE OnceInv' /\ runs[q[1]][p] = 0
  <2>1. OnceInv /\ Going(q)
    BY <1>1, <1>8 DEF IInv, Going
  <2>2. Taken(q[1])
    BY <2>1, <1>2 DEF OnceInv, Unclaimed
  <2>3. Unclaimed'
    BY <2>1, <2>2, <1>5, <1>6, <1>7 DEF OnceInv, Unclaimed
  <2>4. Single'
    BY <2>1, <1>7 DEF OnceInv, Single
  <2>5. Untried'
    <3> SUFFICES ASSUME NEW t \in Requests, Going(t)', NEW o \in todo'[t]
                 PROVE  runs'[t[1]][o] = 0
      BY DEF Untried
    <3>1. Going(t) /\ o \in todo[t] /\ o \in Pipelines /\ t[1] \in Hooks
      BY <1>7, RequestOf
    <3>2. runs[t[1]][o] = 0
      BY <3>1, <2>1 DEF OnceInv, Untried
    <3>3. t[1] # q[1] \/ o # p
      BY <3>1, <2>1, <1>7 DEF OnceInv, Single
    <3> QED
      BY <3>1, <3>2, <3>3, <1>6
  <2>6. runs[q[1]][p] = 0
    BY <2>1, <1>1 DEF OnceInv, Untried
  <2> QED
    BY <2>3, <2>4, <2>5, <2>6 DEF OnceInv
<1>9. IInv'
  BY <1>3, <1>4, <1>5, <1>8 DEF IInv
<1> QED
  BY <1>1, <1>8, <1>9

\* All other steps of a request, which start no event.
LEMMA OtherInv ==
    ASSUME IInv, NEW q \in Requests,
           ClaimDuplicate(q) \/ Enqueue(q) \/ ProcessHook(q) \/ Settle(q) \/ Throw(q)
    PROVE  IInv' /\ runs' = runs /\ conf' = conf
<1>1. CASE ClaimDuplicate(q)
  <2>1. /\ pc[q] = "claim" /\ pc' = [pc EXCEPT ![q] = "done"]
        /\ UNCHANGED <<conf, redis, seen, at, todo, runs>>
    BY <1>1 DEF ClaimDuplicate
  <2> QED
    BY <2>1, Onward DEF States
<1>2. CASE Enqueue(q)
  <2>1. /\ pc[q] = "enqueue" /\ pc' = [pc EXCEPT ![q] = "queued"]
        /\ UNCHANGED <<conf, redis, seen, at, todo, runs>>
    BY <1>2 DEF Enqueue
  <2> QED
    BY <2>1, Onward DEF States, Going
<1>3. CASE ProcessHook(q)
  <2>1. PICK r \in conf.processes : at' = [at EXCEPT ![q] = r]
    BY <1>3 DEF ProcessHook
  <2>2. /\ pc[q] = "queued" /\ pc' = [pc EXCEPT ![q] = "start"]
        /\ UNCHANGED <<conf, redis, seen, todo, runs>>
    BY <1>3 DEF ProcessHook
  <2>3. r \in Processes
    BY DEF IInv, Typed, Processes
  <2>4. Typed'
    BY <2>1, <2>2, <2>3 DEF IInv, Typed, States
  <2>5. Located'
    BY <2>1, <2>2 DEF IInv, Typed, Located
  <2>6. \A t \in Requests : Going(t)' => Going(t)
    BY <2>2 DEF IInv, Typed, Going
  <2> QED
    BY <2>2, <2>4, <2>5, <2>6, Quiet
<1>4. CASE Settle(q)
  <2>1. /\ pc[q] = "start" /\ pc' = [pc EXCEPT ![q] = "done"]
        /\ UNCHANGED <<conf, redis, seen, at, todo, runs>>
    BY <1>4 DEF Settle
  <2> QED
    BY <2>1, Onward DEF States
<1>5. CASE Throw(q)
  <2>1. /\ pc[q] # "unsent" /\ pc' = [pc EXCEPT ![q] = "done"]
        /\ UNCHANGED <<conf, redis, seen, at, todo, runs>>
    BY <1>5 DEF Throw
  <2> QED
    BY <2>1, Onward DEF States
<1> QED
  BY <1>1, <1>2, <1>3, <1>4, <1>5

\* A key that ends: not where the delivery is protected.
LEMMA ExpireInv ==
    ASSUME IInv, NEW k \in Keys, Expire(k)
    PROVE  IInv'
<1>1. /\ ~Protected /\ ~Protected'
      /\ UNCHANGED <<conf, at, pc, todo, runs>>
  BY DEF Expire, Protected
<1>2. seen' \in [Processes -> SUBSET Keys]
  BY DEF Expire, IInv, Typed
<1>3. Typed' /\ Located'
  BY <1>1, <1>2 DEF IInv, Typed, Located
<1> QED
  BY <1>1, <1>3 DEF IInv

-----------------------------------------------------------------------------
\* A step that creates an event is a step of HookOnce, if there is none yet.
LEMMA EffectStep ==
    ASSUME Typed, conf' = conf, NEW h \in Hooks, NEW p \in Pipelines,
           runs' = [runs EXCEPT ![h][p] = @ + 1], Protected => runs[h][p] = 0
    PROVE  [Once!OnceNext]_Effect
<1>1. Protected' = Protected
  BY DEF Protected
<1>2. CASE Protected
  <2>1. Effect[h][p] = 0
    BY <1>2 DEF Effect
  <2>2. Effect' = [Effect EXCEPT ![h][p] = 1]
    <3>1. \A g \in Hooks, o \in Pipelines :
            runs'[g][o] = IF g = h /\ o = p THEN 1 ELSE runs[g][o]
      BY <1>2 DEF Typed
    <3>2. Effect' = [g \in Hooks |-> [o \in Pipelines |-> runs'[g][o]]]
      BY <1>1, <1>2 DEF Effect
    <3>3. Effect = [g \in Hooks |-> [o \in Pipelines |-> runs[g][o]]]
      BY <1>2 DEF Effect
    <3>4. Effect' = [g \in Hooks |->
                       IF g = h THEN [o \in Pipelines |-> IF o = p THEN 1 ELSE runs[g][o]]
                                ELSE [o \in Pipelines |-> runs[g][o]]]
      BY <3>1, <3>2
    <3>5. [Effect EXCEPT ![h][p] = 1]
             = [g \in Hooks |->
                  IF g = h THEN [o \in Pipelines |-> IF o = p THEN 1 ELSE runs[g][o]]
                           ELSE [o \in Pipelines |-> runs[g][o]]]
      BY <3>3
    <3> QED
      BY <3>4, <3>5
  <2> QED
    BY <2>1, <2>2 DEF Once!OnceNext, Once!TakeEffect
<1>3. CASE ~Protected
  BY <1>1, <1>3 DEF Effect
<1> QED
  BY <1>2, <1>3

LEMMA NoEffect == ASSUME conf' = conf, runs' = runs PROVE Effect' = Effect
BY DEF Effect, Protected

LEMMA NextInv ==
    ASSUME IInv, [Next]_vars
    PROVE  IInv' /\ [Once!OnceNext]_Effect
<1>1. ASSUME NEW h \in Hooks, NEW a \in Attempts(h), Send(h, a)
      PROVE  IInv' /\ Effect' = Effect
  BY <1>1, SendInv, NoEffect DEF Send
<1>2. ASSUME NEW q \in Requests, ClaimFresh(q)
      PROVE  IInv' /\ Effect' = Effect
  BY <1>2, ClaimInv, NoEffect DEF ClaimFresh
<1>3. ASSUME NEW q \in Requests,
             ClaimDuplicate(q) \/ Enqueue(q) \/ ProcessHook(q) \/ Settle(q) \/ Throw(q)
      PROVE  IInv' /\ Effect' = Effect
  BY <1>3, OtherInv, NoEffect
<1>4. ASSUME NEW q \in Requests, NEW p \in Pipelines, StartOne(q, p)
      PROVE  IInv' /\ [Once!OnceNext]_Effect
  <2>1. conf' = conf /\ q[1] \in Hooks
    BY <1>4, RequestOf DEF StartOne
  <2>2. IInv' /\ (runs' = runs \/ /\ runs' = [runs EXCEPT ![q[1]][p] = @ + 1]
                                  /\ Protected => runs[q[1]][p] = 0)
    BY <1>4, StartInv
  <2>3. CASE runs' = runs
    BY <2>1, <2>2, <2>3, NoEffect
  <2>4. CASE runs' = [runs EXCEPT ![q[1]][p] = @ + 1] /\ (Protected => runs[q[1]][p] = 0)
    BY <2>1, <2>2, <2>4, EffectStep DEF IInv
  <2> QED
    BY <2>2, <2>3, <2>4
<1>5. ASSUME NEW k \in Keys, Expire(k)
      PROVE  IInv' /\ Effect' = Effect
  BY <1>5, ExpireInv, NoEffect DEF Expire
<1>6. CASE UNCHANGED vars
  <2>1. IInv'
    BY <1>6 DEF vars, IInv, Typed, Located, Protected, OnceInv, Unclaimed, Single, Untried,
                Going, Taken
  <2> QED
    BY <1>6, <2>1, NoEffect DEF vars
<1> QED
  BY <1>1, <1>2, <1>3, <1>4, <1>5, <1>6 DEF Next, Handle

LEMMA InitEffect == ASSUME Init PROVE Once!OnceInit
BY DEF Init, Effect, Once!OnceInit

\* However often the SCM sends a delivery and whatever fails, it starts at most
\* one event in a pipeline as long as its claim holds for all processes
\* (webhooks/index.js:103, dedupStore.js:102).
THEOREM ImplementsOnce == Spec => AtMostOnce
<1>1. Init => IInv /\ Once!OnceInit
  BY InitInv, InitEffect
<1>2. IInv /\ [Next]_vars => IInv' /\ [Once!OnceNext]_Effect
  BY NextInv
<1> QED
  BY <1>1, <1>2, PTL DEF Spec, AtMostOnce, Once!OnceSpec

-----------------------------------------------------------------------------
(* Fail open: what has been claimed is being processed, or has been.  Two  *)
(* deliveries with one key swallow each other, so keys are distinct.       *)

DistinctKeys == \A g, h \in Hooks : Key(g) = Key(h) => g = h

Kept        == redis \cup UNION {seen[r] : r \in Processes}
Started(h)  == \A p \in Pipelines : runs[h][p] >= 1
OnItsWay(h) == Started(h) \/ \E q \in Requests : q[1] = h /\ Going(q)
Tried(q)    == \A p \in Pipelines : p \in todo[q] \/ runs[q[1]][p] >= 1

KeysKept  == \A h \in Hooks : Key(h) \in Kept => OnItsWay(h)
DoneKept  == \A q \in Requests : pc[q] = "done" => OnItsWay(q[1])
TriedKept == \A q \in Requests : Going(q) => Tried(q)

Keeping == KeysKept /\ DoneKept /\ TriedKept

KInv == IInv /\ fails \in Nat /\ (fails = 0 => Keeping)

LEMMA InitKeeping == ASSUME Init PROVE KInv
<1>1. Kept = {}
  BY DEF Init, Kept
<1>2. \A q \in Requests : pc[q] = "unsent"
  BY DEF Init
<1> QED
  BY <1>1, <1>2, InitInv DEF Init, KInv, Keeping, KeysKept, DoneKept, TriedKept, Going

\* Failures and events are never taken back.
LEMMA Growing ==
    ASSUME KInv, [Next]_vars
    PROVE  /\ fails' \in Nat /\ (fails' = 0 => fails = 0 /\ fails' = fails)
           /\ \A h \in Hooks, p \in Pipelines : runs[h][p] >= 1 => runs'[h][p] >= 1
<1>1. runs \in [Hooks -> [Pipelines -> Nat]] /\ fails \in Nat
  BY DEF KInv, IInv, Typed
<1>2. CASE runs' = runs /\ fails' = fails
  BY <1>1, <1>2
<1>3. CASE runs' = runs /\ fails' = fails + 1
  BY <1>1, <1>3
<1>4. ASSUME NEW q \in Requests, NEW p \in Pipelines, fails' = fails,
             runs' = [runs EXCEPT ![q[1]][p] = @ + 1]
      PROVE  \A h \in Hooks, o \in Pipelines : runs[h][o] >= 1 => runs'[h][o] >= 1
  BY <1>1, <1>4, RequestOf
<1>5. \/ runs' = runs /\ (fails' = fails \/ fails' = fails + 1)
      \/ \E q \in Requests, p \in Pipelines :
           fails' = fails /\ runs' = [runs EXCEPT ![q[1]][p] = @ + 1]
  BY DEF Next, vars, Handle, Send, ClaimFresh, ClaimDuplicate, Enqueue, ProcessHook, StartOne,
         Settle, Throw, Expire
<1> QED
  BY <1>1, <1>2, <1>3, <1>4, <1>5

\* Only request q moves, and what it leaves undone goes on or has been started.
LEMMA KeepOn ==
    ASSUME KInv, Keeping, [Next]_vars, NEW q \in Requests,
           \A t \in Requests : t # q => pc'[t] = pc[t] /\ todo'[t] = todo[t],
           \A h \in Hooks : Key(h) \in Kept' => Key(h) \in Kept \/ OnItsWay(h)',
           Going(q) => Going(q)' \/ Started(q[1])',
           pc'[q] = "done" => OnItsWay(q[1])',
           Going(q)' => Tried(q)'
    PROVE  Keeping'
<1>1. \A h \in Hooks, p \in Pipelines : runs[h][p] >= 1 => runs'[h][p] >= 1
  BY Growing
<1>2. \A h \in Hooks : OnItsWay(h) => OnItsWay(h)'
  <2>1. ASSUME NEW h \in Hooks, Started(h) PROVE OnItsWay(h)'
    BY <2>1, <1>1 DEF Started, OnItsWay
  <2>2. ASSUME NEW h \in Hooks, NEW t \in Requests, t[1] = h, Going(t) PROVE OnItsWay(h)'
    <3>1. CASE t = q
      BY <2>2, <3>1 DEF OnItsWay
    <3>2. CASE t # q
      BY <2>2, <3>2 DEF OnItsWay, Going
    <3> QED
      BY <3>1, <3>2
  <2> QED
    BY <2>1, <2>2 DEF OnItsWay
<1>3. KeysKept'
  BY <1>2 DEF Keeping, KeysKept
<1>4. DoneKept'
  BY <1>2, RequestOf DEF Keeping, DoneKept
<1>5. TriedKept'
  <2>1. ASSUME NEW t \in Requests, t # q, Going(t)' PROVE Tried(t)'
    BY <2>1, <1>1, RequestOf DEF Keeping, TriedKept, Tried, Going
  <2> QED
    BY <2>1 DEF TriedKept
<1> QED
  BY <1>3, <1>4, <1>5 DEF Keeping

\* The answer to a repeated delivery: the one that took the key goes on.
LEMMA KeepDuplicate ==
    ASSUME KInv, Keeping, NEW q \in Requests, ClaimDuplicate(q)
    PROVE  Keeping'
<1>1. /\ pc[q] = "claim" /\ pc' = [pc EXCEPT ![q] = "done"]
      /\ Key(q[1]) \in Claimed(q)
      /\ UNCHANGED <<conf, redis, seen, at, todo, fails, runs>>
  BY DEF ClaimDuplicate
<1>2. at[q] \in Processes
  BY <1>1 DEF KInv, IInv, Located, Typed, Processes
<1>3. Key(q[1]) \in Kept
  BY <1>1, <1>2 DEF Claimed, Kept
<1>4. OnItsWay(q[1])
  BY <1>3, RequestOf DEF Keeping, KeysKept
<1>5. \A t \in Requests : t # q => Going(t)' = Going(t)
  BY <1>1 DEF Going
<1>6. ~Going(q)
  BY <1>1 DEF Going
<1>7. OnItsWay(q[1])'
  <2>1. CASE Started(q[1])
    BY <1>1, <2>1 DEF Started, OnItsWay
  <2>2. CASE \E t \in Requests : t[1] = q[1] /\ Going(t)
    BY <1>5, <1>6, <2>2 DEF OnItsWay
  <2> QED
    BY <1>4, <2>1, <2>2 DEF OnItsWay
<1>8. pc'[q] = "done" /\ ~Going(q)'
  BY <1>1 DEF KInv, IInv, Typed, Going
<1> QED
  <2>1. [Next]_vars
    BY DEF Next, Handle
  <2>2. \A t \in Requests : t # q => pc'[t] = pc[t] /\ todo'[t] = todo[t]
    BY <1>1
  <2>3. Kept' = Kept
    BY <1>1 DEF Kept
  <2>4. \A h \in Hooks : Key(h) \in Kept' => Key(h) \in Kept
    BY <2>3 DEF Key
  <2> QED
    BY <1>6, <1>7, <1>8, <2>1, <2>2, <2>4, KeepOn

\* The first request of a delivery.
LEMMA KeepFresh ==
    ASSUME DistinctKeys, KInv, Keeping, NEW q \in Requests, ClaimFresh(q)
    PROVE  Keeping'
<1>1. /\ pc[q] = "claim"
      /\ pc' = [pc EXCEPT ![q] = IF conf.queue THEN "enqueue" ELSE "start"]
      /\ todo' = [todo EXCEPT ![q] = Pipelines]
  BY DEF ClaimFresh
<1>2. at[q] \in Processes /\ q[1] \in Hooks
  BY <1>1, RequestOf DEF KInv, IInv, Located, Typed, Processes
<1>3. Kept' \subseteq Kept \cup {Key(q[1])}
  <2>1. /\ redis' \subseteq redis \cup {Key(q[1])}
        /\ seen' = seen \/ seen' = [seen EXCEPT ![at[q]] = @ \cup {Key(q[1])}]
    BY DEF ClaimFresh, TakeKey
  <2>2. \A r \in Processes : seen'[r] \subseteq seen[r] \cup {Key(q[1])}
    BY <1>2, <2>1 DEF KInv, IInv, Typed
  <2> QED
    BY <2>1, <2>2 DEF Kept
<1>4. Going(q)' /\ ~Going(q) /\ pc'[q] # "done"
  BY <1>1 DEF KInv, IInv, Typed, Going
<1>5. \A h \in Hooks : Key(h) \in Kept' => Key(h) \in Kept \/ OnItsWay(h)'
  <2>1. ASSUME NEW h \in Hooks, Key(h) \in Kept', Key(h) \notin Kept PROVE OnItsWay(h)'
    <3>1. h = q[1]
      BY <1>2, <1>3, <2>1 DEF DistinctKeys, Key
    <3> QED
      BY <1>4, <3>1 DEF OnItsWay
  <2> QED
    BY <2>1 DEF Key
<1>6. Tried(q)'
  BY <1>1 DEF KInv, IInv, Typed, Tried
<1>7. [Next]_vars
  BY DEF Next, Handle
<1>8. \A t \in Requests : t # q => pc'[t] = pc[t] /\ todo'[t] = todo[t]
  BY <1>1
<1> QED
  BY <1>4, <1>5, <1>6, <1>7, <1>8, KeepOn

\* An event is created.
LEMMA KeepStart ==
    ASSUME KInv, Keeping, NEW q \in Requests, NEW p \in Pipelines, StartOne(q, p), fails' = fails
    PROVE  Keeping'
<1>1. /\ pc[q] = "start" /\ pc' = pc /\ redis' = redis /\ seen' = seen
      /\ todo' = [todo EXCEPT ![q] = @ \ {p}]
  BY DEF StartOne
<1>2. runs' = [runs EXCEPT ![q[1]][p] = @ + 1]
  BY DEF StartOne, KInv
<1>3. Going(q) /\ Going(q)' /\ pc'[q] # "done"
  BY <1>1 DEF Going
<1>4. Tried(q)
  BY <1>3 DEF Keeping, TriedKept
<1>5. runs \in [Hooks -> [Pipelines -> Nat]] /\ q[1] \in Hooks
  BY RequestOf DEF KInv, IInv, Typed
<1>6. runs'[q[1]][p] >= 1
  BY <1>2, <1>5
<1>7. \A o \in Pipelines : runs[q[1]][o] >= 1 => runs'[q[1]][o] >= 1
  BY <1>2, <1>5
<1>8. todo'[q] = todo[q] \ {p}
  BY <1>1 DEF KInv, IInv, Typed
<1>9. Tried(q)'
  BY <1>4, <1>6, <1>7, <1>8 DEF Tried
<1>10. [Next]_vars
  BY DEF Next, Handle
<1>11. \A t \in Requests : t # q => pc'[t] = pc[t] /\ todo'[t] = todo[t]
  BY <1>1
<1>12. \A h \in Hooks : Key(h) \in Kept' => Key(h) \in Kept
  BY <1>1 DEF Kept, Key
<1> QED
  BY <1>3, <1>9, <1>10, <1>11, <1>12, KeepOn

\* A request moves on; it has been tried everywhere when it stops.
LEMMA KeepMove ==
    ASSUME KInv, Keeping, [Next]_vars, NEW q \in Requests, NEW new \in States,
           pc' = [pc EXCEPT ![q] = new], UNCHANGED <<redis, seen, todo, runs>>,
           Going(q) => new \in {"queued", "start"} \/ Started(q[1]),
           new \in {"queued", "start"} => Going(q),
           new = "done" => Started(q[1]), new # "enqueue"
    PROVE  Keeping'
<1>1. pc'[q] = new /\ \A t \in Requests : t # q => pc'[t] = pc[t] /\ todo'[t] = todo[t]
  BY DEF KInv, IInv, Typed
<1>2. \A h \in Hooks : Key(h) \in Kept' => Key(h) \in Kept
  BY DEF Kept, Key
<1>3. Started(q[1])' = Started(q[1])
  BY DEF Started
<1>4. Going(q) => Going(q)' \/ Started(q[1])'
  BY <1>1, <1>3 DEF Going
<1>5. pc'[q] = "done" => OnItsWay(q[1])'
  BY <1>1, <1>3 DEF OnItsWay
<1>6. Going(q)' => Tried(q)'
  BY <1>1 DEF Going, Tried, Keeping, TriedKept
<1> QED
  BY <1>1, <1>2, <1>4, <1>5, <1>6, KeepOn

LEMMA KeepSettle ==
    ASSUME KInv, Keeping, NEW q \in Requests, Settle(q)
    PROVE  Keeping'
<1>1. /\ pc[q] = "start" /\ todo[q] = {} /\ pc' = [pc EXCEPT ![q] = "done"]
      /\ UNCHANGED <<redis, seen, todo, runs>>
  BY DEF Settle
<1>2. Started(q[1])
  BY <1>1 DEF Keeping, TriedKept, Tried, Started, Going
<1>3. [Next]_vars
  BY DEF Next, Handle
<1> QED
  BY <1>1, <1>2, <1>3, KeepMove DEF States

\* No request moves.
LEMMA KeepRest ==
    ASSUME Keeping, UNCHANGED <<pc, todo, runs>>, Kept' \subseteq Kept
    PROVE  Keeping'
<1>1. \A h \in Hooks : OnItsWay(h)' = OnItsWay(h)
  BY DEF OnItsWay, Started, Going
<1>2. KeysKept'
  BY <1>1 DEF Keeping, KeysKept, Key
<1>3. DoneKept'
  BY <1>1, RequestOf DEF Keeping, DoneKept
<1>4. TriedKept'
  BY DEF Keeping, TriedKept, Tried, Going
<1> QED
  BY <1>2, <1>3, <1>4 DEF Keeping

LEMMA NextKeeping ==
    ASSUME DistinctKeys, KInv, [Next]_vars
    PROVE  KInv'
<1>1. IInv'
  BY NextInv DEF KInv
<1>2. fails' \in Nat /\ (fails' = 0 => fails = 0 /\ fails' = fails)
  BY Growing
<1>3. ASSUME fails' = 0 PROVE Keeping'
  <2>1. Keeping /\ fails' = fails /\ fails = 0
    BY <1>2, <1>3 DEF KInv
  <2>2. ASSUME NEW h \in Hooks, NEW a \in Attempts(h), Send(h, a) PROVE Keeping'
    BY <2>1, <2>2, SentOf, KeepMove DEF Send, States, Going
  <2>3. ASSUME NEW q \in Requests, Enqueue(q) \/ ProcessHook(q) PROVE Keeping'
    BY <2>1, <2>3, KeepMove DEF Enqueue, ProcessHook, States, Going
  <2>4. ASSUME NEW q \in Requests, Throw(q) PROVE Keeping'
    BY <2>1, <2>4 DEF Throw
  <2>5. ASSUME NEW k \in Keys, Expire(k) PROVE Keeping'
    <3>1. redis' \subseteq redis /\ \A r \in Processes : seen'[r] \subseteq seen[r]
      BY <2>5 DEF Expire
    <3>2. Kept' \subseteq Kept
      BY <3>1 DEF Kept
    <3> QED
      BY <2>1, <2>5, <3>2, KeepRest DEF Expire
  <2>6. CASE UNCHANGED vars
    BY <2>1, <2>6, KeepRest DEF vars, Kept
  <2>7. ASSUME NEW q \in Requests, Handle(q) PROVE Keeping'
    BY <2>1, <2>3, <2>7, KeepFresh, KeepDuplicate, KeepStart, KeepSettle DEF Handle
  <2> QED
    BY <2>2, <2>4, <2>5, <2>6, <2>7 DEF Next
<1> QED
  BY <1>1, <1>2, <1>3 DEF KInv

LEMMA KeepingSwallowsNothing == ASSUME KInv PROVE NothingSwallowed
<1>1. ASSUME fails = 0, NEW h \in Hooks, Settled(h) PROVE Started(h)
  <2>1. <<h, 1>> \in Requests
    BY DeliveryAssumption, SentOf DEF Attempts
  <2>2. OnItsWay(h)
    BY <1>1, <2>1 DEF Settled, KInv, Keeping, DoneKept
  <2>3. ASSUME NEW q \in Requests, q[1] = h PROVE ~Going(q)
    <3>1. \E a \in Attempts(h) : q = <<h, a>>
      BY <2>3 DEF Requests
    <3> QED
      BY <1>1, <3>1 DEF Settled, Going
  <2> QED
    BY <2>2, <2>3 DEF OnItsWay
<1> QED
  BY <1>1 DEF NothingSwallowed, Started

\* Whatever Redis, the expiry of keys and the queue do, a delivery is not
\* swallowed by the protection as long as nothing has failed, if no two
\* deliveries of one SCM have the same id (dedupStore.js:75, index.js:108).
THEOREM NoneSwallowed == ASSUME DistinctKeys PROVE Spec => []NothingSwallowed
<1>1. Init => KInv
  BY InitKeeping
<1>2. KInv /\ [Next]_vars => KInv'
  BY NextKeeping
<1>3. KInv => NothingSwallowed
  BY KeepingSwallowsNothing
<1> QED
  BY <1>1, <1>2, <1>3, PTL DEF Spec

-----------------------------------------------------------------------------
(* Without the queue: what has been claimed is being processed, or has     *)
(* been reported or created an event.                                      *)

Reported(q) == pc[q] = "done" /\ (answer[q] = "500" \/ ok[q])
Handled(h)  == \E q \in Requests : q[1] = h /\ (Going(q) \/ Reported(q))

Answering ==
    /\ ok \in [Requests -> BOOLEAN]
    /\ answer \in [Requests -> {"none", "201", "204", "500"}]
    /\ \A q \in Requests : pc[q] = "start" => answer[q] = "none"
    /\ \A q \in Requests : pc[q] \in {"unsent", "claim"} => answer[q] = "none"

NoQueue     == \A q \in Requests : pc[q] \notin {"enqueue", "queued"}
OkStarted   == \A q \in Requests : ok[q] => \E p \in Pipelines : runs[q[1]][p] >= 1
KeysHandled == \A h \in Hooks : Key(h) \in Kept => Handled(h)
DoneHandled == \A q \in Requests : pc[q] = "done" => Handled(q[1])

Telling == Answering /\ NoQueue /\ OkStarted /\ KeysHandled /\ DoneHandled

LInv == IInv /\ (~conf.queue => Telling)

LEMMA InitTelling == ASSUME Init PROVE LInv
<1>1. Kept = {}
  BY DEF Init, Kept
<1>2. \A q \in Requests : pc[q] = "unsent" /\ ~ok[q] /\ answer[q] = "none"
  BY DEF Init
<1>3. Answering
  BY <1>2 DEF Init, Answering
<1> QED
  BY <1>1, <1>2, <1>3, InitInv
     DEF LInv, Telling, NoQueue, OkStarted, KeysHandled, DoneHandled

\* Only request q moves.
LEMMA TellOn ==
    ASSUME Telling, NEW q \in Requests, NoQueue', Answering', OkStarted',
           pc[q] # "done",
           \A t \in Requests : t # q => pc'[t] = pc[t] /\ answer'[t] = answer[t] /\ ok'[t] = ok[t],
           \A h \in Hooks : Key(h) \in Kept' => Key(h) \in Kept \/ Handled(h)',
           Going(q) => Going(q)' \/ Reported(q)',
           pc'[q] = "done" => Handled(q[1])'
    PROVE  Telling'
<1>1. \A h \in Hooks : Handled(h) => Handled(h)'
  <2>1. ASSUME NEW h \in Hooks, NEW t \in Requests, t[1] = h, Going(t) \/ Reported(t)
        PROVE  Handled(h)'
    <3>1. CASE t = q
      BY <2>1, <3>1 DEF Handled, Reported
    <3>2. CASE t # q
      BY <2>1, <3>2 DEF Handled, Going, Reported
    <3> QED
      BY <3>1, <3>2
  <2> QED
    BY <2>1 DEF Handled
<1>2. KeysHandled'
  BY <1>1 DEF Telling, KeysHandled
<1>3. DoneHandled'
  BY <1>1, RequestOf DEF Telling, DoneHandled
<1> QED
  BY <1>2, <1>3 DEF Telling

\* The first request of a delivery.
LEMMA TellFresh ==
    ASSUME DistinctKeys, IInv, ~conf.queue, Telling, NEW q \in Requests, ClaimFresh(q)
    PROVE  Telling'
<1>1. /\ pc[q] = "claim" /\ pc' = [pc EXCEPT ![q] = "start"]
      /\ UNCHANGED <<ok, answer, runs>>
  BY DEF ClaimFresh
<1>2. at[q] \in Processes /\ q[1] \in Hooks
  BY <1>1, RequestOf DEF IInv, Located, Typed, Processes
<1>3. Kept' \subseteq Kept \cup {Key(q[1])}
  <2>1. /\ redis' \subseteq redis \cup {Key(q[1])}
        /\ seen' = seen \/ seen' = [seen EXCEPT ![at[q]] = @ \cup {Key(q[1])}]
    BY DEF ClaimFresh, TakeKey
  <2>2. \A r \in Processes : seen'[r] \subseteq seen[r] \cup {Key(q[1])}
    BY <1>2, <2>1 DEF IInv, Typed
  <2> QED
    BY <2>1, <2>2 DEF Kept
<1>4. pc'[q] = "start" /\ Going(q)'
  BY <1>1 DEF IInv, Typed, Going
<1>5. \A h \in Hooks : Key(h) \in Kept' => Key(h) \in Kept \/ Handled(h)'
  <2>1. ASSUME NEW h \in Hooks, Key(h) \in Kept', Key(h) \notin Kept PROVE Handled(h)'
    <3>1. h = q[1]
      BY <1>2, <1>3, <2>1 DEF DistinctKeys, Key
    <3> QED
      BY <1>4, <3>1 DEF Handled
  <2> QED
    BY <2>1 DEF Key
<1>6. NoQueue' /\ Answering' /\ OkStarted'
  BY <1>1 DEF IInv, Typed, Telling, NoQueue, Answering, OkStarted
<1>7. \A t \in Requests : t # q => pc'[t] = pc[t] /\ answer'[t] = answer[t] /\ ok'[t] = ok[t]
  BY <1>1
<1> QED
  BY <1>1, <1>4, <1>5, <1>6, <1>7, TellOn

\* The answer to a repeated delivery.
LEMMA TellDuplicate ==
    ASSUME IInv, Telling, NEW q \in Requests, ClaimDuplicate(q)
    PROVE  Telling'
<1>1. /\ pc[q] = "claim" /\ pc' = [pc EXCEPT ![q] = "done"]
      /\ Key(q[1]) \in Claimed(q) /\ answer' = [answer EXCEPT ![q] = "204"]
      /\ UNCHANGED <<redis, seen, ok, runs>>
  BY DEF ClaimDuplicate
<1>2. at[q] \in Processes
  BY <1>1 DEF IInv, Located, Typed, Processes
<1>3. Key(q[1]) \in Kept
  BY <1>1, <1>2 DEF Claimed, Kept
<1>4. PICK t \in Requests : t[1] = q[1] /\ (Going(t) \/ Reported(t))
  BY <1>3, RequestOf DEF Telling, KeysHandled, Handled
<1>5. t # q /\ ~Going(q)
  BY <1>1, <1>4 DEF Going, Reported
<1>6. \A u \in Requests : u # q => pc'[u] = pc[u] /\ answer'[u] = answer[u] /\ ok'[u] = ok[u]
  BY <1>1
<1>7. Handled(q[1])'
  BY <1>4, <1>5, <1>6 DEF Handled, Going, Reported
<1>8. NoQueue' /\ Answering' /\ OkStarted'
  BY <1>1 DEF IInv, Typed, Telling, NoQueue, Answering, OkStarted
<1>9. \A h \in Hooks : Key(h) \in Kept' => Key(h) \in Kept
  BY <1>1 DEF Kept, Key
<1> QED
  BY <1>1, <1>5, <1>6, <1>7, <1>8, <1>9, TellOn

\* An event is created, or not.
LEMMA TellStart ==
    ASSUME IInv, Telling, NEW q \in Requests, NEW p \in Pipelines, StartOne(q, p)
    PROVE  Telling'
<1>1. /\ pc[q] = "start" /\ UNCHANGED <<pc, redis, seen, answer>>
      /\ \/ ok' = [ok EXCEPT ![q] = TRUE] /\ runs' = [runs EXCEPT ![q[1]][p] = @ + 1]
         \/ ok' = ok /\ runs' = runs
  BY DEF StartOne
<1>2. runs \in [Hooks -> [Pipelines -> Nat]] /\ q[1] \in Hooks
  BY RequestOf DEF IInv, Typed
<1>3. NoQueue' /\ Answering'
  BY <1>1 DEF Telling, NoQueue, Answering
<1>4. OkStarted'
  <2>1. CASE ok' = ok /\ runs' = runs
    BY <2>1 DEF Telling, OkStarted
  <2>2. CASE ok' = [ok EXCEPT ![q] = TRUE] /\ runs' = [runs EXCEPT ![q[1]][p] = @ + 1]
    <3>1. runs'[q[1]][p] >= 1
      BY <1>2, <2>2
    <3>2. \A h \in Hooks, o \in Pipelines : runs[h][o] >= 1 => runs'[h][o] >= 1
      BY <1>2, <2>2
    <3>3. \A t \in Requests : ok'[t] => t = q \/ ok[t]
      BY <2>2 DEF Telling, Answering
    <3> QED
      BY <3>1, <3>2, <3>3, RequestOf DEF Telling, OkStarted
  <2> QED
    BY <1>1, <2>1, <2>2
<1>5. \A t \in Requests : t # q => pc'[t] = pc[t] /\ answer'[t] = answer[t] /\ ok'[t] = ok[t]
  <2>1. CASE ok' = ok
    BY <1>1, <2>1
  <2>2. CASE ok' = [ok EXCEPT ![q] = TRUE]
    <3>1. \A t \in Requests : t # q => ok'[t] = ok[t]
      BY <2>2, Zenon DEF Telling, Answering
    <3> QED
      BY <1>1, <3>1
  <2> QED
    BY <1>1, <2>1, <2>2
<1>6. Going(q)' /\ pc'[q] # "done"
  BY <1>1 DEF Going
<1>7. \A h \in Hooks : Key(h) \in Kept' => Key(h) \in Kept
  BY <1>1 DEF Kept, Key
<1> QED
  BY <1>1, <1>3, <1>4, <1>5, <1>6, <1>7, TellOn

\* A request ends with an event or an error.
LEMMA TellEnd ==
    ASSUME IInv, Telling, NEW q \in Requests, Settle(q) \/ Throw(q)
    PROVE  Telling'
<1>1. /\ pc[q] = "start" /\ pc' = [pc EXCEPT ![q] = "done"]
      /\ UNCHANGED <<redis, seen, ok, runs>>
      /\ \/ answer' = [answer EXCEPT ![q] = "500"]
         \/ answer' = [answer EXCEPT ![q] = IF ok[q] THEN "201" ELSE "500"]
  <2>1. CASE Settle(q)
    <3>1. answer[q] = "none"
      BY <2>1 DEF Settle, Telling, Answering
    <3>2. answer' = [answer EXCEPT ![q] = IF ok[q] THEN "201" ELSE "500"]
      BY <2>1, <3>1 DEF Settle
    <3> QED
      BY <2>1, <3>2 DEF Settle
  <2>2. CASE Throw(q)
    <3>1. pc[q] = "start" /\ answer[q] = "none"
      BY <2>2 DEF Throw, Telling, NoQueue, Answering
    <3>2. answer' = [answer EXCEPT ![q] = "500"]
      BY <2>2, <3>1 DEF Throw
    <3> QED
      BY <2>2, <3>1, <3>2 DEF Throw
  <2> QED
    BY <2>1, <2>2
<1>2. Reported(q)' /\ pc'[q] = "done"
  <2>1. pc'[q] = "done" /\ ok'[q] = ok[q]
    BY <1>1 DEF IInv, Typed
  <2>2. answer'[q] = "500" \/ ok[q]
    BY <1>1 DEF Telling, Answering
  <2> QED
    BY <2>1, <2>2 DEF Reported
<1>3. Handled(q[1])'
  BY <1>2 DEF Handled
<1>4. NoQueue' /\ Answering' /\ OkStarted'
  BY <1>1 DEF IInv, Typed, Telling, NoQueue, Answering, OkStarted
<1>5. \A t \in Requests : t # q => pc'[t] = pc[t] /\ answer'[t] = answer[t] /\ ok'[t] = ok[t]
  <2>1. \A t \in Requests : t # q => pc'[t] = pc[t] /\ ok'[t] = ok[t]
    BY <1>1
  <2>2. \A t \in Requests : t # q => answer'[t] = answer[t]
    BY <1>1 DEF Telling, Answering
  <2> QED
    BY <2>1, <2>2
<1>6. \A h \in Hooks : Key(h) \in Kept' => Key(h) \in Kept
  BY <1>1 DEF Kept, Key
<1> QED
  BY <1>1, <1>2, <1>3, <1>4, <1>5, <1>6, TellOn

LEMMA TellSend ==
    ASSUME IInv, Telling, NEW h \in Hooks, NEW a \in Attempts(h), Send(h, a)
    PROVE  Telling'
<1> DEFINE q == <<h, a>>
<1>1. /\ q \in Requests /\ pc[q] = "unsent" /\ pc' = [pc EXCEPT ![q] = "claim"]
      /\ UNCHANGED <<redis, seen, ok, answer, runs>>
  BY SentOf DEF Send
<1>2. pc'[q] = "claim" /\ ~Going(q)
  BY <1>1 DEF IInv, Typed, Going
<1>3. NoQueue' /\ Answering' /\ OkStarted'
  BY <1>1 DEF IInv, Typed, Telling, NoQueue, Answering, OkStarted
<1>4. \A t \in Requests : t # q => pc'[t] = pc[t] /\ answer'[t] = answer[t] /\ ok'[t] = ok[t]
  BY <1>1
<1>5. \A g \in Hooks : Key(g) \in Kept' => Key(g) \in Kept
  BY <1>1 DEF Kept, Key
<1> QED
  BY <1>1, <1>2, <1>3, <1>4, <1>5, TellOn

LEMMA TellRest ==
    ASSUME Telling, UNCHANGED <<pc, ok, answer, runs>>, Kept' \subseteq Kept
    PROVE  Telling'
<1>1. \A h \in Hooks : Handled(h)' = Handled(h)
  BY DEF Handled, Going, Reported
<1>2. KeysHandled' /\ DoneHandled'
  BY <1>1, RequestOf DEF Telling, KeysHandled, DoneHandled, Key
<1> QED
  BY <1>2 DEF Telling, Answering, NoQueue, OkStarted

LEMMA NextTelling ==
    ASSUME DistinctKeys, LInv, [Next]_vars
    PROVE  LInv'
<1>1. IInv /\ IInv'
  BY NextInv DEF LInv
<1>2. conf' = conf
  BY DEF Next, vars, Handle, Send, ClaimFresh, ClaimDuplicate, Enqueue, ProcessHook, StartOne,
         Settle, Throw, Expire
<1>3. ASSUME ~conf.queue PROVE Telling'
  <2>1. Telling
    BY <1>3 DEF LInv
  <2>2. ASSUME NEW q \in Requests, Enqueue(q) \/ ProcessHook(q) PROVE FALSE
    BY <2>1, <2>2 DEF Enqueue, ProcessHook, Telling, NoQueue
  <2>3. ASSUME NEW k \in Keys, Expire(k) PROVE Telling'
    <3>1. redis' \subseteq redis /\ \A r \in Processes : seen'[r] \subseteq seen[r]
      BY <2>3 DEF Expire
    <3>2. Kept' \subseteq Kept
      BY <3>1 DEF Kept
    <3> QED
      BY <2>1, <2>3, <3>2, TellRest DEF Expire
  <2>4. CASE UNCHANGED vars
    BY <2>1, <2>4, TellRest DEF vars, Kept
  <2>5. ASSUME NEW q \in Requests, Handle(q) PROVE Telling'
    BY <1>1, <1>3, <2>1, <2>2, <2>5, TellFresh, TellDuplicate, TellStart, TellEnd DEF Handle
  <2> QED
    BY <1>1, <2>1, <2>3, <2>4, <2>5, TellSend, TellEnd DEF Next
<1> QED
  BY <1>1, <1>2, <1>3 DEF LInv

LEMMA TellingReports == ASSUME LInv PROVE LossReported
<1>1. ASSUME NEW h \in Hooks, ~conf.queue, Settled(h), \A p \in Pipelines : runs[h][p] = 0
      PROVE  \E a \in Attempts(h) : answer[<<h, a>>] = "500"
  <2>1. <<h, 1>> \in Requests
    BY DeliveryAssumption, SentOf DEF Attempts
  <2>2. PICK q \in Requests : q[1] = h /\ (Going(q) \/ Reported(q))
    BY <1>1, <2>1 DEF Settled, LInv, Telling, DoneHandled, Handled
  <2>3. PICK a \in Attempts(h) : q = <<h, a>>
    BY <2>2 DEF Requests
  <2>4. Reported(q)
    BY <1>1, <2>2, <2>3 DEF Settled, Going
  <2>5. ~ok[q]
    BY <1>1, <2>2 DEF LInv, Telling, OkStarted
  <2> QED
    BY <2>3, <2>4, <2>5 DEF Reported
<1> QED
  BY <1>1 DEF LossReported

\* Without the queue, a delivery that started nothing was answered with an
\* error once, whatever failed and however often it was sent, if no two
\* deliveries of one SCM have the same id (index.js:109).
THEOREM NoSilentLoss == ASSUME DistinctKeys PROVE Spec => []LossReported
<1>1. Init => LInv
  BY InitTelling
<1>2. LInv /\ [Next]_vars => LInv'
  BY NextTelling
<1>3. LInv => LossReported
  BY TellingReports
<1> QED
  BY <1>1, <1>2, <1>3, PTL DEF Spec

-----------------------------------------------------------------------------
(* The events of a hook *)

\* What is still to be started, and what was started, is of the pipelines the
\* hook has found, and none of it is ignored.
FromTargets ==
    /\ list # {} => list \in Choice!Targets(hook)
    /\ \A p \in etodo : p \in list /\ ~Choice!Ignorable(hook, p)
    /\ \A e \in events : \E p \in list, sha \in {"hook", "own"}, whole \in BOOLEAN :
         e = Choice!Event(hook, p, sha, whole) /\ ~Choice!Ignorable(hook, p)

\* No event before the list, and no error after an event that was started whole.
Answered ==
    /\ epc \in {"start", "token", "changes", "list", "create", "done"}
    /\ epc \in {"start", "token", "changes", "list"} => events = {}
    /\ ecode = 500 => epc = "done" /\ Choice!Whole = {}

ChoiceInv == FromTargets /\ Answered

LEMMA ChoiceStart == Choice!Init => ChoiceInv
BY DEF Choice!Init, ChoiceInv, FromTargets, Answered, Choice!Whole

LEMMA ChoiceStep == ChoiceInv /\ [Choice!Next]_(Choice!vars) => ChoiceInv'
<1> SUFFICES ASSUME ChoiceInv, [Choice!Next]_(Choice!vars) PROVE ChoiceInv'
    OBVIOUS
<1> USE DEF ChoiceInv, FromTargets, Answered, Choice!Respond, Choice!Whole
<1>1. CASE Choice!Begin
  BY <1>1 DEF Choice!Begin
<1>2. CASE Choice!GetToken
  BY <1>2 DEF Choice!GetToken
<1>3. CASE Choice!GetChanges
  BY <1>3 DEF Choice!GetChanges
<1>4. CASE Choice!ListPipelines
  BY <1>4 DEF Choice!ListPipelines
<1>5. ASSUME NEW p \in ActivePipelines, Choice!StartOne(p) PROVE ChoiceInv'
  <2>1. /\ p \in etodo /\ epc = "create" /\ UNCHANGED <<hook, epc, list, ecode>>
        /\ etodo' = etodo \ {p}
        /\ events' = events \/ \E sha \in Choice!Shas(hook, p), whole \in BOOLEAN :
                events' = events \cup {Choice!Event(hook, p, sha, whole)}
        /\ ecode # 500
    BY <1>5 DEF Choice!StartOne
  <2>2. Choice!Shas(hook, p) \subseteq {"hook", "own"}
    BY DEF Choice!Shas
  <2>3. FromTargets'
    <3>1. \A e \in events' : \E o \in list, sha \in {"hook", "own"}, whole \in BOOLEAN :
             e = Choice!Event(hook, o, sha, whole) /\ ~Choice!Ignorable(hook, o)
      BY <2>1, <2>2
    <3> QED  BY <2>1, <3>1 DEF Choice!Event, Choice!Ignorable, Choice!Targets, Choice!From, Choice!Skip
  <2> QED  BY <2>1, <2>3
<1>6. CASE Choice!Answer
  BY <1>6 DEF Choice!Answer
<1>7. CASE UNCHANGED Choice!vars
  BY <1>7 DEF Choice!vars
<1> QED  BY <1>1, <1>2, <1>3, <1>4, <1>5, <1>6, <1>7 DEF Choice!Next

\* Only a release or a tag is triggered as such.
LEMMA ExtraIsRepo ==
    ASSUME NEW h, NEW b, NEW f, Choice!StartFrom(h, b, f)[1] \in {"release", "tag"}
    PROVE  h.type = "repo"
BY DEF Choice!StartFrom, Choice!Bare

\* Whether the branch of the pipeline is known makes no difference where it is another one.
LEMMA OffBranchSame ==
    ASSUME NEW h, NEW b, NEW f, h.branch # b
    PROVE  Choice!StartFrom(h, b, f) = Choice!StartFrom(h, Choice!None, f)
BY DEF Choice!StartFrom, Choice!None, Choice!Bare

\* A pipeline on another branch is found because it has a job, or because it
\* subscribes to this repository.
LEMMA FoundOffBranch ==
    ASSUME Choice!SubscribesElsewhere,
           NEW h, NEW ps \in Choice!Targets(h), NEW p \in ps,
           PipelineRow[p].branch # h.branch, ~Choice!Subscribed(h, p)
    PROVE  p \in Choice!OffBranch(h)
<1>1. p \notin Choice!OnBranch(h)
  BY DEF Choice!OnBranch
<1>2. ASSUME NEW first \in Choice!OnBranch(h), p \in Choice!Subscribers(h, first) PROVE FALSE
  <2>1. PipelineRow[first].repo = h.repo
    BY DEF Choice!OnBranch, Choice!OfRepo
  <2>2. p \in ActivePipelines /\ \E s \in PipelineRow[p].subs : s.to = first
    BY <1>2 DEF Choice!Subscribers
  <2> QED  BY <2>1, <2>2 DEF Choice!SubscribesElsewhere, Choice!Subscribed
<1> QED  BY <1>1, <1>2 DEF Choice!Targets

LEMMA ChoiceHolds == ASSUME Choice!SubscribesElsewhere, ChoiceInv PROVE EventsJustified
<1> USE DEF ChoiceInv
<1>1. ASSUME NEW e \in events, ~Choice!Subscribed(hook, e.pipeline),
             e.from[1] \in {"release", "tag"} \/ PipelineRow[e.pipeline].branch # hook.branch
      PROVE  Choice!HasTriggeredJob(e.pipeline, e.from)
  <2>1. PICK p \in list, sha \in {"hook", "own"}, whole \in BOOLEAN :
          e = Choice!Event(hook, p, sha, whole) /\ ~Choice!Ignorable(hook, p)
    BY DEF FromTargets
  <2> DEFINE b == PipelineRow[p].branch
             f == Choice!IsExtra(hook) /\ Choice!Filtering(hook.action, p)
  <2>2. e.pipeline = p /\ e.from = Choice!StartFrom(hook, b, f)
    BY <1>1, <2>1 DEF Choice!Event, Choice!From
  <2>3. CASE e.from[1] \in {"release", "tag"}
    <3>1. hook.type = "repo"
      BY <2>2, <2>3, ExtraIsRepo
    <3> QED  BY <2>1, <2>2, <2>3, <3>1 DEF Choice!Ignorable
  <2>4. CASE PipelineRow[p].branch # hook.branch
    <3>1. p \in Choice!OffBranch(hook)
      BY <1>1, <2>1, <2>2, <2>4, FoundOffBranch DEF FromTargets
    <3>2. Choice!HasTriggeredJob(p, Choice!StartFrom(hook, Choice!None, f))
      BY <3>1 DEF Choice!OffBranch
    <3>3. Choice!StartFrom(hook, b, f) = Choice!StartFrom(hook, Choice!None, f)
      BY <2>4, OffBranchSame
    <3> QED  BY <2>2, <3>2, <3>3
  <2> QED  BY <1>1, <2>2, <2>3, <2>4
<1>2. ASSUME NEW e \in events, hook.type = "pr", ~e.skip
      PROVE  /\ RestrictPR # "all-admin"
             /\ RestrictPR = "fork-admin" => hook.source # "fork"
             /\ RestrictPR = "branch-admin" => hook.source # "branch"
  <2>1. PICK p \in list, sha \in {"hook", "own"}, whole \in BOOLEAN :
          e = Choice!Event(hook, p, sha, whole)
    BY DEF FromTargets
  <2>2. ~Choice!RestrictedPR(hook, p)
    BY <1>2, <2>1 DEF Choice!Event, Choice!Skip
  <2> QED  BY <2>2 DEF Choice!RestrictedPR, Choice!Restriction
<1>3. ecode = 500 => Choice!Whole = {}
  BY DEF Answered
<1> QED  BY <1>1, <1>2, <1>3 DEF EventsJustified, Choice!EventsJustified, Choice!NoEmptyEvents,
           Choice!FixedRestriction, Choice!ErrorMeansNoneWhole

\* The events a hook leaves behind are justified, for any pipelines, triggers,
\* hooks and settings, where no pipeline subscribes to its own repository:
\* each has a job, none evades a restriction of the server, and none was
\* started whole when the SCM was told of an error.
THEOREM HookJustified == ASSUME Choice!SubscribesElsewhere PROVE Choice!Spec => []EventsJustified
<1>1. Choice!Init => ChoiceInv
  BY ChoiceStart
<1>2. ChoiceInv /\ [Choice!Next]_(Choice!vars) => ChoiceInv'
  BY ChoiceStep
<1>3. ChoiceInv => EventsJustified
  BY ChoiceHolds
<1> QED  BY <1>1, <1>2, <1>3, PTL DEF Choice!Spec

-----------------------------------------------------------------------------
(* The hooks of a pull request *)

PrStates == {"unsent", "find", "stop", "create", "closed", "done"}

PrTyped ==
    /\ script \in Scripts
    /\ job \in [Pull!Jobs -> {"none", "active", "archived"}]
    /\ build \in [Pull!Builds -> {"none", "QUEUED", "SUCCESS", "ABORTED"}]
    /\ ended \subseteq Pull!Builds
    /\ ppc \in [Pull!Calls -> PrStates]
    /\ find \in [Pull!Calls -> SUBSET Pipelines] /\ ptodo \in [Pull!Calls -> SUBSET Pipelines]
    /\ look \in [Pull!Calls -> SUBSET Pull!Jobs] /\ arch \in [Pull!Calls -> SUBSET Pull!Jobs]
    /\ due \in [Pull!Calls -> SUBSET Pull!Builds] /\ old \in [Pull!Calls -> SUBSET Pull!Builds]
    /\ pok \in [Pull!Calls -> BOOLEAN] /\ bad \in [Pull!Calls -> BOOLEAN]
    /\ calm \in [Pull!Calls -> BOOLEAN]
    /\ pcode \in [Pull!Calls -> {0, 200, 201, 204, 500}]

\* What a handler has before it looks for jobs, while it stops them, and afterwards.
HandlerWell(k) ==
    /\ ppc[k] \in {"unsent", "create", "closed", "done"} =>
         find[k] = {} /\ look[k] = {} /\ due[k] = {} /\ arch[k] = {}
    /\ ppc[k] = "stop" => find[k] = {}
    /\ ppc[k] = "unsent" => old[k] = {}
    /\ ppc[k] \notin {"create", "closed"} => ptodo[k] = {}
    /\ ppc[k] # "unsent" => k \in Pull!Sent /\ \A m \in Pull!Calls : m < k => ppc[m] # "unsent"
    /\ ppc[k] # "done" => pcode[k] = 0
    /\ bad[k] => ppc[k] \in {"find", "stop"} \/ pcode[k] = 500
    /\ ppc[k] = "create" => Pull!Action(k) # "closed"
    /\ ptodo[k] \subseteq Pull!Repo

\* The jobs a hook looks at are those of its PR; only a close archives them.
OwnJobs(k) ==
    /\ \A j \in look[k] \cup arch[k] : j[1] \in Pull!Repo /\ j[2] = Pull!Pr(k)
    /\ arch[k] # {} => Pull!Action(k) = "closed"

\* A build is made once: the first of an event when the event is, the second
\* when the first has ended.
BuildsWell ==
    /\ \A b \in Pull!Builds : build[b] # "none" =>
         /\ b[2] \in Pull!Sent /\ ppc[b[2]] \in {"create", "done"} /\ b[1] \notin ptodo[b[2]]
         /\ b[3] = 2 => /\ build[<<b[1], b[2], 1>>] \in {"SUCCESS", "ABORTED"}
                        /\ <<b[1], b[2], 1>> \notin ended
    /\ \A b \in ended : b[3] = 1 /\ build[b] \in {"SUCCESS", "ABORTED"} /\ build[<<b[1], b[2], 2>>] = "none"
    /\ \A k \in Pull!Calls : \A b \in due[k] \cup old[k] : build[b] # "none"
    /\ \A j \in Pull!Jobs : job[j] # "none" => j[1] \in Pull!Repo

PrShape == PrTyped /\ BuildsWell /\ \A k \in Pull!Calls : HandlerWell(k) /\ OwnJobs(k)

Run(b) == build[b] = "QUEUED"

\* The builds that ran when a hook came and run still are yet to be found, read or stopped.
ToStop(k) ==
    \A b \in old[k] :
        /\ Pull!Pr(b[2]) = Pull!Pr(k) /\ b[1] \in Pull!StopsIn(k)
        /\ Run(b) /\ Pull!Action(k) # "opened" /\ ~bad[k] =>
             /\ ppc[k] \in {"find", "stop"}
             /\ \/ b[1] \in find[k] /\ job[Pull!JobOf(b)] = "active"
                \/ Pull!JobOf(b) \in look[k]
                \/ b \in due[k]

\* Nor does a close that came later archive their jobs before it has stopped them.
Unarchived(k, l) ==
    \A b \in old[k] :
        Run(b) /\ Pull!JobOf(b) \in arch[l] => Pull!JobOf(b) \in look[l] \/ b \in due[l]

StopInv == PrShape /\ \A k \in Pull!Calls : ToStop(k) /\ \A l \in Pull!Calls : Unarchived(k, l)

\* No hook is at work beside one that is calm.
Alone(l) ==
    calm[l] /\ ppc[l] # "unsent" =>
        \A m \in Pull!Calls : /\ m < l => ppc[m] = "done"
                              /\ m > l /\ ppc[l] # "done" => ppc[m] = "unsent"

\* The closes of a PR that have come so far are calm.
CalmPr(n) == \A l \in Pull!Sent :
                ppc[l] # "unsent" /\ Pull!Action(l) = "closed" /\ Pull!Pr(l) = n => calm[l]

\* Then the first build of an event does not run without its job.
JobsActive(n) ==
    CalmPr(n) => \A b \in Pull!Builds :
                   Run(b) /\ b[3] = 1 /\ Pull!Pr(b[2]) = n => job[Pull!JobOf(b)] = "active"

\* A calm close stops all of them before it archives the job, finds all jobs ...
ToArchive(l) ==
    /\ calm[l] => \A b \in Pull!Builds :
         Run(b) /\ b[3] = 1 /\ Pull!JobOf(b) \in arch[l] => Pull!JobOf(b) \in look[l] \/ b \in due[l]
    /\ calm[l] /\ ppc[l] \in {"find", "stop"} /\ Pull!Action(l) = "closed" /\ ~bad[l] =>
         \A j \in Pull!Jobs :
            j[2] = Pull!Pr(l) /\ job[j] = "active" => j[1] \in find[l] \/ j \in arch[l]

\* ... and leaves none of them active, until a hook comes.
Emptied(l) ==
    /\ calm[l] /\ ppc[l] \in {"closed", "done"} /\ Pull!Action(l) = "closed" /\ ~bad[l]
    /\ \A m \in Pull!Sent : m > l /\ Pull!Pr(m) = Pull!Pr(l) => ppc[m] = "unsent"
    => \A j \in Pull!Jobs : j[2] = Pull!Pr(l) => job[j] # "active"

CalmInv ==
    /\ PrShape
    /\ \A l \in Pull!Calls : Alone(l) /\ ToArchive(l) /\ Emptied(l)
    /\ \A n \in PRs : JobsActive(n)

LEMMA PrInit == Pull!Init => StopInv /\ CalmInv
<1> SUFFICES ASSUME Pull!Init PROVE StopInv /\ CalmInv
    OBVIOUS
<1> USE DEF Pull!Init
<1>1. PrTyped
  BY DEF PrTyped, PrStates
<1>2. BuildsWell
  BY DEF BuildsWell
<1>3. \A k \in Pull!Calls : HandlerWell(k) /\ OwnJobs(k)
  BY DEF HandlerWell, OwnJobs
<1>4. \A k, l \in Pull!Calls : ToStop(k) /\ Unarchived(k, l)
  BY DEF ToStop, Unarchived
<1>5. \A l \in Pull!Calls : Alone(l) /\ ToArchive(l) /\ Emptied(l)
  BY DEF Alone, ToArchive, Emptied
<1>6. \A n \in PRs : JobsActive(n)
  BY DEF JobsActive, Run
<1> QED  BY <1>1, <1>2, <1>3, <1>4, <1>5, <1>6 DEF StopInv, CalmInv, PrShape

\* What the script says of a hook.
LEMMA ScriptWell ==
    ASSUME PrTyped
    PROVE  /\ Pull!Repo \subseteq Pipelines /\ Pull!Sent \subseteq Pull!Calls
           /\ \A k \in Pull!Sent : /\ Pull!Pr(k) \in PRs /\ Pull!To(k) \subseteq Pull!Repo
                                   /\ Pull!StopsIn(k) \subseteq Pull!Repo
           /\ \A n \in PRs : <<n, n>> \in PartOf
BY PullAssumption DEF PrTyped, Pull!PullRequestAssumption, Pull!Repo, Pull!Sent, Pull!Calls, Pull!Pr,
   Pull!To, Pull!StopsIn

\* The script stays, and what is read from it.
LEMMA ScriptStays ==
    ASSUME script' = script
    PROVE  /\ Pull!Repo' = Pull!Repo /\ Pull!Sent' = Pull!Sent
           /\ \A k : /\ Pull!Pr(k)' = Pull!Pr(k) /\ Pull!To(k)' = Pull!To(k)
                     /\ Pull!Action(k)' = Pull!Action(k) /\ Pull!StopsIn(k)' = Pull!StopsIn(k)
           /\ \A b : Pull!JobOf(b)' = Pull!JobOf(b)
BY DEF Pull!Repo, Pull!Sent, Pull!Pr, Pull!To, Pull!Action, Pull!StopsIn, Pull!JobOf

LEMMA ReceiveShape ==
    ASSUME PrShape, NEW k \in Pull!Calls, Pull!Receive(k)
    PROVE  PrShape'
<1> USE DEF PrShape
<1>0. /\ script' = script /\ job' = job /\ build' = build /\ ended' = ended /\ look' = look /\ due' = due
      /\ arch' = arch /\ pok' = pok /\ bad' = bad /\ k \in Pull!Sent /\ ppc[k] = "unsent"
      /\ (k > 1 => ppc[k - 1] # "unsent")
      /\ ppc' = [ppc EXCEPT ![k] = ppc'[k]] /\ ppc'[k] \in {"find", "stop", "create", "done"}
      /\ pcode' = [pcode EXCEPT ![k] = pcode'[k]] /\ pcode'[k] \in {0, 204}
      /\ ppc'[k] # "done" => pcode'[k] = pcode[k]
      /\ find' = [find EXCEPT ![k] = find'[k]] /\ ptodo' = [ptodo EXCEPT ![k] = ptodo'[k]]
      /\ ppc'[k] # "find" => find'[k] = {}
      /\ find'[k] \subseteq Pull!StopsIn(k)
      /\ ppc'[k] # "create" => ptodo'[k] = {}
      /\ ptodo'[k] \subseteq Pull!To(k)
      /\ ppc'[k] = "create" => Pull!Action(k) # "closed"
  <2>1. ppc \in [Pull!Calls -> PrStates] /\ pcode[k] = 0 /\ find[k] = {} /\ ptodo[k] = {}
    BY DEF Pull!Receive, PrTyped, HandlerWell
  <2>2. CASE Pull!Action(k) # "closed" /\ Pull!To(k) = {}
    BY <2>1, <2>2 DEF Pull!Receive, Pull!rows, PrTyped
  <2>3. CASE ~(Pull!Action(k) # "closed" /\ Pull!To(k) = {}) /\ Pull!Action(k) = "opened"
    BY <2>1, <2>3 DEF Pull!Receive, Pull!rows, PrTyped
  <2>4. CASE ~(Pull!Action(k) # "closed" /\ Pull!To(k) = {}) /\ Pull!Action(k) # "opened"
    BY <2>1, <2>4 DEF Pull!Receive, Pull!rows, PrTyped
  <2> QED  BY <2>2, <2>3, <2>4
<1>1. /\ old' = [old EXCEPT ![k] = old'[k]] /\ calm' \in [Pull!Calls -> BOOLEAN]
      /\ \A b \in old'[k] : b \in Pull!Builds /\ build[b] # "none"
  <2>1. old' = [old EXCEPT ![k] = {b \in Pull!RunningOf(Pull!Pr(k), Pull!StopsIn(k)) :
                                     job[Pull!JobOf(b)] = "active" /\ ~Pull!Closing(Pull!Pr(k))}]
    BY DEF Pull!Receive
  <2>2. calm' \in [Pull!Calls -> BOOLEAN]
    BY DEF Pull!Receive, PrTyped, Pull!InProgress
  <2> QED  BY <2>1, <2>2 DEF PrTyped, Pull!RunningOf, Pull!Existing
<1>2. PrTyped'
  <2>1. find'[k] \subseteq Pipelines /\ ptodo'[k] \subseteq Pipelines /\ old'[k] \subseteq Pull!Builds
    BY <1>0, <1>1, ScriptWell
  <2> QED  BY <1>0, <1>1, <2>1 DEF PrTyped, PrStates
<1>3. BuildsWell'
  <2>1. \A b \in Pull!Builds : build[b] # "none" => b[2] # k /\ b[2] \in Pull!Calls
    BY <1>0, ScriptWell DEF BuildsWell
  <2> QED  BY <1>0, <1>1, <2>1, ScriptStays DEF BuildsWell, PrTyped
<1>4. ASSUME NEW m \in Pull!Calls PROVE HandlerWell(m)' /\ OwnJobs(m)'
  <2>1. OwnJobs(m)'
    BY <1>0, ScriptStays DEF OwnJobs
  <2>2. CASE m = k
    <3>1. \A i \in Pull!Calls : i < k => ppc[i] # "unsent"
      <4> SUFFICES ASSUME NEW i \in Pull!Calls, i < k PROVE ppc[i] # "unsent"
          OBVIOUS
      <4>1. k \in Nat /\ i \in Nat /\ k > 1 /\ k - 1 \in Pull!Calls /\ (i = k - 1 \/ i < k - 1)
        BY PullAssumption DEF Pull!Calls, Pull!PullRequestAssumption
      <4> QED  BY <1>0, <4>1 DEF HandlerWell
    <3>2. \A i \in Pull!Calls : i < k => ppc'[i] = ppc[i]
      BY <1>0, PullAssumption DEF Pull!Calls, Pull!PullRequestAssumption, PrTyped
    <3>3. ptodo'[k] \subseteq Pull!Repo
      BY <1>0, ScriptWell
    <3>4. ptodo'[k] \subseteq Pull!Repo'
      BY <1>0, <3>3, ScriptStays
    <3>5. Pull!Action(k)' = Pull!Action(k) /\ k \in Pull!Sent'
      BY <1>0, ScriptStays
    <3>6. /\ find'[k] = {} \/ ppc'[k] = "find"
          /\ look'[k] = {} /\ due'[k] = {} /\ arch'[k] = {} /\ ~bad'[k] /\ pcode[k] = 0
      BY <1>0 DEF HandlerWell
    <3> QED  BY <1>0, <2>1, <2>2, <3>1, <3>2, <3>4, <3>5, <3>6 DEF HandlerWell
  <2>3. CASE m # k
    <3>1. /\ find'[m] = find[m] /\ ppc'[m] = ppc[m] /\ old'[m] = old[m] /\ ptodo'[m] = ptodo[m]
          /\ pcode'[m] = pcode[m]
      BY <1>0, <1>1, <2>3 DEF PrTyped
    <3>2. \A i \in Pull!Calls : ppc[i] # "unsent" => ppc'[i] # "unsent"
      BY <1>0 DEF PrTyped
    <3>3. Pull!Action(m)' = Pull!Action(m) /\ Pull!Sent' = Pull!Sent /\ Pull!Repo' = Pull!Repo
      BY <1>0, ScriptStays
    <3> QED  BY <1>0, <2>1, <3>1, <3>2, <3>3 DEF HandlerWell
  <2> QED  BY <2>1, <2>2, <2>3
<1> QED  BY <1>2, <1>3, <1>4

\* A handler that a step leaves alone.
LEMMA HandlerFrame ==
    ASSUME PrShape, script' = script, NEW m \in Pull!Calls,
           find'[m] = find[m], look'[m] = look[m], due'[m] = due[m], arch'[m] = arch[m],
           ptodo'[m] = ptodo[m], bad'[m] = bad[m], pcode'[m] = pcode[m], old'[m] = old[m],
           ppc'[m] = ppc[m], \A i \in Pull!Calls : ppc[i] # "unsent" => ppc'[i] # "unsent"
    PROVE  HandlerWell(m)' /\ OwnJobs(m)'
<1>1. /\ Pull!Action(m)' = Pull!Action(m) /\ Pull!Pr(m)' = Pull!Pr(m)
      /\ Pull!Sent' = Pull!Sent /\ Pull!Repo' = Pull!Repo
  BY ScriptStays
<1>2. HandlerWell(m)'
  BY <1>1 DEF PrShape, HandlerWell
<1>3. OwnJobs(m)'
  BY <1>1 DEF PrShape, OwnJobs
<1> QED  BY <1>2, <1>3

\* Where neither builds nor jobs change, and no hook moves on from its event.
LEMMA BuildsFrame ==
    ASSUME PrShape, UNCHANGED <<script, job, build, ended, old>>,
           \A k \in Pull!Calls : /\ ppc[k] \in {"create", "done"} => ppc'[k] \in {"create", "done"}
                                 /\ ppc[k] \in {"create", "done"} => ptodo'[k] \subseteq ptodo[k]
                                 /\ \A b \in due'[k] : build[b] # "none"
    PROVE  BuildsWell'
<1>1. Pull!Sent' = Pull!Sent /\ Pull!Repo' = Pull!Repo
  BY ScriptStays
<1>2. Pull!Sent \subseteq Pull!Calls
  BY ScriptWell DEF PrShape
<1> QED  BY <1>1, <1>2 DEF PrShape, BuildsWell

LEMMA FindShape ==
    ASSUME PrShape, Pull!OwnNames, NEW k \in Pull!Calls, NEW p \in Pull!Repo, Pull!FindJobs(k, p)
    PROVE  PrShape'
<1> USE DEF PrShape
<1> DEFINE js == Pull!PrJobs(k, p)
<1>0. /\ UNCHANGED <<script, job, build, ended, due, ptodo, pok, bad, pcode, old, calm>>
      /\ ppc[k] = "find" /\ find' = [find EXCEPT ![k] = @ \ {p}]
      /\ look' = [look EXCEPT ![k] = @ \cup js]
      /\ arch' = [arch EXCEPT ![k] = arch'[k]]
      /\ arch'[k] = IF Pull!Action(k) = "closed" THEN arch[k] \cup js ELSE {}
      /\ ppc' = [ppc EXCEPT ![k] = ppc'[k]] /\ ppc'[k] \in {"find", "stop"}
      /\ ppc'[k] = "stop" <=> find'[k] = {}
  BY DEF Pull!FindJobs, Pull!rows, Pull!hist, PrTyped
<1>1. js \subseteq Pull!Jobs /\ \A j \in js : j[1] \in Pull!Repo /\ j[2] = Pull!Pr(k)
  <2>1. Pull!Pr(k) \in PRs
    BY <1>0, ScriptWell DEF HandlerWell
  <2>2. \A j \in Pull!Jobs : j[2] \in PRs
    BY DEF Pull!Jobs
  <2> QED  BY <2>1, <2>2 DEF Pull!PrJobs, Pull!OwnNames
<1>2. PrTyped'
  <2>1. arch'[k] \subseteq Pull!Jobs
    BY <1>0, <1>1 DEF PrTyped
  <2> HIDE DEF js
  <2> QED  BY <1>0, <1>1, <2>1 DEF PrTyped, PrStates
<1>3. BuildsWell'
  <2>1. \A i \in Pull!Calls : /\ ppc[i] \in {"create", "done"} => ppc'[i] \in {"create", "done"}
    BY <1>0 DEF PrTyped
  <2> QED  BY <1>0, <2>1, BuildsFrame DEF BuildsWell
<1>4. ASSUME NEW m \in Pull!Calls PROVE HandlerWell(m)' /\ OwnJobs(m)'
  <2>1. CASE m = k
    <3>1. /\ Pull!Action(k)' = Pull!Action(k) /\ Pull!Pr(k)' = Pull!Pr(k)
          /\ Pull!Sent' = Pull!Sent /\ Pull!Repo' = Pull!Repo
      BY <1>0, ScriptStays
    <3>2. \A i \in Pull!Calls : ppc[i] # "unsent" => ppc'[i] # "unsent"
      BY <1>0 DEF PrTyped
    <3>3. HandlerWell(k)'
      BY <1>0, <3>1, <3>2 DEF HandlerWell
    <3>4. OwnJobs(k)'
      <4>1. look'[k] = look[k] \cup js
        BY <1>0 DEF PrTyped
      <4> HIDE DEF js
      <4> QED  BY <1>0, <1>1, <3>1, <4>1 DEF OwnJobs
    <3> QED  BY <2>1, <3>3, <3>4
  <2>2. CASE m # k
    <3>1. \A i \in Pull!Calls : ppc[i] # "unsent" => ppc'[i] # "unsent"
      BY <1>0 DEF PrTyped
    <3>2. /\ find'[m] = find[m] /\ look'[m] = look[m] /\ arch'[m] = arch[m] /\ ppc'[m] = ppc[m]
      BY <1>0, <2>2 DEF PrTyped
    <3> QED  BY <1>0, <3>1, <3>2, HandlerFrame
  <2> QED  BY <2>1, <2>2
<1> QED  BY <1>2, <1>3, <1>4

\* The steps that stop the builds a hook has found, and archive their jobs.
LEMMA StopShape ==
    ASSUME PrShape, NEW k \in Pull!Calls, ppc[k] \in {"find", "stop"},
           UNCHANGED <<script, build, ended, find, ptodo, pok, ppc, pcode, old, calm>>,
           job' = job \/ \E j \in arch[k] : job' = [job EXCEPT ![j] = "archived"],
           bad' = [bad EXCEPT ![k] = bad'[k]], bad'[k] \in BOOLEAN,
           look' = [look EXCEPT ![k] = look'[k]], look'[k] \subseteq look[k],
           arch' = [arch EXCEPT ![k] = arch'[k]], arch'[k] \subseteq arch[k],
           due' = [due EXCEPT ![k] = due'[k]],
           \A b \in due'[k] : b \in Pull!Builds /\ build[b] # "none"
    PROVE  PrShape'
<1> USE DEF PrShape
<1>1. PrTyped'
  BY DEF PrTyped
<1>2. BuildsWell'
  <2>1. Pull!Sent' = Pull!Sent /\ Pull!Repo' = Pull!Repo
    BY ScriptStays
  <2>2. \A j \in Pull!Jobs : job'[j] # "none" => j[1] \in Pull!Repo
    <3> SUFFICES ASSUME NEW o \in arch[k], job' = [job EXCEPT ![o] = "archived"],
                        NEW j \in Pull!Jobs, job'[j] # "none"
                 PROVE  j[1] \in Pull!Repo
        BY DEF BuildsWell
    <3>1. o[1] \in Pull!Repo
      BY DEF OwnJobs
    <3>2. j = o \/ job'[j] = job[j]
      BY DEF PrTyped
    <3> QED  BY <3>1, <3>2 DEF BuildsWell
  <2> QED  BY <2>1, <2>2 DEF BuildsWell, PrTyped
<1>3. ASSUME NEW m \in Pull!Calls PROVE HandlerWell(m)' /\ OwnJobs(m)'
  <2>1. CASE m = k
    <3>1. /\ Pull!Action(k)' = Pull!Action(k) /\ Pull!Pr(k)' = Pull!Pr(k)
          /\ Pull!Sent' = Pull!Sent /\ Pull!Repo' = Pull!Repo
      BY ScriptStays
    <3> QED  BY <2>1, <3>1 DEF HandlerWell, OwnJobs
  <2>2. CASE m # k
    <3>2. look'[m] = look[m] /\ arch'[m] = arch[m] /\ bad'[m] = bad[m] /\ due'[m] = due[m]
      BY <2>2 DEF PrTyped
    <3> QED  BY <3>2, HandlerFrame
  <2> QED  BY <2>1, <2>2
<1> QED  BY <1>1, <1>2, <1>3

LEMMA StoppingShape ==
    ASSUME PrShape, NEW k \in Pull!Calls, NEW j \in Pull!Jobs,
           Pull!ReadRunning(k, j) \/ Pull!StopFails(k, j) \/ Pull!Archive(k, j)
    PROVE  PrShape'
<1> USE DEF PrShape
<1>1. ppc[k] \in {"find", "stop"}
  BY DEF Pull!ReadRunning, Pull!StopFails, Pull!Archive, Pull!MayStop
<1>2. \A b \in due[k] : b \in Pull!Builds /\ build[b] # "none"
  BY DEF PrTyped, BuildsWell
<1>3. CASE Pull!ReadRunning(k, j)
  <2>1. /\ UNCHANGED <<script, job, build, ended, find, ptodo, pok, ppc, pcode, old, calm, bad, arch>>
        /\ look' = [look EXCEPT ![k] = @ \ {j}]
        /\ due' = [due EXCEPT ![k] = @ \cup Pull!RunningIn(j)]
    BY <1>3 DEF Pull!ReadRunning, Pull!rows, Pull!hist
  <2>2. \A b \in Pull!RunningIn(j) : b \in Pull!Builds /\ build[b] # "none"
    BY DEF Pull!RunningIn, Pull!Existing
  <2>3. due'[k] = due[k] \cup Pull!RunningIn(j) /\ look'[k] \subseteq look[k]
    BY <2>1 DEF PrTyped
  <2>4. bad' = [bad EXCEPT ![k] = bad'[k]] /\ arch' = [arch EXCEPT ![k] = arch'[k]] /\ bad'[k] \in BOOLEAN
    BY <2>1 DEF PrTyped
  <2>5. look' = [look EXCEPT ![k] = look'[k]] /\ due' = [due EXCEPT ![k] = due'[k]]
    BY <2>1 DEF PrTyped
  <2> QED  BY <1>1, <1>2, <2>1, <2>2, <2>3, <2>4, <2>5, StopShape
<1>4. CASE Pull!StopFails(k, j)
  <2>1. /\ UNCHANGED <<script, job, build, ended, find, ptodo, pok, ppc, pcode, old, calm>>
        /\ bad' = [bad EXCEPT ![k] = TRUE]
        /\ look' = [look EXCEPT ![k] = @ \ {j}]
        /\ arch' = [arch EXCEPT ![k] = @ \ {j}]
        /\ due' = [due EXCEPT ![k] = {b \in @ : Pull!JobOf(b) # j}]
    BY <1>4 DEF Pull!StopFails, Pull!rows, Pull!hist
  <2>2. due'[k] \subseteq due[k] /\ look'[k] \subseteq look[k] /\ arch'[k] \subseteq arch[k] /\ bad'[k] = TRUE
    BY <2>1 DEF PrTyped
  <2>3. /\ look' = [look EXCEPT ![k] = look'[k]] /\ due' = [due EXCEPT ![k] = due'[k]]
        /\ arch' = [arch EXCEPT ![k] = arch'[k]] /\ bad' = [bad EXCEPT ![k] = bad'[k]]
    BY <2>1 DEF PrTyped
  <2> QED  BY <1>1, <1>2, <2>1, <2>2, <2>3, StopShape
<1>5. CASE Pull!Archive(k, j)
  <2>1. /\ UNCHANGED <<script, build, ended, find, ptodo, pok, ppc, pcode, old, calm, look, due, bad>>
        /\ j \in arch[k]
        /\ arch' = [arch EXCEPT ![k] = @ \ {j}]
        /\ job' = [job EXCEPT ![j] = "archived"]
    BY <1>5 DEF Pull!Archive, Pull!hist
  <2>2. arch'[k] \subseteq arch[k] /\ bad'[k] \in BOOLEAN
    BY <2>1 DEF PrTyped
  <2>3. /\ look' = [look EXCEPT ![k] = look'[k]] /\ due' = [due EXCEPT ![k] = due'[k]]
        /\ arch' = [arch EXCEPT ![k] = arch'[k]] /\ bad' = [bad EXCEPT ![k] = bad'[k]]
    BY <2>1 DEF PrTyped
  <2> QED  BY <1>1, <1>2, <2>1, <2>2, <2>3, StopShape
<1> QED  BY <1>3, <1>4, <1>5

LEMMA AbortShape ==
    ASSUME PrShape, NEW k \in Pull!Calls, NEW b \in Pull!Builds, Pull!Abort(k, b)
    PROVE  PrShape'
<1> USE DEF PrShape
<1>0. /\ UNCHANGED <<script, job, ended, find, look, arch, ptodo, pok, bad, ppc, pcode, old, calm>>
      /\ b \in due[k] /\ due' = [due EXCEPT ![k] = @ \ {b}]
      /\ build' = [build EXCEPT ![b] = "ABORTED"]
  BY DEF Pull!Abort, Pull!hist
<1>1. \A c \in Pull!Builds : /\ build'[c] = "none" <=> build[c] = "none"
                             /\ build[c] \in {"SUCCESS", "ABORTED"} => build'[c] \in {"SUCCESS", "ABORTED"}
  BY <1>0 DEF PrTyped, BuildsWell
<1>2. PrTyped'
  BY <1>0 DEF PrTyped
<1>3. BuildsWell'
  <2>1. Pull!Sent' = Pull!Sent /\ Pull!Repo' = Pull!Repo
    BY <1>0, ScriptStays
  <2>2. \A c \in Pull!Builds : <<c[1], c[2], 1>> \in Pull!Builds /\ <<c[1], c[2], 2>> \in Pull!Builds
    BY DEF Pull!Builds, Pull!Stages
  <2>3. \A m \in Pull!Calls : due'[m] \subseteq due[m] /\ due[m] \subseteq Pull!Builds /\ old[m] \subseteq Pull!Builds
    BY <1>0 DEF PrTyped
  <2>4. ended \subseteq Pull!Builds
    BY DEF PrTyped
  <2> QED  BY <1>0, <1>1, <2>1, <2>2, <2>3, <2>4 DEF BuildsWell
<1>4. ASSUME NEW m \in Pull!Calls PROVE HandlerWell(m)' /\ OwnJobs(m)'
  <2>1. CASE m = k
    <3>1. /\ Pull!Action(k)' = Pull!Action(k) /\ Pull!Pr(k)' = Pull!Pr(k)
          /\ Pull!Sent' = Pull!Sent /\ Pull!Repo' = Pull!Repo
      BY <1>0, ScriptStays
    <3>2. due'[k] \subseteq due[k]
      BY <1>0 DEF PrTyped
    <3> QED  BY <1>0, <2>1, <3>1, <3>2 DEF HandlerWell, OwnJobs
  <2>2. CASE m # k
    <3>2. due'[m] = due[m]
      BY <1>0, <2>2 DEF PrTyped
    <3> QED  BY <1>0, <3>2, HandlerFrame
  <2> QED  BY <2>1, <2>2
<1> QED  BY <1>2, <1>3, <1>4

\* The answer, and what comes before the events.
LEMMA MoveShape ==
    ASSUME PrShape, NEW k \in Pull!Calls,
           UNCHANGED <<script, job, build, ended, find, look, due, arch, pok, bad, old, calm>>,
           ppc' = [ppc EXCEPT ![k] = ppc'[k]], pcode' = [pcode EXCEPT ![k] = pcode'[k]],
           ptodo' = [ptodo EXCEPT ![k] = ptodo'[k]],
           pcode'[k] \in {0, 200, 201, 204, 500},
           \/ /\ ppc[k] \in {"create", "closed"} /\ ppc'[k] = "done" /\ ptodo'[k] = {}
              /\ pcode'[k] \in {201, 500}
           \/ /\ ppc[k] = "closed" /\ ppc'[k] = ppc[k] /\ ptodo'[k] \subseteq ptodo[k] /\ pcode'[k] = pcode[k]
           \/ /\ ppc[k] = "stop" /\ look[k] = {} /\ due[k] = {} /\ arch[k] = {}
              /\ \/ /\ ppc'[k] = "done" /\ ptodo'[k] = {} /\ (bad[k] => pcode'[k] = 500)
                 \/ /\ ppc'[k] = "create" /\ ptodo'[k] \subseteq Pull!To(k) /\ pcode'[k] = 0
                    /\ ~bad[k] /\ Pull!Action(k) # "closed"
                 \/ /\ ppc'[k] = "closed" /\ ptodo'[k] \subseteq Pull!To(k) /\ pcode'[k] = 0 /\ ~bad[k]
    PROVE  PrShape'
<1> USE DEF PrShape
<1>0. Pull!To(k) \subseteq Pull!Repo /\ Pull!Repo \subseteq Pipelines
  BY ScriptWell DEF HandlerWell
<1>1. ptodo'[k] \subseteq Pull!Repo /\ ppc'[k] # "unsent" /\ ppc[k] # "unsent"
  BY <1>0 DEF HandlerWell
<1>2. PrTyped'
  <2>1. ptodo'[k] \in SUBSET Pipelines /\ ppc'[k] \in PrStates
    BY <1>0, <1>1 DEF PrStates
  <2> QED  BY <2>1 DEF PrTyped
<1>3. BuildsWell'
  <2>1. Pull!Sent' = Pull!Sent /\ Pull!Repo' = Pull!Repo
    BY ScriptStays
  <2>2. ppc[k] = "create" => ppc'[k] \in {"create", "done"} /\ ptodo'[k] \subseteq ptodo[k]
    OBVIOUS
  <2>3. \A i \in Pull!Calls : i # k => ppc'[i] = ppc[i] /\ ptodo'[i] = ptodo[i]
    BY DEF PrTyped
  <2>4. \A b \in Pull!Builds : build[b] # "none" => b[2] \in Pull!Calls /\ ppc[b[2]] \in {"create", "done"}
    BY ScriptWell DEF BuildsWell
  <2>5. ppc[k] # "done"
    OBVIOUS
  <2>6. \A b \in Pull!Builds : build[b] # "none" => ppc'[b[2]] \in {"create", "done"} /\ b[1] \notin ptodo'[b[2]]
    <3> SUFFICES ASSUME NEW b \in Pull!Builds, build[b] # "none"
                 PROVE  ppc'[b[2]] \in {"create", "done"} /\ b[1] \notin ptodo'[b[2]]
        OBVIOUS
    <3>1. CASE b[2] = k
      BY <2>2, <2>4, <2>5, <3>1 DEF BuildsWell
    <3>2. CASE b[2] # k
      <4>1. ppc'[b[2]] = ppc[b[2]] /\ ptodo'[b[2]] = ptodo[b[2]]
        BY <2>3, <2>4, <3>2
      <4>2. b[1] \notin ptodo[b[2]]
        BY DEF BuildsWell
      <4> QED  BY <2>4, <4>1, <4>2
    <3> QED  BY <3>1, <3>2
  <2> QED  BY <2>1, <2>6 DEF BuildsWell
<1>4. ASSUME NEW m \in Pull!Calls PROVE HandlerWell(m)' /\ OwnJobs(m)'
  <2>1. \A i \in Pull!Calls : ppc[i] # "unsent" => ppc'[i] # "unsent"
    BY <1>1 DEF PrTyped
  <2>2. CASE m = k
    <3>1. /\ Pull!Action(k)' = Pull!Action(k) /\ Pull!Pr(k)' = Pull!Pr(k)
          /\ Pull!Sent' = Pull!Sent /\ Pull!Repo' = Pull!Repo
      BY ScriptStays
    <3>2. OwnJobs(k)'
      BY <3>1 DEF OwnJobs
    <3>3. find[k] = {} /\ look[k] = {} /\ due[k] = {} /\ arch[k] = {}
      BY DEF HandlerWell
    <3>4. bad[k] => ppc[k] = "stop" /\ pcode'[k] = 500 /\ ppc'[k] = "done"
      BY DEF HandlerWell
    <3>5. k \in Pull!Sent /\ \A i \in Pull!Calls : i < k => ppc'[i] # "unsent"
      BY <1>1, <2>1 DEF HandlerWell
    <3>6. ppc'[k] = "create" => Pull!Action(k) # "closed"
      BY DEF HandlerWell
    <3>7. ppc'[k] # "done" => pcode'[k] = 0
      BY DEF HandlerWell
    <3> QED  BY <1>1, <2>1, <2>2, <3>1, <3>2, <3>3, <3>4, <3>5, <3>6, <3>7 DEF HandlerWell
  <2>3. CASE m # k
    <3>1. ppc'[m] = ppc[m] /\ ptodo'[m] = ptodo[m] /\ pcode'[m] = pcode[m]
      BY <2>3 DEF PrTyped
    <3> QED  BY <2>1, <3>1, HandlerFrame
  <2> QED  BY <2>2, <2>3
<1> QED  BY <1>2, <1>3, <1>4

LEMMA MovesShape ==
    ASSUME PrShape, NEW k \in Pull!Calls,
           \/ Pull!Stopped(k) \/ Pull!Answer(k) \/ \E p \in Pull!Repo : Pull!StartClosed(k, p)
    PROVE  PrShape'
<1> USE DEF PrShape
<1>0. /\ ppc[k] # "done" => pcode[k] = 0
      /\ ppc \in [Pull!Calls -> PrStates] /\ pcode \in [Pull!Calls -> {0, 200, 201, 204, 500}]
      /\ ptodo \in [Pull!Calls -> SUBSET Pipelines]
      /\ ppc[k] \notin {"create", "closed"} => ptodo[k] = {}
  BY DEF PrTyped, HandlerWell
<1>1. CASE Pull!Stopped(k)
  <2>1. /\ UNCHANGED <<script, job, build, ended, find, look, due, arch, pok, bad, old, calm>>
        /\ ppc[k] = "stop" /\ look[k] = {} /\ due[k] = {} /\ arch[k] = {}
    BY <1>1 DEF Pull!Stopped, Pull!StoppedAll, Pull!rows, Pull!hist
  <2>2. \/ /\ bad[k] /\ ppc' = [ppc EXCEPT ![k] = "done"] /\ pcode' = [pcode EXCEPT ![k] = 500]
           /\ ptodo' = ptodo
        \/ \E c \in {200, 204} : /\ ~bad[k] /\ ppc' = [ppc EXCEPT ![k] = "done"]
                                 /\ pcode' = [pcode EXCEPT ![k] = c] /\ ptodo' = ptodo
        \/ /\ ~bad[k] /\ Pull!Action(k) # "closed" /\ ppc' = [ppc EXCEPT ![k] = "create"]
           /\ ptodo' = [ptodo EXCEPT ![k] = Pull!To(k)] /\ pcode' = pcode
        \/ /\ ~bad[k] /\ ppc' = [ppc EXCEPT ![k] = "closed"]
           /\ ptodo' = [ptodo EXCEPT ![k] = Pull!To(k)] /\ pcode' = pcode
    BY <1>1 DEF Pull!Stopped
  <2>3. /\ ppc' = [ppc EXCEPT ![k] = ppc'[k]] /\ pcode' = [pcode EXCEPT ![k] = pcode'[k]]
        /\ ptodo' = [ptodo EXCEPT ![k] = ptodo'[k]]
        /\ pcode'[k] \in {0, 200, 201, 204, 500}
    BY <1>0, <2>2
  <2>4. \/ /\ ppc'[k] = "done" /\ ptodo'[k] = {} /\ (bad[k] => pcode'[k] = 500)
        \/ /\ ppc'[k] = "create" /\ ptodo'[k] \subseteq Pull!To(k) /\ pcode'[k] = 0
           /\ ~bad[k] /\ Pull!Action(k) # "closed"
        \/ /\ ppc'[k] = "closed" /\ ptodo'[k] \subseteq Pull!To(k) /\ pcode'[k] = 0 /\ ~bad[k]
    BY <1>0, <2>1, <2>2
  <2> QED  BY <2>1, <2>3, <2>4, MoveShape
<1>2. CASE Pull!Answer(k)
  <2>1. /\ UNCHANGED <<script, job, build, ended, find, look, due, arch, pok, bad, old, calm, ptodo>>
        /\ ppc[k] \in {"create", "closed"} /\ ptodo[k] = {}
        /\ ppc' = [ppc EXCEPT ![k] = "done"]
        /\ \E c \in {201, 500} : pcode' = [pcode EXCEPT ![k] = c]
    BY <1>2 DEF Pull!Answer, Pull!rows, Pull!hist
  <2>2. /\ ppc' = [ppc EXCEPT ![k] = ppc'[k]] /\ pcode' = [pcode EXCEPT ![k] = pcode'[k]]
        /\ ptodo' = [ptodo EXCEPT ![k] = ptodo'[k]]
        /\ ppc'[k] = "done" /\ pcode'[k] \in {201, 500} /\ ptodo'[k] = {}
    BY <1>0, <2>1
  <2> QED  BY <2>1, <2>2, MoveShape
<1>3. ASSUME NEW p \in Pull!Repo, Pull!StartClosed(k, p) PROVE PrShape'
  <2>1. /\ UNCHANGED <<script, job, build, ended, find, look, due, arch, bad, old, calm, ppc, pcode>>
        /\ ppc[k] = "closed" /\ ptodo' = [ptodo EXCEPT ![k] = @ \ {p}]
        /\ pok' = pok \/ pok' = [pok EXCEPT ![k] = TRUE]
    BY <1>3 DEF Pull!StartClosed, Pull!hist
  <2>2. /\ ptodo'[k] \subseteq ptodo[k]
        /\ \A i \in Pull!Calls : i # k => ptodo'[i] = ptodo[i]
    BY <1>0, <2>1
  <2>3. PrTyped'
    <3>1. ptodo' \in [Pull!Calls -> SUBSET Pipelines]
      BY <1>0, <2>1
    <3>2. pok' \in [Pull!Calls -> BOOLEAN]
      <4>1. pok \in [Pull!Calls -> BOOLEAN]
        BY DEF PrTyped
      <4>2. CASE pok' = [pok EXCEPT ![k] = TRUE]
        BY <4>1, <4>2
      <4> QED  BY <2>1, <4>1, <4>2
    <3> QED  BY <2>1, <3>1, <3>2 DEF PrTyped
  <2>4. BuildsWell'
    <3>1. \A m \in Pull!Calls : \A b \in due[m] : build[b] # "none"
      BY DEF BuildsWell
    <3>2. \A m \in Pull!Calls : ptodo'[m] \subseteq ptodo[m]
      BY <2>2
    <3> QED  BY <2>1, <3>1, <3>2, BuildsFrame
  <2>5. ASSUME NEW m \in Pull!Calls PROVE HandlerWell(m)' /\ OwnJobs(m)'
    <3>1. CASE m = k
      <4>1. /\ Pull!Action(k)' = Pull!Action(k) /\ Pull!Pr(k)' = Pull!Pr(k)
            /\ Pull!Sent' = Pull!Sent /\ Pull!Repo' = Pull!Repo
        BY <2>1, ScriptStays
      <4> QED  BY <2>1, <2>2, <3>1, <4>1 DEF HandlerWell, OwnJobs
    <3>2. CASE m # k
      BY <2>1, <2>2, <3>2, HandlerFrame
    <3> QED  BY <3>1, <3>2
  <2> QED  BY <2>3, <2>4, <2>5
<1> QED  BY <1>1, <1>2, <1>3

\* An event of a PR makes a build that was not there, and its jobs active.
LEMMA StartPrFacts ==
    ASSUME PrShape, NEW k \in Pull!Calls, NEW p \in Pull!Repo, Pull!StartPr(k, p)
    PROVE  /\ UNCHANGED <<script, ended, find, look, due, arch, bad, ppc, pcode, old, calm>>
           /\ ppc[k] = "create" /\ p \in ptodo[k] /\ k \in Pull!Sent /\ p \in Pipelines
           /\ ptodo' = [ptodo EXCEPT ![k] = @ \ {p}] /\ pok' \in [Pull!Calls -> BOOLEAN]
           /\ <<p, k, 1>> \in Pull!Builds /\ build[<<p, k, 1>>] = "none" /\ build[<<p, k, 2>>] = "none"
           /\ build' = build \/ build' = [build EXCEPT ![<<p, k, 1>>] = "QUEUED"]
           /\ DOMAIN job' = Pull!Jobs
           /\ \A j \in Pull!Jobs : job'[j] = job[j] \/ (job'[j] = "active" /\ j[1] = p /\ j[2] = Pull!Pr(k))
           /\ build' # build => job'[<<p, Pull!Pr(k), 1>>] = "active"
<1> USE DEF PrShape
<1>1. /\ UNCHANGED <<script, ended, find, look, due, arch, bad, ppc, pcode, old, calm>>
      /\ ppc[k] = "create" /\ p \in ptodo[k]
      /\ ptodo' = [ptodo EXCEPT ![k] = @ \ {p}]
      /\ \/ Pull!NewEvent(k, p) /\ pok' = [pok EXCEPT ![k] = TRUE]
         \/ UNCHANGED <<job, build, pok>>
  BY DEF Pull!StartPr, Pull!hist
<1>2. k \in Pull!Sent /\ p \in Pipelines /\ pok' \in [Pull!Calls -> BOOLEAN] /\ Pull!Pr(k) \in PRs
  <2>1. k \in Pull!Sent
    BY <1>1 DEF HandlerWell
  <2>2. p \in Pipelines /\ Pull!Pr(k) \in PRs
    BY <2>1, ScriptWell
  <2>3. pok' \in [Pull!Calls -> BOOLEAN]
    <3>1. pok \in [Pull!Calls -> BOOLEAN]
      BY DEF PrTyped
    <3>2. CASE pok' = [pok EXCEPT ![k] = TRUE]
      BY <3>1, <3>2
    <3> QED  BY <1>1, <3>1, <3>2
  <2> QED  BY <2>1, <2>2, <2>3
<1>3. <<p, k, 1>> \in Pull!Builds /\ <<p, k, 2>> \in Pull!Builds /\ <<p, Pull!Pr(k), 1>> \in Pull!Jobs
  BY <1>2 DEF Pull!Builds, Pull!Jobs, Pull!Stages
<1>4. build[<<p, k, 1>>] = "none" /\ build[<<p, k, 2>>] = "none"
  BY <1>1, <1>3 DEF BuildsWell
<1>5. CASE Pull!NewEvent(k, p)
  BY <1>1, <1>2, <1>3, <1>4, <1>5 DEF Pull!NewEvent
<1>6. CASE UNCHANGED <<job, build, pok>>
  BY <1>1, <1>2, <1>3, <1>4, <1>6 DEF PrTyped
<1> QED  BY <1>1, <1>5, <1>6

LEMMA StartPrShape ==
    ASSUME PrShape, NEW k \in Pull!Calls, NEW p \in Pull!Repo, Pull!StartPr(k, p)
    PROVE  PrShape'
<1>0. /\ UNCHANGED <<script, ended, find, look, due, arch, bad, ppc, pcode, old, calm>>
      /\ ppc[k] = "create" /\ p \in ptodo[k] /\ k \in Pull!Sent /\ p \in Pipelines
      /\ ptodo' = [ptodo EXCEPT ![k] = @ \ {p}] /\ pok' \in [Pull!Calls -> BOOLEAN]
      /\ <<p, k, 1>> \in Pull!Builds /\ build[<<p, k, 1>>] = "none" /\ build[<<p, k, 2>>] = "none"
      /\ build' = build \/ build' = [build EXCEPT ![<<p, k, 1>>] = "QUEUED"]
      /\ DOMAIN job' = Pull!Jobs
      /\ \A j \in Pull!Jobs : job'[j] = job[j] \/ (job'[j] = "active" /\ j[1] = p /\ j[2] = Pull!Pr(k))
      /\ build' # build => job'[<<p, Pull!Pr(k), 1>>] = "active"
  BY StartPrFacts
<1> USE DEF PrShape
<1>1. \A m \in Pull!Calls : ptodo'[m] = IF m = k THEN ptodo[k] \ {p} ELSE ptodo[m]
  BY <1>0 DEF PrTyped
<1>2. PrTyped'
  <2>1. job' \in [Pull!Jobs -> {"none", "active", "archived"}]
    <3>1. job' = [j \in Pull!Jobs |-> job'[j]]
      <4>1. job' = [j \in DOMAIN job' |-> job'[j]]
        BY DEF Pull!StartPr, Pull!NewEvent, PrTyped
      <4> QED  BY <1>0, <4>1
    <3> QED  BY <1>0, <3>1 DEF PrTyped
  <2> QED  BY <1>0, <2>1 DEF PrTyped
<1>3. BuildsWell'
  <2>1. Pull!Sent' = Pull!Sent /\ Pull!Repo' = Pull!Repo
    BY <1>0, ScriptStays
  <2>2. \A c \in Pull!Builds : /\ <<c[1], c[2], 1>> \in Pull!Builds /\ <<c[1], c[2], 2>> \in Pull!Builds
                               /\ c = <<c[1], c[2], c[3]>> /\ c[3] \in {1, 2}
    BY DEF Pull!Builds, Pull!Stages
  <2>3. \A c \in Pull!Builds : c # <<p, k, 1>> => build'[c] = build[c]
    BY <1>0 DEF PrTyped
  <2>4. \A c \in Pull!Builds : build[c] # "none" => build'[c] = build[c] /\ c # <<p, k, 1>>
    BY <1>0, <2>3
  <2>5. \A c \in Pull!Builds : build'[c] # "none" =>
          /\ c[2] \in Pull!Sent /\ ppc[c[2]] \in {"create", "done"} /\ c[1] \notin ptodo'[c[2]]
          /\ c[3] = 2 => /\ build'[<<c[1], c[2], 1>>] \in {"SUCCESS", "ABORTED"}
                         /\ <<c[1], c[2], 1>> \notin ended
    <3> SUFFICES ASSUME NEW c \in Pull!Builds, build'[c] # "none"
                 PROVE  /\ c[2] \in Pull!Sent /\ ppc[c[2]] \in {"create", "done"} /\ c[1] \notin ptodo'[c[2]]
                        /\ c[3] = 2 => /\ build'[<<c[1], c[2], 1>>] \in {"SUCCESS", "ABORTED"}
                                       /\ <<c[1], c[2], 1>> \notin ended
        OBVIOUS
    <3>1. CASE c = <<p, k, 1>>
      BY <1>0, <1>1, <3>1
    <3>2. CASE c # <<p, k, 1>>
      <4>1. /\ build[c] # "none" /\ c[2] \in Pull!Sent /\ ppc[c[2]] \in {"create", "done"}
            /\ c[1] \notin ptodo[c[2]] /\ c[2] \in Pull!Calls
        BY <2>3, <3>2, ScriptWell DEF BuildsWell
      <4>2. c[1] \notin ptodo'[c[2]]
        BY <1>1, <4>1
      <4>3. c[3] = 2 => /\ build[<<c[1], c[2], 1>>] \in {"SUCCESS", "ABORTED"}
                        /\ <<c[1], c[2], 1>> \notin ended
        BY <4>1 DEF BuildsWell
      <4> QED  BY <2>2, <2>4, <4>1, <4>2, <4>3
    <3> QED  BY <3>1, <3>2
  <2>6. \A b \in ended : b[3] = 1 /\ build'[b] \in {"SUCCESS", "ABORTED"} /\ build'[<<b[1], b[2], 2>>] = "none"
    <3> SUFFICES ASSUME NEW b \in ended
                 PROVE  b[3] = 1 /\ build'[b] \in {"SUCCESS", "ABORTED"} /\ build'[<<b[1], b[2], 2>>] = "none"
        OBVIOUS
    <3>1. b \in Pull!Builds
      BY DEF PrTyped
    <3>2. b[3] = 1 /\ build[b] \in {"SUCCESS", "ABORTED"} /\ build[<<b[1], b[2], 2>>] = "none"
      BY DEF BuildsWell
    <3>3. <<b[1], b[2], 2>> # <<p, k, 1>>
      OBVIOUS
    <3> QED  BY <2>2, <2>3, <2>4, <3>1, <3>2, <3>3
  <2>7. \A m \in Pull!Calls : \A b \in due[m] \cup old[m] : build'[b] # "none"
    <3>1. \A m \in Pull!Calls : due[m] \subseteq Pull!Builds /\ old[m] \subseteq Pull!Builds
      BY DEF PrTyped
    <3> QED  BY <2>4, <3>1 DEF BuildsWell
  <2>8. \A j \in Pull!Jobs : job'[j] # "none" => j[1] \in Pull!Repo
    BY <1>0 DEF BuildsWell
  <2> QED  BY <1>0, <2>1, <2>5, <2>6, <2>7, <2>8 DEF BuildsWell
<1>4. ASSUME NEW m \in Pull!Calls PROVE HandlerWell(m)' /\ OwnJobs(m)'
  <2>1. CASE m = k
    <3>1. /\ Pull!Action(k)' = Pull!Action(k) /\ Pull!Pr(k)' = Pull!Pr(k)
          /\ Pull!Sent' = Pull!Sent /\ Pull!Repo' = Pull!Repo
      BY <1>0, ScriptStays
    <3> QED  BY <1>0, <1>1, <2>1, <3>1 DEF HandlerWell, OwnJobs
  <2>2. CASE m # k
    BY <1>0, <1>1, <2>2, HandlerFrame
  <2> QED  BY <2>1, <2>2
<1> QED  BY <1>2, <1>3, <1>4

LEMMA EndFacts ==
    ASSUME NEW b \in Pull!Builds, Pull!End(b)
    PROVE  /\ UNCHANGED <<script, job, find, look, due, arch, ptodo, pok, bad, ppc, pcode, old, calm>>
           /\ build[b] = "QUEUED"
           /\ \E s \in {"SUCCESS", "ABORTED"} : build' = [build EXCEPT ![b] = s]
           /\ ended' = ended \/ (b[3] = 1 /\ ended' = ended \cup {b})
<1>1. PICK s \in Pull!Done :
        /\ build' = [build EXCEPT ![b] = s]
        /\ ended' = IF s = "SUCCESS" /\ script.chained /\ b[3] = 1 THEN ended \cup {b} ELSE ended
  BY DEF Pull!End
<1> QED  BY <1>1 DEF Pull!End, Pull!req, Pull!hist, Pull!Running, Pull!Done

LEMMA EndShape ==
    ASSUME PrShape, NEW b \in Pull!Builds, Pull!End(b)
    PROVE  PrShape'
<1>0. /\ UNCHANGED <<script, job, find, look, due, arch, ptodo, pok, bad, ppc, pcode, old, calm>>
      /\ build[b] = "QUEUED"
      /\ \E s \in {"SUCCESS", "ABORTED"} : build' = [build EXCEPT ![b] = s]
      /\ ended' = ended \/ (b[3] = 1 /\ ended' = ended \cup {b})
  BY EndFacts
<1> USE DEF PrShape
<1>1. PrTyped'
  BY <1>0 DEF PrTyped
<1>2. BuildsWell'
  <2>1. Pull!Sent' = Pull!Sent /\ Pull!Repo' = Pull!Repo
    BY <1>0, ScriptStays
  <2>2. \A c \in Pull!Builds : /\ <<c[1], c[2], 1>> \in Pull!Builds /\ <<c[1], c[2], 2>> \in Pull!Builds
                               /\ c = <<c[1], c[2], c[3]>> /\ c[3] \in {1, 2}
    BY DEF Pull!Builds, Pull!Stages
  <2>3. /\ \A c \in Pull!Builds : c # b => build'[c] = build[c]
        /\ build'[b] \in {"SUCCESS", "ABORTED"}
    BY <1>0 DEF PrTyped
  <2>4. build[b] # "none" /\ build[b] \notin {"SUCCESS", "ABORTED"}
    BY <1>0
  <2>5. \A c \in Pull!Builds : c[3] = 2 /\ build[c] # "none" =>
          <<c[1], c[2], 1>> # b /\ build[<<c[1], c[2], 1>>] \in {"SUCCESS", "ABORTED"} /\ <<c[1], c[2], 1>> \notin ended
    BY <2>4 DEF BuildsWell
  <2>6. \A c \in Pull!Builds : c[3] = 2 /\ build'[c] # "none" =>
          build'[<<c[1], c[2], 1>>] \in {"SUCCESS", "ABORTED"} /\ <<c[1], c[2], 1>> \notin ended'
    <3> SUFFICES ASSUME NEW c \in Pull!Builds, c[3] = 2, build'[c] # "none"
                 PROVE  build'[<<c[1], c[2], 1>>] \in {"SUCCESS", "ABORTED"} /\ <<c[1], c[2], 1>> \notin ended'
        OBVIOUS
    <3>1. build[c] # "none"
      BY <2>3, <2>4
    <3> QED  BY <1>0, <2>2, <2>3, <2>5, <3>1
  <2>7. \A c \in Pull!Builds : build'[c] # "none" =>
          c[2] \in Pull!Sent /\ ppc[c[2]] \in {"create", "done"} /\ c[1] \notin ptodo[c[2]]
    <3> SUFFICES ASSUME NEW c \in Pull!Builds, build'[c] # "none" PROVE build[c] # "none"
        BY DEF BuildsWell
    <3> QED  BY <2>3, <2>4
  <2>8. \A c \in ended' : c[3] = 1 /\ build'[c] \in {"SUCCESS", "ABORTED"} /\ build'[<<c[1], c[2], 2>>] = "none"
    <3> SUFFICES ASSUME NEW c \in ended'
                 PROVE  c[3] = 1 /\ build'[c] \in {"SUCCESS", "ABORTED"} /\ build'[<<c[1], c[2], 2>>] = "none"
        OBVIOUS
    <3>1. c \in Pull!Builds
      BY <1>0 DEF PrTyped
    <3>2. CASE c \in ended
      <4>1. c[3] = 1 /\ build[c] \in {"SUCCESS", "ABORTED"} /\ build[<<c[1], c[2], 2>>] = "none"
        BY <3>2 DEF BuildsWell
      <4> QED  BY <2>2, <2>3, <2>4, <3>1, <4>1
    <3>3. CASE c = b /\ b[3] = 1
      <4> DEFINE d == <<b[1], b[2], 2>>
      <4>1. d \in Pull!Builds /\ d[3] = 2 /\ <<d[1], d[2], 1>> = b /\ d # b
        <5>1. d \in Pull!Builds /\ b = <<b[1], b[2], b[3]>>
          BY <2>2
        <5>2. d[1] = b[1] /\ d[2] = b[2] /\ d[3] = 2
          OBVIOUS
        <5> HIDE DEF d
        <5> QED  BY <3>3, <5>1, <5>2
      <4>2. build[d] = "none"
        BY <2>4, <4>1 DEF BuildsWell
      <4> QED  BY <2>3, <3>3, <4>1, <4>2
    <3> QED  BY <1>0, <3>2, <3>3
  <2>9. \A m \in Pull!Calls : \A c \in due[m] \cup old[m] : build'[c] # "none"
    <3>1. \A m \in Pull!Calls : due[m] \subseteq Pull!Builds /\ old[m] \subseteq Pull!Builds
      BY DEF PrTyped
    <3> QED  BY <2>3, <3>1 DEF BuildsWell
  <2> QED  BY <1>0, <2>1, <2>6, <2>7, <2>8, <2>9 DEF BuildsWell
<1>3. ASSUME NEW m \in Pull!Calls PROVE HandlerWell(m)' /\ OwnJobs(m)'
  BY <1>0, HandlerFrame
<1> QED  BY <1>1, <1>2, <1>3

LEMMA TriggerFacts ==
    ASSUME PrShape, NEW b \in Pull!Builds, Pull!TriggerNext(b), NEW d, d = <<b[1], b[2], 2>>
    PROVE  /\ UNCHANGED <<script, job, find, look, due, arch, ptodo, pok, bad, ppc, pcode, old, calm>>
           /\ b \in ended /\ ended' = ended \ {b} /\ b[3] = 1 /\ build[b] \in {"SUCCESS", "ABORTED"}
           /\ d \in Pull!Builds /\ build[d] = "none" /\ <<d[1], d[2], 1>> = b
           /\ build' = [build EXCEPT ![d] = "QUEUED"]
<1>1. /\ UNCHANGED <<script, job, find, look, due, arch, ptodo, pok, bad, ppc, pcode, old, calm>>
      /\ b \in ended /\ ended' = ended \ {b} /\ build' = [build EXCEPT ![d] = "QUEUED"]
  BY DEF Pull!TriggerNext, Pull!req, Pull!hist
<1>2. b[3] = 1 /\ build[b] \in {"SUCCESS", "ABORTED"} /\ build[d] = "none"
  BY <1>1 DEF PrShape, BuildsWell
<1>3. d \in Pull!Builds /\ <<d[1], d[2], 1>> = b
  BY <1>2 DEF Pull!Builds, Pull!Stages
<1> QED  BY <1>1, <1>2, <1>3

LEMMA TriggerShape ==
    ASSUME PrShape, NEW b \in Pull!Builds, Pull!TriggerNext(b)
    PROVE  PrShape'
<1>d. PICK d : d = <<b[1], b[2], 2>>
  OBVIOUS
<1>0. /\ UNCHANGED <<script, job, find, look, due, arch, ptodo, pok, bad, ppc, pcode, old, calm>>
      /\ b \in ended /\ ended' = ended \ {b} /\ b[3] = 1 /\ build[b] \in {"SUCCESS", "ABORTED"}
      /\ d \in Pull!Builds /\ build[d] = "none" /\ <<d[1], d[2], 1>> = b
      /\ build' = [build EXCEPT ![d] = "QUEUED"]
  BY <1>d, TriggerFacts
<1> USE DEF PrShape
<1>1. PrTyped'
  BY <1>0 DEF PrTyped
<1>2. BuildsWell'
  <2>1. Pull!Sent' = Pull!Sent /\ Pull!Repo' = Pull!Repo
    BY <1>0, ScriptStays
  <2>2. \A c \in Pull!Builds : /\ <<c[1], c[2], 1>> \in Pull!Builds /\ <<c[1], c[2], 2>> \in Pull!Builds
                               /\ c = <<c[1], c[2], c[3]>> /\ c[3] \in {1, 2}
    BY DEF Pull!Builds, Pull!Stages
  <2>3. /\ \A c \in Pull!Builds : c # d => build'[c] = build[c]
        /\ build'[d] = "QUEUED" /\ b # d /\ d[3] = 2 /\ d[1] = b[1] /\ d[2] = b[2]
    BY <1>0, <1>d DEF PrTyped
  <2>4. \A c \in Pull!Builds : build[c] # "none" => c # d
    BY <1>0
  <2>5. \A c \in Pull!Builds : build'[c] # "none" =>
          /\ c[2] \in Pull!Sent /\ ppc[c[2]] \in {"create", "done"} /\ c[1] \notin ptodo[c[2]]
          /\ c[3] = 2 => /\ build'[<<c[1], c[2], 1>>] \in {"SUCCESS", "ABORTED"}
                         /\ <<c[1], c[2], 1>> \notin ended'
    <3> SUFFICES ASSUME NEW c \in Pull!Builds, build'[c] # "none"
                 PROVE  /\ c[2] \in Pull!Sent /\ ppc[c[2]] \in {"create", "done"} /\ c[1] \notin ptodo[c[2]]
                        /\ c[3] = 2 => /\ build'[<<c[1], c[2], 1>>] \in {"SUCCESS", "ABORTED"}
                                       /\ <<c[1], c[2], 1>> \notin ended'
        OBVIOUS
    <3>1. CASE c = d
      <4>1. b[2] \in Pull!Sent /\ ppc[b[2]] \in {"create", "done"} /\ b[1] \notin ptodo[b[2]]
        BY <1>0 DEF BuildsWell
      <4> QED  BY <1>0, <2>3, <3>1, <4>1
    <3>2. CASE c # d
      <4>1. build[c] # "none"
        BY <2>3, <3>2
      <4>2. /\ c[2] \in Pull!Sent /\ ppc[c[2]] \in {"create", "done"} /\ c[1] \notin ptodo[c[2]]
            /\ c[3] = 2 => /\ build[<<c[1], c[2], 1>>] \in {"SUCCESS", "ABORTED"}
                           /\ <<c[1], c[2], 1>> \notin ended
        BY <4>1 DEF BuildsWell
      <4>3. c[3] = 2 => build'[<<c[1], c[2], 1>>] \in {"SUCCESS", "ABORTED"}
        BY <2>2, <2>3, <2>4, <4>2
      <4> QED  BY <1>0, <4>2, <4>3
    <3> QED  BY <3>1, <3>2
  <2>6. \A c \in ended' : c[3] = 1 /\ build'[c] \in {"SUCCESS", "ABORTED"} /\ build'[<<c[1], c[2], 2>>] = "none"
    <3> SUFFICES ASSUME NEW c \in ended'
                 PROVE  c[3] = 1 /\ build'[c] \in {"SUCCESS", "ABORTED"} /\ build'[<<c[1], c[2], 2>>] = "none"
        OBVIOUS
    <3>1. c \in Pull!Builds /\ c \in ended /\ c # b
      BY <1>0 DEF PrTyped
    <3>2. c[3] = 1 /\ build[c] \in {"SUCCESS", "ABORTED"} /\ build[<<c[1], c[2], 2>>] = "none"
      BY <3>1 DEF BuildsWell
    <3>3. <<c[1], c[2], 2>> # d /\ c # d
      BY <1>0, <1>d, <2>2, <2>3, <3>1, <3>2
    <3> QED  BY <2>2, <2>3, <3>1, <3>2, <3>3
  <2>9. \A m \in Pull!Calls : \A c \in due[m] \cup old[m] : build'[c] # "none"
    <3>1. \A m \in Pull!Calls : due[m] \subseteq Pull!Builds /\ old[m] \subseteq Pull!Builds
      BY DEF PrTyped
    <3> QED  BY <2>3, <2>4, <3>1 DEF BuildsWell
  <2> QED  BY <1>0, <2>1, <2>5, <2>6, <2>9 DEF BuildsWell
<1>3. ASSUME NEW m \in Pull!Calls PROVE HandlerWell(m)' /\ OwnJobs(m)'
  BY <1>0, HandlerFrame
<1> QED  BY <1>1, <1>2, <1>3

LEMMA ShapeStays ==
    ASSUME PrShape, UNCHANGED Pull!vars PROVE PrShape'
<1>0. UNCHANGED <<script, job, build, ended, find, look, due, arch, ptodo, pok, bad, ppc, pcode, old, calm>>
  BY DEF Pull!vars, Pull!rows, Pull!req, Pull!hist
<1> USE DEF PrShape
<1>1. PrTyped'
  BY <1>0 DEF PrTyped
<1>2. BuildsWell'
  BY <1>0, BuildsFrame DEF BuildsWell
<1>3. ASSUME NEW m \in Pull!Calls PROVE HandlerWell(m)' /\ OwnJobs(m)'
  BY <1>0, HandlerFrame
<1> QED  BY <1>1, <1>2, <1>3

LEMMA ShapeStep ==
    ASSUME PrShape, Pull!OwnNames, [Pull!Next]_(Pull!vars) PROVE PrShape'
<1>1. ASSUME NEW k \in Pull!Calls, Pull!Handle(k) PROVE PrShape'
  BY <1>1, FindShape, StartPrShape, MovesShape, StoppingShape, AbortShape DEF Pull!Handle
<1> QED  BY <1>1, ReceiveShape, StoppingShape, EndShape, TriggerShape, ShapeStays DEF Pull!Next

\* A hook stays on its way to the builds that ran when it came.
LEMMA ToStopKept ==
    ASSUME NEW k \in Pull!Calls, ToStop(k), script' = script, old'[k] = old[k], bad[k] => bad'[k],
           \A b \in old[k] :
              Run(b)' => /\ Run(b)
                         /\ /\ ppc[k] \in {"find", "stop"} /\ ~bad'[k] /\ Pull!Action(k) # "opened"
                            /\ \/ b[1] \in find[k] /\ job[Pull!JobOf(b)] = "active"
                               \/ Pull!JobOf(b) \in look[k]
                               \/ b \in due[k]
                            => /\ ppc'[k] \in {"find", "stop"}
                               /\ \/ b[1] \in find'[k] /\ job'[Pull!JobOf(b)] = "active"
                                  \/ Pull!JobOf(b) \in look'[k]
                                  \/ b \in due'[k]
    PROVE  ToStop(k)'
<1>1. /\ Pull!Action(k)' = Pull!Action(k) /\ Pull!StopsIn(k)' = Pull!StopsIn(k)
      /\ \A b : Pull!Pr(b[2])' = Pull!Pr(b[2]) /\ Pull!JobOf(b)' = Pull!JobOf(b)
  BY ScriptStays
<1> SUFFICES ASSUME NEW b \in old[k]
             PROVE  /\ Pull!Pr(b[2]) = Pull!Pr(k) /\ b[1] \in Pull!StopsIn(k)
                    /\ Run(b)' /\ Pull!Action(k) # "opened" /\ ~bad'[k] =>
                         /\ ppc'[k] \in {"find", "stop"}
                         /\ \/ b[1] \in find'[k] /\ job'[Pull!JobOf(b)] = "active"
                            \/ Pull!JobOf(b) \in look'[k]
                            \/ b \in due'[k]
  <2>1. Pull!Pr(k)' = Pull!Pr(k)
    BY ScriptStays
  <2> QED  BY <1>1, <2>1 DEF ToStop
<1> QED  BY DEF ToStop

LEMMA UnarchivedKept ==
    ASSUME NEW k \in Pull!Calls, NEW l \in Pull!Calls, Unarchived(k, l), script' = script, old'[k] = old[k],
           \A b \in old[k] :
              Run(b)' => /\ Run(b)
                         /\ Pull!JobOf(b) \in arch'[l] =>
                              /\ Pull!JobOf(b) \in arch[l] \/ Pull!JobOf(b) \in look'[l]
                              /\ Pull!JobOf(b) \in look[l] \/ b \in due[l] => Pull!JobOf(b) \in look'[l] \/ b \in due'[l]
    PROVE  Unarchived(k, l)'
<1>1. \A b : Pull!JobOf(b)' = Pull!JobOf(b)
  BY ScriptStays
<1> QED  BY <1>1 DEF Unarchived

\* Where nothing of a hook changes but perhaps other hooks, builds that end, and jobs that become active.
LEMMA StopFrame ==
    ASSUME PrShape, NEW k \in Pull!Calls, ToStop(k), script' = script,
           old'[k] = old[k], find'[k] = find[k], look'[k] = look[k], due'[k] = due[k],
           bad'[k] = bad[k], ppc'[k] = ppc[k],
           \A b \in Pull!Builds : build[b] # "none" => (Run(b)' => Run(b)),
           \A j \in Pull!Jobs : job[j] = "active" => job'[j] = "active"
    PROVE  ToStop(k)'
<1>1. ASSUME NEW b \in old[k] PROVE (Run(b)' => Run(b)) /\ Pull!JobOf(b) \in Pull!Jobs
  <2>1. b \in Pull!Builds /\ build[b] # "none"
    BY DEF PrShape, PrTyped, BuildsWell
  <2>2. b[2] \in Pull!Sent
    BY <2>1 DEF PrShape, BuildsWell
  <2>3. Pull!JobOf(b) \in Pull!Jobs
    BY <2>1, <2>2, ScriptWell DEF Pull!JobOf, Pull!Jobs, Pull!Builds, PrShape
  <2> QED  BY <2>1, <2>3
<1> QED  BY <1>1, ToStopKept

LEMMA ArchiveFrame ==
    ASSUME PrShape, NEW k \in Pull!Calls, NEW l \in Pull!Calls, Unarchived(k, l), script' = script,
           old'[k] = old[k], arch'[l] = arch[l], look'[l] = look[l], due'[l] = due[l],
           \A b \in Pull!Builds : build[b] # "none" => (Run(b)' => Run(b))
    PROVE  Unarchived(k, l)'
<1>1. \A b \in old[k] : b \in Pull!Builds /\ build[b] # "none"
  BY DEF PrShape, PrTyped, BuildsWell
<1> QED  BY <1>1, UnarchivedKept

LEMMA ReceiveStop ==
    ASSUME StopInv, Pull!OwnNames, NEW h \in Pull!Calls, Pull!Receive(h),
           NEW k \in Pull!Calls, NEW l \in Pull!Calls
    PROVE  ToStop(k)' /\ Unarchived(k, l)'
<1> USE DEF StopInv
<1>1. /\ UNCHANGED <<script, job, build, ended, look, due, arch, bad>>
      /\ h \in Pull!Sent /\ ppc[h] = "unsent"
      /\ old' = [old EXCEPT ![h] = {b \in Pull!RunningOf(Pull!Pr(h), Pull!StopsIn(h)) :
                                     job[Pull!JobOf(b)] = "active" /\ ~Pull!Closing(Pull!Pr(h))}]
  BY DEF Pull!Receive, Pull!rows
<1>2. \A b \in Pull!Builds : build[b] # "none" => (Run(b)' => Run(b))
  BY <1>1 DEF Run
<1>3. old \in [Pull!Calls -> SUBSET Pull!Builds] /\ ppc \in [Pull!Calls -> PrStates]
  BY DEF PrShape, PrTyped
<1>4. CASE k # h
  <2>1. old'[k] = old[k]
    BY <1>1, <1>3, <1>4
  <2>2. find'[k] = find[k] /\ ppc'[k] = ppc[k]
    BY <1>4 DEF Pull!Receive, PrShape, PrTyped
  <2>3. ToStop(k)'
    BY <1>1, <1>2, <2>1, <2>2, StopFrame
  <2>4. Unarchived(k, l)'
    BY <1>1, <1>2, <2>1, ArchiveFrame
  <2> QED  BY <2>3, <2>4
<1>5. CASE k = h
  <2>1. \A b \in old'[k] : /\ b \in Pull!Builds /\ build[b] = "QUEUED" /\ b[1] \in Pull!StopsIn(k)
                           /\ Pull!Pr(b[2]) = Pull!Pr(k) /\ job[Pull!JobOf(b)] = "active"
                           /\ ~Pull!Closing(Pull!Pr(k))
    BY <1>1, <1>3, <1>5 DEF Pull!RunningOf, Pull!Existing, Pull!Running
  <2>2. /\ Pull!Action(k)' = Pull!Action(k) /\ Pull!StopsIn(k)' = Pull!StopsIn(k)
        /\ Pull!Pr(k)' = Pull!Pr(k)
        /\ \A b : Pull!Pr(b[2])' = Pull!Pr(b[2]) /\ Pull!JobOf(b)' = Pull!JobOf(b)
    BY <1>1, ScriptStays
  <2>3. ASSUME NEW b \in old'[k], Pull!Action(k) # "opened"
        PROVE  ppc'[k] = "find" /\ b[1] \in find'[k]
    <3>1. Pull!StopsIn(k) # {}
      BY <2>1
    <3>2. ~(Pull!Action(k) # "closed" /\ Pull!To(k) = {})
      BY <3>1 DEF Pull!StopsIn
    <3>3. ppc' = [ppc EXCEPT ![k] = "find"] /\ find' = [find EXCEPT ![k] = Pull!StopsIn(k)]
      BY <1>5, <2>3, <3>1, <3>2 DEF Pull!Receive
    <3> QED  BY <1>3, <2>1, <3>3 DEF PrShape, PrTyped
  <2>4. ToStop(k)'
    BY <1>1, <2>1, <2>2, <2>3 DEF ToStop
  <2>5. ASSUME NEW b \in old'[k], Pull!JobOf(b) \in arch[l] PROVE FALSE
    <3>1. Pull!Action(l) = "closed" /\ Pull!JobOf(b)[2] = Pull!Pr(l) /\ ppc[l] \in {"find", "stop"} /\ l \in Pull!Sent
      BY <2>5 DEF PrShape, OwnJobs, HandlerWell, PrTyped, PrStates
    <3>2. Pull!Pr(l) = Pull!Pr(k)
      BY <2>1, <3>1 DEF Pull!JobOf
    <3>3. Pull!Closing(Pull!Pr(k))
      BY <3>1, <3>2 DEF Pull!Closing, Pull!InProgress
    <3> QED  BY <2>1, <3>3
  <2>6. Unarchived(k, l)'
    BY <1>1, <2>2, <2>5 DEF Unarchived
  <2> QED  BY <2>4, <2>6
<1> QED  BY <1>4, <1>5

\* A build that a hook has seen run, and its job.
LEMMA OldBuild ==
    ASSUME PrShape, NEW k \in Pull!Calls, NEW b \in old[k]
    PROVE  b \in Pull!Builds /\ build[b] # "none" /\ b[2] \in Pull!Sent /\ Pull!JobOf(b) \in Pull!Jobs
<1>1. b \in Pull!Builds /\ build[b] # "none"
  BY DEF PrShape, PrTyped, BuildsWell
<1>2. b[2] \in Pull!Sent
  BY <1>1 DEF PrShape, BuildsWell
<1>3. Pull!JobOf(b) \in Pull!Jobs
  BY <1>1, <1>2, ScriptWell DEF Pull!JobOf, Pull!Jobs, Pull!Builds, PrShape
<1> QED  BY <1>1, <1>2, <1>3

LEMMA FindStop ==
    ASSUME StopInv, NEW h \in Pull!Calls, NEW p \in Pull!Repo, Pull!FindJobs(h, p),
           NEW k \in Pull!Calls, NEW l \in Pull!Calls
    PROVE  ToStop(k)' /\ Unarchived(k, l)'
<1> USE DEF StopInv
<1> DEFINE js == Pull!PrJobs(h, p)
<1>0. /\ UNCHANGED <<script, job, build, ended, due, bad, old>>
      /\ ppc[h] = "find" /\ find' = [find EXCEPT ![h] = @ \ {p}]
      /\ look' = [look EXCEPT ![h] = @ \cup js]
      /\ arch' = [arch EXCEPT ![h] = IF Pull!Action(h) = "closed" THEN @ \cup js ELSE {}]
      /\ ppc' = [ppc EXCEPT ![h] = ppc'[h]] /\ ppc'[h] \in {"find", "stop"}
  BY DEF Pull!FindJobs, Pull!rows, Pull!hist, PrShape, PrTyped
<1>1. /\ \A m \in Pull!Calls : m # h => find'[m] = find[m] /\ look'[m] = look[m] /\ arch'[m] = arch[m] /\ ppc'[m] = ppc[m]
      /\ find'[h] = find[h] \ {p} /\ look'[h] = look[h] \cup js /\ arch'[h] \subseteq arch[h] \cup js
  BY <1>0 DEF PrShape, PrTyped
<1>2. \A b \in Pull!Builds : build[b] # "none" => (Run(b)' => Run(b))
  BY <1>0 DEF Run
<1>3. h \in Pull!Sent
  BY <1>0 DEF PrShape, HandlerWell
<1>4. ASSUME NEW b \in old[h], Run(b), job[Pull!JobOf(b)] = "active", b[1] = p PROVE Pull!JobOf(b) \in js
  <2>1. Pull!JobOf(b) \in Pull!Jobs
    BY OldBuild
  <2>2. Pull!JobOf(b)[1] = p /\ Pull!JobOf(b)[2] = Pull!Pr(h)
    BY <1>4 DEF ToStop, Pull!JobOf
  <2>3. <<Pull!Pr(h), Pull!Pr(h)>> \in PartOf
    BY <1>3, ScriptWell DEF PrShape
  <2> QED  BY <1>4, <2>1, <2>2, <2>3 DEF Pull!PrJobs
<1> HIDE DEF js
<1>5. ToStop(k)'
  <2>1. CASE k # h
    BY <1>0, <1>1, <1>2, <2>1, StopFrame
  <2>2. CASE k = h
    BY <1>0, <1>1, <1>4, <2>2, ToStopKept DEF Run
  <2> QED  BY <2>1, <2>2
<1>6. Unarchived(k, l)'
  <2>1. CASE l # h
    BY <1>0, <1>1, <1>2, <2>1, ArchiveFrame
  <2>2. CASE l = h
    BY <1>0, <1>1, <2>2, UnarchivedKept DEF Run
  <2> QED  BY <2>1, <2>2
<1> QED  BY <1>5, <1>6

LEMMA ReadStop ==
    ASSUME StopInv, NEW h \in Pull!Calls, NEW j \in Pull!Jobs, Pull!ReadRunning(h, j),
           NEW k \in Pull!Calls, NEW l \in Pull!Calls
    PROVE  ToStop(k)' /\ Unarchived(k, l)'
<1> USE DEF StopInv
<1>0. /\ UNCHANGED <<script, job, build, ended, find, ppc, arch, bad, old>>
      /\ look' = [look EXCEPT ![h] = @ \ {j}]
      /\ due' = [due EXCEPT ![h] = @ \cup Pull!RunningIn(j)]
  BY DEF Pull!ReadRunning, Pull!rows, Pull!hist
<1>1. /\ \A m \in Pull!Calls : m # h => look'[m] = look[m] /\ due'[m] = due[m]
      /\ look'[h] = look[h] \ {j} /\ due'[h] = due[h] \cup Pull!RunningIn(j)
  BY <1>0 DEF PrShape, PrTyped
<1>2. \A b \in Pull!Builds : build[b] # "none" => (Run(b)' => Run(b))
  BY <1>0 DEF Run
<1>3. \A b \in old[k] : Run(b) /\ Pull!JobOf(b) = j => b \in Pull!RunningIn(j)
  BY OldBuild DEF Pull!RunningIn, Pull!Existing, Pull!Running, Run
<1>4. ToStop(k)'
  <2>1. CASE k # h
    BY <1>0, <1>1, <1>2, <2>1, StopFrame
  <2>2. CASE k = h
    BY <1>0, <1>1, <1>3, <2>2, ToStopKept DEF Run
  <2> QED  BY <2>1, <2>2
<1>5. Unarchived(k, l)'
  <2>1. CASE l # h
    BY <1>0, <1>1, <1>2, <2>1, ArchiveFrame
  <2>2. CASE l = h
    BY <1>0, <1>1, <1>3, <2>2, UnarchivedKept DEF Run
  <2> QED  BY <2>1, <2>2
<1> QED  BY <1>4, <1>5

LEMMA FailStop ==
    ASSUME StopInv, NEW h \in Pull!Calls, NEW j \in Pull!Jobs, Pull!StopFails(h, j),
           NEW k \in Pull!Calls, NEW l \in Pull!Calls
    PROVE  ToStop(k)' /\ Unarchived(k, l)'
<1> USE DEF StopInv
<1>0. /\ UNCHANGED <<script, job, build, ended, find, ppc, old>>
      /\ bad' = [bad EXCEPT ![h] = TRUE]
      /\ look' = [look EXCEPT ![h] = @ \ {j}]
      /\ arch' = [arch EXCEPT ![h] = @ \ {j}]
      /\ due' = [due EXCEPT ![h] = {b \in @ : Pull!JobOf(b) # j}]
  BY DEF Pull!StopFails, Pull!rows, Pull!hist
<1>1. /\ \A m \in Pull!Calls : m # h => look'[m] = look[m] /\ due'[m] = due[m] /\ arch'[m] = arch[m] /\ bad'[m] = bad[m]
      /\ look'[h] = look[h] \ {j} /\ due'[h] = {b \in due[h] : Pull!JobOf(b) # j}
      /\ arch'[h] = arch[h] \ {j} /\ bad'[h]
  BY <1>0 DEF PrShape, PrTyped
<1>2. \A b \in Pull!Builds : build[b] # "none" => (Run(b)' => Run(b))
  BY <1>0 DEF Run
<1>4. ToStop(k)'
  <2>1. CASE k # h
    BY <1>0, <1>1, <1>2, <2>1, StopFrame
  <2>2. CASE k = h
    BY <1>0, <1>1, <2>2, ToStopKept DEF Run
  <2> QED  BY <2>1, <2>2
<1>5. Unarchived(k, l)'
  <2>1. CASE l # h
    BY <1>0, <1>1, <1>2, <2>1, ArchiveFrame
  <2>2. CASE l = h
    BY <1>0, <1>1, <2>2, UnarchivedKept DEF Run
  <2> QED  BY <2>1, <2>2
<1> QED  BY <1>4, <1>5

LEMMA ArchiveStop ==
    ASSUME StopInv, NEW h \in Pull!Calls, NEW j \in Pull!Jobs, Pull!Archive(h, j),
           NEW k \in Pull!Calls, NEW l \in Pull!Calls
    PROVE  ToStop(k)' /\ Unarchived(k, l)'
<1> USE DEF StopInv
<1>0. /\ UNCHANGED <<script, build, ended, find, look, due, ppc, bad, old>>
      /\ arch' = [arch EXCEPT ![h] = @ \ {j}] /\ job' = [job EXCEPT ![j] = "archived"]
      /\ j \in arch[h] \ look[h] /\ ~\E b \in due[h] : Pull!JobOf(b) = j
  BY DEF Pull!Archive, Pull!hist
<1>1. /\ \A m \in Pull!Calls : arch'[m] \subseteq arch[m]
      /\ \A i \in Pull!Jobs : i # j => job'[i] = job[i]
  BY <1>0 DEF PrShape, PrTyped
<1>2. \A b \in old[k] : Run(b)' => Run(b) /\ Pull!JobOf(b) # j /\ Pull!JobOf(b) \in Pull!Jobs
  BY <1>0, OldBuild DEF Run, Unarchived
<1>3. ToStop(k)'
  BY <1>0, <1>1, <1>2, ToStopKept
<1>4. Unarchived(k, l)'
  BY <1>0, <1>1, <1>2, UnarchivedKept
<1> QED  BY <1>3, <1>4

LEMMA AbortStop ==
    ASSUME StopInv, NEW h \in Pull!Calls, NEW b0 \in Pull!Builds, Pull!Abort(h, b0),
           NEW k \in Pull!Calls, NEW l \in Pull!Calls
    PROVE  ToStop(k)' /\ Unarchived(k, l)'
<1> USE DEF StopInv
<1>0. /\ UNCHANGED <<script, job, ended, find, look, arch, ppc, bad, old>>
      /\ due' = [due EXCEPT ![h] = @ \ {b0}] /\ build' = [build EXCEPT ![b0] = "ABORTED"]
  BY DEF Pull!Abort, Pull!hist
<1>1. \A m \in Pull!Calls : \A b : b \in due[m] /\ b # b0 => b \in due'[m]
  BY <1>0 DEF PrShape, PrTyped
<1>2. \A b \in old[k] : Run(b)' => Run(b) /\ b # b0
  BY <1>0, OldBuild DEF Run, PrShape, PrTyped
<1>3. ToStop(k)'
  BY <1>0, <1>1, <1>2, ToStopKept
<1>4. Unarchived(k, l)'
  BY <1>0, <1>1, <1>2, UnarchivedKept
<1> QED  BY <1>3, <1>4

LEMMA MovesStop ==
    ASSUME StopInv, NEW h \in Pull!Calls,
           \/ Pull!Stopped(h) \/ Pull!Answer(h) \/ \E p \in Pull!Repo : Pull!StartClosed(h, p),
           NEW k \in Pull!Calls, NEW l \in Pull!Calls
    PROVE  ToStop(k)' /\ Unarchived(k, l)'
<1> USE DEF StopInv
<1>0. /\ UNCHANGED <<script, job, build, ended, find, look, due, arch, bad, old>>
      /\ \A m \in Pull!Calls : m # h => ppc'[m] = ppc[m]
      /\ (ppc[h] = "stop" /\ look[h] = {} /\ due[h] = {}) \/ ppc[h] \in {"create", "closed"}
  BY DEF Pull!Stopped, Pull!StoppedAll, Pull!Answer, Pull!StartClosed, Pull!rows, Pull!hist, PrShape, PrTyped
<1>1. \A b \in Pull!Builds : build[b] # "none" => (Run(b)' => Run(b))
  BY <1>0 DEF Run
<1>2. Unarchived(k, l)'
  BY <1>0, <1>1, ArchiveFrame
<1>3. ToStop(k)'
  <2>1. CASE k # h
    BY <1>0, <1>1, <2>1, StopFrame
  <2>2. CASE k = h
    <3>1. ppc[h] = "stop" => find[h] = {}
      BY DEF PrShape, HandlerWell
    <3> QED  BY <1>0, <2>2, <3>1, ToStopKept DEF Run
  <2> QED  BY <2>1, <2>2
<1> QED  BY <1>2, <1>3

\* The steps of builds, and of events that start.
LEMMA BuildStop ==
    ASSUME StopInv, UNCHANGED <<script, find, look, due, arch, bad, ppc, old>>,
           \A b \in Pull!Builds : build[b] # "none" => (Run(b)' => Run(b)),
           \A j \in Pull!Jobs : job[j] = "active" => job'[j] = "active",
           NEW k \in Pull!Calls, NEW l \in Pull!Calls
    PROVE  ToStop(k)' /\ Unarchived(k, l)'
BY StopFrame, ArchiveFrame DEF StopInv

LEMMA BuildsStop ==
    ASSUME StopInv, NEW k \in Pull!Calls, NEW l \in Pull!Calls,
           \/ \E h \in Pull!Calls, p \in Pull!Repo : Pull!StartPr(h, p)
           \/ \E b \in Pull!Builds : Pull!End(b) \/ Pull!TriggerNext(b)
           \/ UNCHANGED Pull!vars
    PROVE  ToStop(k)' /\ Unarchived(k, l)'
<1>s. PrShape
  BY DEF StopInv
<1>1. ASSUME NEW h \in Pull!Calls, NEW p \in Pull!Repo, Pull!StartPr(h, p) PROVE ToStop(k)' /\ Unarchived(k, l)'
  <2>1. /\ UNCHANGED <<script, ended, find, look, due, arch, bad, ppc, pcode, old, calm>>
        /\ ppc[h] = "create" /\ p \in ptodo[h] /\ h \in Pull!Sent /\ p \in Pipelines
        /\ ptodo' = [ptodo EXCEPT ![h] = @ \ {p}] /\ pok' \in [Pull!Calls -> BOOLEAN]
        /\ <<p, h, 1>> \in Pull!Builds /\ build[<<p, h, 1>>] = "none" /\ build[<<p, h, 2>>] = "none"
        /\ build' = build \/ build' = [build EXCEPT ![<<p, h, 1>>] = "QUEUED"]
        /\ DOMAIN job' = Pull!Jobs
        /\ \A j \in Pull!Jobs : job'[j] = job[j] \/ (job'[j] = "active" /\ j[1] = p /\ j[2] = Pull!Pr(h))
        /\ build' # build => job'[<<p, Pull!Pr(h), 1>>] = "active"
    BY <1>s, <1>1, StartPrFacts
  <2>2. \A b \in Pull!Builds : build[b] # "none" => (Run(b)' => Run(b))
    BY <1>s, <2>1 DEF Run, PrShape, PrTyped
  <2> QED  BY <2>1, <2>2, BuildStop
<1>2. ASSUME NEW b \in Pull!Builds, Pull!End(b) PROVE ToStop(k)' /\ Unarchived(k, l)'
  <2>1. /\ UNCHANGED <<script, job, find, look, due, arch, ptodo, pok, bad, ppc, pcode, old, calm>>
        /\ \E s \in {"SUCCESS", "ABORTED"} : build' = [build EXCEPT ![b] = s]
    BY <1>2, EndFacts
  <2>2. \A c \in Pull!Builds : build[c] # "none" => (Run(c)' => Run(c))
    BY <1>s, <2>1 DEF Run, PrShape, PrTyped
  <2> QED  BY <2>1, <2>2, BuildStop
<1>3. ASSUME NEW b \in Pull!Builds, Pull!TriggerNext(b) PROVE ToStop(k)' /\ Unarchived(k, l)'
  <2>d. PICK d : d = <<b[1], b[2], 2>>
    OBVIOUS
  <2>1. /\ UNCHANGED <<script, job, find, look, due, arch, ptodo, pok, bad, ppc, pcode, old, calm>>
        /\ d \in Pull!Builds /\ build[d] = "none" /\ build' = [build EXCEPT ![d] = "QUEUED"]
    BY <1>s, <1>3, <2>d, TriggerFacts
  <2>2. \A c \in Pull!Builds : build[c] # "none" => (Run(c)' => Run(c))
    BY <1>s, <2>1 DEF Run, PrShape, PrTyped
  <2> QED  BY <2>1, <2>2, BuildStop
<1>4. CASE UNCHANGED Pull!vars
  <2>1. UNCHANGED <<script, job, build, find, look, due, arch, bad, ppc, old>>
    BY <1>4 DEF Pull!vars, Pull!rows, Pull!req, Pull!hist
  <2>2. \A c \in Pull!Builds : build[c] # "none" => (Run(c)' => Run(c))
    BY <2>1 DEF Run
  <2> QED  BY <2>1, <2>2, BuildStop
<1> QED  BY <1>1, <1>2, <1>3, <1>4

LEMMA StopStep ==
    ASSUME StopInv, Pull!OwnNames, [Pull!Next]_(Pull!vars) PROVE StopInv'
<1>1. PrShape'
  BY ShapeStep DEF StopInv
<1>2. ASSUME NEW k \in Pull!Calls, NEW l \in Pull!Calls PROVE ToStop(k)' /\ Unarchived(k, l)'
  <2>1. ASSUME NEW h \in Pull!Calls, Pull!Handle(h) PROVE ToStop(k)' /\ Unarchived(k, l)'
    BY <2>1, FindStop, ReadStop, ArchiveStop, AbortStop, MovesStop, BuildsStop DEF Pull!Handle
  <2> QED  BY <2>1, ReceiveStop, FailStop, BuildsStop DEF Pull!Next
<1> QED  BY <1>1, <1>2 DEF StopInv

\* The promise of a synchronized or a closed hook, for every script of hooks,
\* every set of pull requests whose names are not part of one another, and
\* any number of failures (helper.js, pullRequestEvent).
THEOREM OlderStopped ==
    ASSUME Pull!OwnNames PROVE Pull!Spec => []OlderBuildsStopped
<1>1. Pull!Init => StopInv
  BY PrInit
<1>2. StopInv /\ [Pull!Next]_(Pull!vars) => StopInv'
  BY StopStep
<1>3. StopInv => OlderBuildsStopped
  <2> SUFFICES ASSUME StopInv, NEW k \in Pull!Sent, Pull!Action(k) # "opened", pcode[k] \notin {0, 500},
                      NEW b \in old[k]
               PROVE  build[b] \in Pull!Done
      BY DEF OlderBuildsStopped, Pull!OlderBuildsStopped
  <2>1. k \in Pull!Calls /\ PrShape
    BY ScriptWell DEF StopInv, PrShape
  <2>2. ppc[k] = "done" /\ ~bad[k]
    BY <2>1 DEF PrShape, HandlerWell
  <2>3. ~Run(b)
    BY <2>1, <2>2 DEF StopInv, ToStop
  <2> QED  BY <2>1, <2>3, OldBuild DEF Run, PrShape, PrTyped, Pull!Done
<1> QED  BY <1>1, <1>2, <1>3, PTL DEF Pull!Spec

\* What a step leaves of the calm, once a hook has been received.
LEMMA AloneKept ==
    ASSUME NEW l \in Pull!Calls, Alone(l), calm'[l] => calm[l],
           \A m \in Pull!Calls : /\ ppc'[m] = "unsent" <=> ppc[m] = "unsent"
                                 /\ ppc[m] = "done" => ppc'[m] = "done"
    PROVE  Alone(l)'
BY DEF Alone

LEMMA CalmPrKept ==
    ASSUME PrShape, script' = script, NEW n,
           \A l \in Pull!Calls : ppc[l] # "unsent" => ppc'[l] # "unsent" /\ (calm'[l] => calm[l])
    PROVE  CalmPr(n)' => CalmPr(n)
<1>1. /\ Pull!Sent' = Pull!Sent /\ Pull!Sent \subseteq Pull!Calls
      /\ \A l : Pull!Action(l)' = Pull!Action(l) /\ Pull!Pr(l)' = Pull!Pr(l)
  BY ScriptStays, ScriptWell DEF PrShape
<1> QED  BY <1>1 DEF CalmPr

LEMMA ActiveKept ==
    ASSUME NEW n, JobsActive(n), script' = script, CalmPr(n)' => CalmPr(n),
           \A b \in Pull!Builds :
              Run(b)' /\ b[3] = 1 /\ Pull!Pr(b[2]) = n /\ CalmPr(n) =>
                 \/ Run(b) /\ (job[Pull!JobOf(b)] = "active" => job'[Pull!JobOf(b)] = "active")
                 \/ job'[Pull!JobOf(b)] = "active"
    PROVE  JobsActive(n)'
<1>1. \A b : Pull!JobOf(b)' = Pull!JobOf(b) /\ Pull!Pr(b[2])' = Pull!Pr(b[2])
  BY ScriptStays
<1>2. Pull!Builds' = Pull!Builds
  BY DEF Pull!Builds, Pull!Calls, Pull!Stages
<1> QED  BY <1>1, <1>2 DEF JobsActive

LEMMA ToArchiveKept ==
    ASSUME NEW l \in Pull!Calls, ToArchive(l), script' = script, calm'[l] = calm[l],
           \A b \in Pull!Builds :
              calm[l] /\ Run(b)' /\ b[3] = 1 /\ Pull!JobOf(b) \in arch'[l] =>
                 /\ Run(b)
                 /\ Pull!JobOf(b) \in arch[l] \/ Pull!JobOf(b) \in look'[l]
                 /\ Pull!JobOf(b) \in look[l] \/ b \in due[l] => Pull!JobOf(b) \in look'[l] \/ b \in due'[l],
           calm[l] /\ ppc'[l] \in {"find", "stop"} /\ Pull!Action(l) = "closed" /\ ~bad'[l] =>
              /\ ppc[l] \in {"find", "stop"} /\ ~bad[l]
              /\ \A j \in Pull!Jobs :
                    j[2] = Pull!Pr(l) /\ job'[j] = "active" =>
                       /\ job[j] = "active"
                       /\ j[1] \in find[l] \/ j \in arch[l] => j[1] \in find'[l] \/ j \in arch'[l]
    PROVE  ToArchive(l)'
<1>1. /\ \A b : Pull!JobOf(b)' = Pull!JobOf(b)
      /\ Pull!Action(l)' = Pull!Action(l) /\ Pull!Pr(l)' = Pull!Pr(l)
  BY ScriptStays
<1> QED  BY <1>1 DEF ToArchive

LEMMA QuietKept ==
    ASSUME PrShape, NEW l \in Pull!Calls, Emptied(l), script' = script, calm'[l] => calm[l],
           \A m \in Pull!Calls : ppc'[m] = "unsent" => ppc[m] = "unsent",
           ppc'[l] \in {"closed", "done"} /\ Pull!Action(l) = "closed" /\ ~bad'[l] =>
              ppc[l] \in {"closed", "done"} /\ ~bad[l],
           \A j \in Pull!Jobs : job'[j] = "active" => job[j] = "active"
    PROVE  Emptied(l)'
<1>1. /\ Pull!Sent' = Pull!Sent /\ Pull!Sent \subseteq Pull!Calls
      /\ \A i : Pull!Action(i)' = Pull!Action(i) /\ Pull!Pr(i)' = Pull!Pr(i)
  BY ScriptStays, ScriptWell DEF PrShape
<1> QED  BY <1>1 DEF Emptied

\* What every step but the receipt of a hook leaves.
LEMMA CalmFrame ==
    ASSUME CalmInv, UNCHANGED <<script, calm>>, NEW l \in Pull!Calls, NEW n \in PRs,
           \A m \in Pull!Calls : /\ ppc'[m] = "unsent" <=> ppc[m] = "unsent"
                                 /\ ppc[m] = "done" => ppc'[m] = "done",
           \A b \in Pull!Builds : Run(b)' /\ b[3] = 1 => Run(b),
           \A j \in Pull!Jobs : job'[j] = "active" => job[j] = "active"
    PROVE  /\ Alone(l)' /\ (CalmPr(n)' => CalmPr(n))
           /\ (\A j \in Pull!Jobs : job'[j] = job[j]) => JobsActive(n)'
           /\ (ppc'[l] \in {"closed", "done"} /\ Pull!Action(l) = "closed" /\ ~bad'[l] =>
                 ppc[l] \in {"closed", "done"} /\ ~bad[l]) => Emptied(l)'
           /\ find'[l] = find[l] /\ look'[l] = look[l] /\ arch'[l] = arch[l] /\ due'[l] = due[l]
              /\ bad'[l] = bad[l] /\ (ppc'[l] \in {"find", "stop"} => ppc[l] \in {"find", "stop"})
              => ToArchive(l)'
<1> USE DEF CalmInv
<1>1. Alone(l)'
  BY AloneKept
<1>2. CalmPr(n)' => CalmPr(n)
  BY CalmPrKept
<1>3. ASSUME \A j \in Pull!Jobs : job'[j] = job[j] PROVE JobsActive(n)'
  <2>1. ASSUME NEW b \in Pull!Builds, Run(b)', b[3] = 1
        PROVE  Run(b) /\ (job[Pull!JobOf(b)] = "active" => job'[Pull!JobOf(b)] = "active")
    <3>1. b[2] \in Pull!Sent
      BY <2>1 DEF PrShape, BuildsWell, Run
    <3>2. Pull!JobOf(b) \in Pull!Jobs
      BY <3>1, ScriptWell DEF Pull!JobOf, Pull!Jobs, Pull!Builds, PrShape
    <3> QED  BY <1>3, <2>1, <3>2
  <2> QED  BY <1>2, <2>1, ActiveKept
<1>4. ASSUME ppc'[l] \in {"closed", "done"} /\ Pull!Action(l) = "closed" /\ ~bad'[l] =>
                ppc[l] \in {"closed", "done"} /\ ~bad[l]
      PROVE  Emptied(l)'
  BY <1>4, QuietKept
<1>5. ASSUME find'[l] = find[l], look'[l] = look[l], arch'[l] = arch[l], due'[l] = due[l],
             bad'[l] = bad[l], ppc'[l] \in {"find", "stop"} => ppc[l] \in {"find", "stop"}
      PROVE  ToArchive(l)'
  BY <1>5, ToArchiveKept
<1> QED  BY <1>1, <1>2, <1>3, <1>4, <1>5

LEMMA ReceiveCalm ==
    ASSUME CalmInv, NEW k \in Pull!Calls, Pull!Receive(k), NEW l \in Pull!Calls, NEW n \in PRs
    PROVE  Alone(l)' /\ ToArchive(l)' /\ Emptied(l)' /\ JobsActive(n)'
<1> USE DEF CalmInv
<1>0. /\ UNCHANGED <<script, job, build, ended, look, due, arch, bad>>
      /\ k \in Pull!Sent /\ ppc[k] = "unsent"
      /\ calm' = [i \in Pull!Calls |-> IF i = k THEN ~\E h \in Pull!Calls : Pull!InProgress(h)
                                                ELSE calm[i] /\ ~Pull!InProgress(i)]
  BY DEF Pull!Receive, Pull!rows
<1>1. /\ \A i \in Pull!Calls : i # k => ppc'[i] = ppc[i] /\ find'[i] = find[i]
      /\ ppc'[k] # "unsent"
      /\ Pull!Action(k) = "closed" =>
            \/ ppc'[k] = "find" /\ find'[k] = Pull!Repo
            \/ ppc'[k] = "stop" /\ Pull!Repo = {}
  <2>1. ppc \in [Pull!Calls -> PrStates] /\ find \in [Pull!Calls -> SUBSET Pipelines]
    BY DEF PrShape, PrTyped
  <2>2. CASE Pull!Action(k) # "closed" /\ Pull!To(k) = {}
    BY <2>1, <2>2 DEF Pull!Receive
  <2>3. CASE ~(Pull!Action(k) # "closed" /\ Pull!To(k) = {}) /\ Pull!Action(k) = "opened"
    BY <2>1, <2>3 DEF Pull!Receive
  <2>4. CASE ~(Pull!Action(k) # "closed" /\ Pull!To(k) = {}) /\ Pull!Action(k) # "opened"
    BY <2>1, <2>4 DEF Pull!Receive, Pull!StopsIn
  <2> QED  BY <2>2, <2>3, <2>4
<1>2. /\ calm'[k] => \A h \in Pull!Calls : ppc[h] \in {"unsent", "done"}
      /\ \A i \in Pull!Calls : i # k /\ calm'[i] => calm[i] /\ ppc[i] \in {"unsent", "done"}
  BY <1>0 DEF Pull!InProgress
<1>3. \A i, h \in Pull!Calls : ppc[i] # "unsent" /\ h < i => ppc[h] # "unsent"
  BY DEF PrShape, HandlerWell
<1>4. \A i, h \in Pull!Calls : i < h \/ h < i \/ i = h
  BY PullAssumption DEF Pull!Calls, Pull!PullRequestAssumption
<1>5. Alone(l)'
  <2>1. CASE l = k
    <3>1. \A m \in Pull!Calls : m > k => ppc[m] = "unsent" /\ m # k
      BY <1>0, <1>3, PullAssumption DEF Pull!Calls, Pull!PullRequestAssumption
    <3>2. \A m \in Pull!Calls : m < k => ppc'[m] # "unsent" /\ m # k
      <4>1. HandlerWell(k)'
        BY ReceiveShape DEF PrShape
      <4> QED  BY <1>1, <4>1, PullAssumption DEF HandlerWell, Pull!Calls, Pull!PullRequestAssumption
    <3> QED  BY <1>1, <1>2, <2>1, <3>1, <3>2 DEF Alone
  <2>2. CASE l # k
    <3> SUFFICES ASSUME calm'[l], ppc[l] = "done"
                 PROVE  \A m \in Pull!Calls : m < l => ppc'[m] = "done"
        BY <1>1, <1>2, <2>2 DEF Alone
    <3>1. \A m \in Pull!Calls : m < l => ppc[m] = "done" /\ m # k
      BY <1>0, <1>2, <2>2 DEF Alone
    <3> QED  BY <1>1, <3>1
  <2> QED  BY <2>1, <2>2
<1>6. ToArchive(l)'
  <2>1. /\ Pull!Action(l)' = Pull!Action(l) /\ Pull!Pr(l)' = Pull!Pr(l)
        /\ \A b : Pull!JobOf(b)' = Pull!JobOf(b)
    BY <1>0, ScriptStays
  <2>2. CASE l = k
    <3>1. arch'[k] = {}
      BY <1>0 DEF PrShape, HandlerWell
    <3>2. \A j \in Pull!Jobs : job'[j] = "active" => j[1] \in Pull!Repo
      BY <1>0 DEF PrShape, BuildsWell
    <3> QED  BY <1>1, <2>1, <2>2, <3>1, <3>2 DEF ToArchive
  <2>3. CASE l # k
    <3>1. calm'[l] => calm[l] /\ ppc'[l] \notin {"find", "stop"} /\ arch'[l] = {}
      <4>1. ppc[l] \in {"unsent", "done"} => arch[l] = {}
        BY DEF PrShape, HandlerWell
      <4> QED  BY <1>0, <1>1, <1>2, <2>3, <4>1
    <3> QED  BY <3>1 DEF ToArchive
  <2> QED  BY <2>2, <2>3
<1>7. Emptied(l)'
  <2>1. CASE l = k
    <3>1. Pull!Action(l)' = Pull!Action(l)
      BY <1>0, ScriptStays
    <3> QED  BY <1>1, <2>1, <3>1 DEF Emptied
  <2>2. CASE l # k
    <3>1. calm'[l] => calm[l]
      BY <1>2, <2>2
    <3>2. \A m \in Pull!Calls : ppc'[m] = "unsent" => ppc[m] = "unsent"
      BY <1>0, <1>1
    <3>3. ppc'[l] = ppc[l] /\ bad'[l] = bad[l] /\ \A j \in Pull!Jobs : job'[j] = job[j]
      BY <1>0, <1>1, <2>2
    <3> QED  BY <1>0, <3>1, <3>2, <3>3, QuietKept
  <2> QED  BY <2>1, <2>2
<1>8. JobsActive(n)'
  <2>1. CalmPr(n)' => CalmPr(n)
    <3>1. \A i \in Pull!Calls : ppc[i] # "unsent" => ppc'[i] # "unsent" /\ (calm'[i] => calm[i])
      BY <1>0, <1>1, <1>2
    <3> QED  BY <1>0, <3>1, CalmPrKept
  <2> QED  BY <1>0, <2>1, ActiveKept DEF Run
<1> QED  BY <1>5, <1>6, <1>7, <1>8

LEMMA FindCalm ==
    ASSUME CalmInv, NEW h \in Pull!Calls, NEW p \in Pull!Repo, Pull!FindJobs(h, p),
           NEW l \in Pull!Calls, NEW n \in PRs
    PROVE  Alone(l)' /\ ToArchive(l)' /\ Emptied(l)' /\ JobsActive(n)'
<1> USE DEF CalmInv
<1> DEFINE js == Pull!PrJobs(h, p)
<1>0. /\ UNCHANGED <<script, job, build, due, bad, calm>>
      /\ ppc[h] = "find" /\ find' = [find EXCEPT ![h] = @ \ {p}]
      /\ look' = [look EXCEPT ![h] = @ \cup js]
      /\ arch' = [arch EXCEPT ![h] = IF Pull!Action(h) = "closed" THEN @ \cup js ELSE {}]
      /\ ppc' = [ppc EXCEPT ![h] = ppc'[h]] /\ ppc'[h] \in {"find", "stop"}
  BY DEF Pull!FindJobs, Pull!rows, Pull!hist, PrShape, PrTyped
<1>1. /\ \A m \in Pull!Calls : m # h => find'[m] = find[m] /\ look'[m] = look[m] /\ arch'[m] = arch[m] /\ ppc'[m] = ppc[m]
      /\ find'[h] = find[h] \ {p} /\ look'[h] = look[h] \cup js
      /\ arch'[h] \subseteq arch[h] \cup js /\ (Pull!Action(h) = "closed" => arch'[h] = arch[h] \cup js)
  BY <1>0 DEF PrShape, PrTyped
<1>2. \A m \in Pull!Calls : /\ ppc'[m] = "unsent" <=> ppc[m] = "unsent"
                            /\ ppc[m] = "done" => ppc'[m] = "done"
  BY <1>0, <1>1
<1>3. /\ \A b \in Pull!Builds : Run(b)' => Run(b)
      /\ \A j \in Pull!Jobs : job'[j] = job[j]
  BY <1>0 DEF Run
<1>4. ppc'[l] \in {"closed", "done"} => ppc[l] \in {"closed", "done"}
  BY <1>0, <1>1
<1>5. Alone(l)' /\ Emptied(l)' /\ JobsActive(n)'
  BY <1>0, <1>2, <1>3, <1>4, CalmFrame
<1>6. \A j \in Pull!Jobs : j[2] = Pull!Pr(h) /\ job[j] = "active" /\ j[1] = p => j \in js
  <2>1. <<Pull!Pr(h), Pull!Pr(h)>> \in PartOf
    BY <1>0, ScriptWell DEF PrShape, HandlerWell
  <2> QED  BY <2>1 DEF Pull!PrJobs
<1> HIDE DEF js
<1>7. ToArchive(l)'
  <2>1. CASE l # h
    BY <1>0, <1>1, <1>2, <1>3, <2>1, CalmFrame
  <2>2. CASE l = h
    BY <1>0, <1>1, <1>3, <1>6, <2>2, ToArchiveKept
  <2> QED  BY <2>1, <2>2
<1> QED  BY <1>5, <1>7

LEMMA ReadCalm ==
    ASSUME CalmInv, NEW h \in Pull!Calls, NEW j \in Pull!Jobs, Pull!ReadRunning(h, j),
           NEW l \in Pull!Calls, NEW n \in PRs
    PROVE  Alone(l)' /\ ToArchive(l)' /\ Emptied(l)' /\ JobsActive(n)'
<1> USE DEF CalmInv
<1>0. /\ UNCHANGED <<script, job, build, find, ppc, arch, bad, calm>>
      /\ look' = [look EXCEPT ![h] = @ \ {j}]
      /\ due' = [due EXCEPT ![h] = @ \cup Pull!RunningIn(j)]
  BY DEF Pull!ReadRunning, Pull!rows, Pull!hist
<1>1. /\ \A m \in Pull!Calls : m # h => look'[m] = look[m] /\ due'[m] = due[m]
      /\ look'[h] = look[h] \ {j} /\ due'[h] = due[h] \cup Pull!RunningIn(j)
  BY <1>0 DEF PrShape, PrTyped
<1>2. \A b \in Pull!Builds : Run(b) /\ Pull!JobOf(b) = j => b \in Pull!RunningIn(j)
  BY DEF Pull!RunningIn, Pull!Existing, Pull!Running, Run
<1>3. Alone(l)' /\ Emptied(l)' /\ JobsActive(n)'
  BY <1>0, CalmFrame DEF Run
<1>4. ToArchive(l)'
  <2>1. CASE l # h
    BY <1>0, <1>1, <2>1, CalmFrame DEF Run
  <2>2. CASE l = h
    BY <1>0, <1>1, <1>2, <2>2, ToArchiveKept DEF Run
  <2> QED  BY <2>1, <2>2
<1> QED  BY <1>3, <1>4

LEMMA FailCalm ==
    ASSUME CalmInv, NEW h \in Pull!Calls, NEW j \in Pull!Jobs, Pull!StopFails(h, j),
           NEW l \in Pull!Calls, NEW n \in PRs
    PROVE  Alone(l)' /\ ToArchive(l)' /\ Emptied(l)' /\ JobsActive(n)'
<1> USE DEF CalmInv
<1>0. /\ UNCHANGED <<script, job, build, find, ppc, calm>>
      /\ bad' = [bad EXCEPT ![h] = TRUE]
      /\ look' = [look EXCEPT ![h] = @ \ {j}]
      /\ arch' = [arch EXCEPT ![h] = @ \ {j}]
      /\ due' = [due EXCEPT ![h] = {b \in @ : Pull!JobOf(b) # j}]
  BY DEF Pull!StopFails, Pull!rows, Pull!hist
<1>1. /\ \A m \in Pull!Calls : m # h => look'[m] = look[m] /\ due'[m] = due[m] /\ arch'[m] = arch[m] /\ bad'[m] = bad[m]
      /\ look'[h] = look[h] \ {j} /\ due'[h] = {b \in due[h] : Pull!JobOf(b) # j}
      /\ arch'[h] = arch[h] \ {j} /\ bad'[h]
  BY <1>0 DEF PrShape, PrTyped
<1>2. ~bad'[l] => ~bad[l]
  BY <1>1
<1>3. Alone(l)' /\ Emptied(l)' /\ JobsActive(n)'
  BY <1>0, <1>2, CalmFrame DEF Run
<1>4. ToArchive(l)'
  <2>1. CASE l # h
    BY <1>0, <1>1, <2>1, CalmFrame DEF Run
  <2>2. CASE l = h
    BY <1>0, <1>1, <2>2, ToArchiveKept DEF Run
  <2> QED  BY <2>1, <2>2
<1> QED  BY <1>3, <1>4

LEMMA ArchiveCalm ==
    ASSUME CalmInv, NEW h \in Pull!Calls, NEW j \in Pull!Jobs, Pull!Archive(h, j),
           NEW l \in Pull!Calls, NEW n \in PRs
    PROVE  Alone(l)' /\ ToArchive(l)' /\ Emptied(l)' /\ JobsActive(n)'
<1> USE DEF CalmInv
<1>0. /\ UNCHANGED <<script, build, find, look, due, ppc, bad, calm>>
      /\ arch' = [arch EXCEPT ![h] = @ \ {j}] /\ job' = [job EXCEPT ![j] = "archived"]
      /\ j \in arch[h] \ look[h] /\ ~\E b \in due[h] : Pull!JobOf(b) = j
  BY DEF Pull!Archive, Pull!hist
<1>1. /\ \A m \in Pull!Calls : m # h => arch'[m] = arch[m]
      /\ arch'[h] = arch[h] \ {j}
      /\ \A i \in Pull!Jobs : job'[i] = IF i = j THEN "archived" ELSE job[i]
  BY <1>0 DEF PrShape, PrTyped
<1>2. \A i \in Pull!Jobs : job'[i] = "active" => job[i] = "active" /\ i # j
  BY <1>1
<1>3. Alone(l)' /\ Emptied(l)' /\ (CalmPr(n)' => CalmPr(n))
  BY <1>0, <1>2, CalmFrame DEF Run
<1>4. ToArchive(l)'
  BY <1>0, <1>1, <1>2, ToArchiveKept DEF Run
<1>5. JobsActive(n)'
  <2>1. ASSUME NEW b \in Pull!Builds, Run(b), b[3] = 1, Pull!Pr(b[2]) = n, CalmPr(n)
        PROVE  Pull!JobOf(b) # j /\ Pull!JobOf(b) \in Pull!Jobs
    <3>1. Pull!JobOf(b) \in Pull!Jobs
      <4>1. b[2] \in Pull!Sent
        BY <2>1 DEF PrShape, BuildsWell, Run
      <4> QED  BY <4>1, ScriptWell DEF Pull!JobOf, Pull!Jobs, Pull!Builds, PrShape
    <3>2. /\ Pull!Action(h) = "closed" /\ j[2] = Pull!Pr(h) /\ h \in Pull!Sent /\ ppc[h] # "unsent"
      BY <1>0 DEF PrShape, OwnJobs, HandlerWell
    <3>3. ASSUME Pull!JobOf(b) = j PROVE FALSE
      <4>1. n = Pull!Pr(h)
        BY <2>1, <3>2, <3>3 DEF Pull!JobOf
      <4>2. calm[h]
        BY <2>1, <3>2, <4>1 DEF CalmPr
      <4> QED  BY <1>0, <2>1, <3>3, <4>2 DEF ToArchive
    <3> QED  BY <3>1, <3>3
  <2>2. \A b \in Pull!Builds : Run(b)' => Run(b)
    BY <1>0 DEF Run
  <2> QED  BY <1>0, <1>1, <1>3, <2>1, <2>2, ActiveKept
<1> QED  BY <1>3, <1>4, <1>5

LEMMA AbortCalm ==
    ASSUME CalmInv, NEW h \in Pull!Calls, NEW b0 \in Pull!Builds, Pull!Abort(h, b0),
           NEW l \in Pull!Calls, NEW n \in PRs
    PROVE  Alone(l)' /\ ToArchive(l)' /\ Emptied(l)' /\ JobsActive(n)'
<1> USE DEF CalmInv
<1>0. /\ UNCHANGED <<script, job, find, look, arch, ppc, bad, calm>>
      /\ due' = [due EXCEPT ![h] = @ \ {b0}] /\ build' = [build EXCEPT ![b0] = "ABORTED"]
  BY DEF Pull!Abort, Pull!hist
<1>1. \A m \in Pull!Calls : \A b : b \in due[m] /\ b # b0 => b \in due'[m]
  BY <1>0 DEF PrShape, PrTyped
<1>2. \A b \in Pull!Builds : Run(b)' => Run(b) /\ b # b0
  BY <1>0 DEF Run, PrShape, PrTyped
<1>3. Alone(l)' /\ Emptied(l)' /\ JobsActive(n)'
  BY <1>0, <1>2, CalmFrame
<1>4. ToArchive(l)'
  BY <1>0, <1>1, <1>2, ToArchiveKept
<1> QED  BY <1>3, <1>4

LEMMA MovesCalm ==
    ASSUME CalmInv, NEW h \in Pull!Calls,
           \/ Pull!Stopped(h) \/ Pull!Answer(h) \/ \E p \in Pull!Repo : Pull!StartClosed(h, p),
           NEW l \in Pull!Calls, NEW n \in PRs
    PROVE  Alone(l)' /\ ToArchive(l)' /\ Emptied(l)' /\ JobsActive(n)'
<1> USE DEF CalmInv
<1>0. /\ UNCHANGED <<script, job, build, find, look, due, arch, bad, calm>>
      /\ \A m \in Pull!Calls : m # h => ppc'[m] = ppc[m]
      /\ \/ ppc[h] = "stop" /\ look[h] = {} /\ due[h] = {} /\ arch[h] = {}
            /\ ppc'[h] \in {"done", "create", "closed"}
         \/ ppc[h] \in {"create", "closed"} /\ ppc'[h] \in {"done", ppc[h]}
  BY DEF Pull!Stopped, Pull!StoppedAll, Pull!Answer, Pull!StartClosed, Pull!rows, Pull!hist, PrShape, PrTyped
<1>1. \A m \in Pull!Calls : /\ ppc'[m] = "unsent" <=> ppc[m] = "unsent"
                            /\ ppc[m] = "done" => ppc'[m] = "done"
                            /\ ppc'[m] \in {"find", "stop"} => ppc[m] \in {"find", "stop"}
  BY <1>0
<1>2. Alone(l)' /\ ToArchive(l)' /\ JobsActive(n)'
  BY <1>0, <1>1, CalmFrame DEF Run
<1>3. Emptied(l)'
  <2>1. CASE ppc'[l] \in {"closed", "done"} /\ Pull!Action(l) = "closed" /\ ~bad[l] =>
                ppc[l] \in {"closed", "done"}
    BY <1>0, <1>1, <2>1, CalmFrame DEF Run
  <2>2. CASE l = h /\ ppc[h] = "stop"
    <3>1. find[l] = {} /\ arch[l] = {}
      BY <1>0, <2>2 DEF PrShape, HandlerWell
    <3>2. Pull!Action(l)' = Pull!Action(l) /\ Pull!Pr(l)' = Pull!Pr(l)
      BY <1>0, ScriptStays
    <3> QED  BY <1>0, <2>2, <3>1, <3>2 DEF Emptied, ToArchive
  <2>3. CASE l = h /\ ppc[h] = "create"
    BY <2>1, <2>3 DEF PrShape, HandlerWell
  <2> QED  BY <1>0, <2>1, <2>2, <2>3
<1> QED  BY <1>2, <1>3

LEMMA StartPrCalm ==
    ASSUME CalmInv, NEW h \in Pull!Calls, NEW p \in Pull!Repo, Pull!StartPr(h, p),
           NEW l \in Pull!Calls, NEW n \in PRs
    PROVE  Alone(l)' /\ ToArchive(l)' /\ Emptied(l)' /\ JobsActive(n)'
<1>s. PrShape
  BY DEF CalmInv
<1>0. /\ UNCHANGED <<script, ended, find, look, due, arch, bad, ppc, pcode, old, calm>>
      /\ ppc[h] = "create" /\ p \in ptodo[h] /\ h \in Pull!Sent /\ p \in Pipelines
      /\ ptodo' = [ptodo EXCEPT ![h] = @ \ {p}] /\ pok' \in [Pull!Calls -> BOOLEAN]
      /\ <<p, h, 1>> \in Pull!Builds /\ build[<<p, h, 1>>] = "none" /\ build[<<p, h, 2>>] = "none"
      /\ build' = build \/ build' = [build EXCEPT ![<<p, h, 1>>] = "QUEUED"]
      /\ DOMAIN job' = Pull!Jobs
      /\ \A j \in Pull!Jobs : job'[j] = job[j] \/ (job'[j] = "active" /\ j[1] = p /\ j[2] = Pull!Pr(h))
      /\ build' # build => job'[<<p, Pull!Pr(h), 1>>] = "active"
  BY <1>s, StartPrFacts
<1> USE DEF CalmInv
<1>1. \A b \in Pull!Builds : Run(b)' => Run(b) \/ (b = <<p, h, 1>> /\ build' # build)
  BY <1>0 DEF Run, PrShape, PrTyped
<1>2. Alone(l)'
  BY <1>0, AloneKept
<1>3. CalmPr(n)' => CalmPr(n)
  BY <1>0, CalmPrKept
\* no calm close is at work while h starts events
<1>4. calm[l] => ppc[l] \notin {"find", "stop"} /\ arch[l] = {}
  <2>1. \A i, m \in Pull!Calls : i < m \/ m < i \/ i = m
    BY PullAssumption DEF Pull!Calls, Pull!PullRequestAssumption
  <2>2. CASE ppc[l] \in {"find", "stop"}
    <3> SUFFICES ASSUME calm[l] PROVE FALSE
        BY <2>2
    <3>1. h # l /\ (h < l => ppc[h] = "done") /\ (h > l => ppc[h] = "unsent")
      BY <1>0, <2>2 DEF Alone
    <3>2. h < l \/ h > l
      BY <3>1, PullAssumption DEF Pull!Calls, Pull!PullRequestAssumption
    <3> QED  BY <1>0, <3>1, <3>2
  <2>3. CASE ppc[l] \notin {"find", "stop"}
    BY <2>3 DEF PrShape, HandlerWell, PrTyped, PrStates
  <2> QED  BY <2>2, <2>3
<1>5. ToArchive(l)'
  BY <1>0, <1>4 DEF ToArchive
<1>6. Emptied(l)'
  <2>1. /\ Pull!Action(l)' = Pull!Action(l) /\ Pull!Pr(l)' = Pull!Pr(l) /\ Pull!Sent' = Pull!Sent
        /\ \A m : Pull!Pr(m)' = Pull!Pr(m)
    BY <1>0, ScriptStays
  <2> SUFFICES ASSUME calm[l], ppc[l] \in {"closed", "done"}, Pull!Action(l) = "closed", ~bad[l],
                      \A m \in Pull!Sent : m > l /\ Pull!Pr(m) = Pull!Pr(l) => ppc[m] = "unsent",
                      NEW j \in Pull!Jobs, j[2] = Pull!Pr(l)
               PROVE  job'[j] # "active"
      BY <1>0, <2>1 DEF Emptied
  <2>2. job[j] # "active"
    BY DEF Emptied
  <2>3. ASSUME Pull!Pr(h) = Pull!Pr(l) PROVE FALSE
    <3>1. h # l /\ ~(h > l) /\ (h < l => ppc[h] = "done")
      BY <1>0, <2>3 DEF Alone
    <3>2. h < l \/ h > l
      BY <3>1, PullAssumption DEF Pull!Calls, Pull!PullRequestAssumption
    <3> QED  BY <1>0, <3>1, <3>2
  <2> QED  BY <1>0, <2>2, <2>3
<1>7. JobsActive(n)'
  <2>1. \A b \in Pull!Builds : b = <<p, h, 1>> => Pull!JobOf(b) = <<p, Pull!Pr(h), 1>>
    BY DEF Pull!JobOf
  <2>2. ASSUME NEW b \in Pull!Builds, Run(b) PROVE Pull!JobOf(b) \in Pull!Jobs
    <3>1. b[2] \in Pull!Sent
      BY <2>2 DEF PrShape, BuildsWell, Run
    <3> QED  BY <3>1, ScriptWell DEF Pull!JobOf, Pull!Jobs, Pull!Builds, PrShape
  <2>3. \A b \in Pull!Builds : Run(b)' =>
          \/ Run(b) /\ (job[Pull!JobOf(b)] = "active" => job'[Pull!JobOf(b)] = "active")
          \/ job'[Pull!JobOf(b)] = "active"
    BY <1>0, <1>1, <2>1, <2>2
  <2> QED  BY <1>0, <1>3, <2>3, ActiveKept
<1> QED  BY <1>2, <1>5, <1>6, <1>7

LEMMA BuildsCalm ==
    ASSUME CalmInv, NEW l \in Pull!Calls, NEW n \in PRs,
           (\E b \in Pull!Builds : Pull!End(b) \/ Pull!TriggerNext(b)) \/ UNCHANGED Pull!vars
    PROVE  Alone(l)' /\ ToArchive(l)' /\ Emptied(l)' /\ JobsActive(n)'
<1>s. PrShape
  BY DEF CalmInv
<1>1. ASSUME NEW b \in Pull!Builds, Pull!End(b)
      PROVE  /\ UNCHANGED <<script, job, find, look, due, arch, bad, ppc, calm>>
             /\ \A c \in Pull!Builds : Run(c)' /\ c[3] = 1 => Run(c)
  <2>1. /\ UNCHANGED <<script, job, find, look, due, arch, ptodo, pok, bad, ppc, pcode, old, calm>>
        /\ build[b] = "QUEUED"
        /\ \E s \in {"SUCCESS", "ABORTED"} : build' = [build EXCEPT ![b] = s]
        /\ ended' = ended \/ (b[3] = 1 /\ ended' = ended \cup {b})
    BY <1>1, EndFacts
  <2> QED  BY <1>s, <2>1 DEF Run, PrShape, PrTyped
<1>2. ASSUME NEW b \in Pull!Builds, Pull!TriggerNext(b)
      PROVE  /\ UNCHANGED <<script, job, find, look, due, arch, bad, ppc, calm>>
             /\ \A c \in Pull!Builds : Run(c)' /\ c[3] = 1 => Run(c)
  <2>d. PICK d : d = <<b[1], b[2], 2>>
    OBVIOUS
  <2>1. /\ UNCHANGED <<script, job, find, look, due, arch, ptodo, pok, bad, ppc, pcode, old, calm>>
        /\ b \in ended /\ ended' = ended \ {b} /\ b[3] = 1 /\ build[b] \in {"SUCCESS", "ABORTED"}
        /\ d \in Pull!Builds /\ build[d] = "none" /\ <<d[1], d[2], 1>> = b
        /\ build' = [build EXCEPT ![d] = "QUEUED"]
    BY <1>s, <1>2, <2>d, TriggerFacts
  <2>2. d[3] = 2
    BY <2>d
  <2> QED  BY <1>s, <2>1, <2>2 DEF Run, PrShape, PrTyped
<1>3. CASE UNCHANGED Pull!vars
  BY <1>3, CalmFrame DEF Pull!vars, Pull!rows, Pull!req, Pull!hist, Run
<1>4. ASSUME /\ UNCHANGED <<script, job, find, look, due, arch, bad, ppc, calm>>
             /\ \A c \in Pull!Builds : Run(c)' /\ c[3] = 1 => Run(c)
      PROVE  Alone(l)' /\ ToArchive(l)' /\ Emptied(l)' /\ JobsActive(n)'
  BY <1>4, CalmFrame
<1> QED  BY <1>1, <1>2, <1>3, <1>4

LEMMA CalmStep ==
    ASSUME CalmInv, Pull!OwnNames, [Pull!Next]_(Pull!vars) PROVE CalmInv'
<1>1. PrShape'
  BY ShapeStep DEF CalmInv
<1>2. ASSUME NEW l \in Pull!Calls, NEW n \in PRs
      PROVE  Alone(l)' /\ ToArchive(l)' /\ Emptied(l)' /\ JobsActive(n)'
  <2>1. ASSUME NEW h \in Pull!Calls, Pull!Handle(h)
        PROVE  Alone(l)' /\ ToArchive(l)' /\ Emptied(l)' /\ JobsActive(n)'
    BY <2>1, FindCalm, ReadCalm, ArchiveCalm, AbortCalm, MovesCalm, StartPrCalm DEF Pull!Handle
  <2> QED  BY <2>1, ReceiveCalm, FailCalm, BuildsCalm DEF Pull!Next
<1>3. CASE PRs # {}
  <2>1. \A l \in Pull!Calls : Alone(l)' /\ ToArchive(l)' /\ Emptied(l)'
    BY <1>2, <1>3
  <2>2. \A n \in PRs : Pull!Calls # {} => JobsActive(n)'
    BY <1>2
  <2>3. Pull!Calls = {} => \A n \in PRs : JobsActive(n)'
    BY DEF JobsActive, Pull!Builds, Pull!Calls
  <2> QED  BY <1>1, <2>1, <2>2, <2>3 DEF CalmInv
<1>4. CASE PRs = {}
  <2>1. \A l \in Pull!Calls : ppc'[l] = "unsent"
    <3>1. Pull!Sent' = {}
      BY <1>1, <1>4, PullAssumption DEF PrShape, PrTyped, Pull!PullRequestAssumption, Pull!Sent
    <3> QED  BY <1>1, <3>1 DEF PrShape, HandlerWell
  <2>2. \A l \in Pull!Calls : arch'[l] = {}
    BY <1>1, <2>1 DEF PrShape, HandlerWell
  <2> QED  BY <1>1, <1>4, <2>1, <2>2 DEF CalmInv, Alone, ToArchive, Emptied
<1> QED  BY <1>3, <1>4

\* A PR closed with nothing else at work is quiet, whatever ran, failed or
\* was started before (helper.js, pullRequestClosed).
THEOREM ClosedQuiet ==
    ASSUME Pull!OwnNames PROVE Pull!Spec => []ClosedIsQuiet
<1>1. Pull!Init => CalmInv
  BY PrInit
<1>2. CalmInv /\ [Pull!Next]_(Pull!vars) => CalmInv'
  BY CalmStep
<1>3. CalmInv => ClosedIsQuiet
  <2> SUFFICES ASSUME CalmInv, NEW k \in Pull!Sent, Pull!Action(k) = "closed", ppc[k] = "done", ~bad[k],
                      \A l \in Pull!Sent :
                         Pull!Pr(l) = Pull!Pr(k) =>
                            IF l > k THEN ppc[l] = "unsent" ELSE Pull!Action(l) = "closed" => calm[l]
               PROVE  /\ \A j \in Pull!Jobs : j[2] = Pull!Pr(k) => job[j] # "active"
                      /\ \A b \in Pull!RunningOf(Pull!Pr(k), Pull!Repo) :
                           b[3] = 2 /\ build[<<b[1], b[2], 1>>] \in {"SUCCESS", "ABORTED"}
      BY DEF ClosedIsQuiet, Pull!ClosedIsQuiet
  <2>1. k \in Pull!Calls /\ Pull!Pr(k) \in PRs /\ PrShape
    BY ScriptWell DEF CalmInv, PrShape
  <2>2. calm[k]
    <3>1. ~(k > k)
      BY <2>1, PullAssumption DEF Pull!Calls, Pull!PullRequestAssumption
    <3> QED  BY <3>1
  <2>3. \A j \in Pull!Jobs : j[2] = Pull!Pr(k) => job[j] # "active"
    BY <2>1, <2>2 DEF CalmInv, Emptied
  <2>4. CalmPr(Pull!Pr(k))
    BY DEF CalmPr
  <2>5. ASSUME NEW b \in Pull!RunningOf(Pull!Pr(k), Pull!Repo)
        PROVE  b[3] = 2 /\ build[<<b[1], b[2], 1>>] \in {"SUCCESS", "ABORTED"}
    <3>1. b \in Pull!Builds /\ Run(b) /\ Pull!Pr(b[2]) = Pull!Pr(k)
      BY DEF Pull!RunningOf, Pull!Existing, Pull!Running, Run
    <3>2. b[2] \in Pull!Sent /\ b[3] \in {1, 2}
      BY <2>1, <3>1 DEF PrShape, BuildsWell, Run, Pull!Builds, Pull!Stages
    <3>3. Pull!JobOf(b) \in Pull!Jobs /\ Pull!JobOf(b)[2] = Pull!Pr(k)
      BY <2>1, <3>1, <3>2, ScriptWell DEF Pull!JobOf, Pull!Jobs, Pull!Builds, PrShape
    <3>4. b[3] # 1
      BY <2>1, <2>3, <2>4, <3>1, <3>3 DEF CalmInv, JobsActive
    <3> QED  BY <2>1, <3>1, <3>2, <3>4 DEF PrShape, BuildsWell, Run
  <2> QED  BY <2>3, <2>5
<1> QED  BY <1>1, <1>2, <1>3, PTL DEF Pull!Spec
=============================================================================
