------------------------- MODULE RemoteTriggerProofs -------------------------
(***************************************************************************)
(* One downstream event, and a join that starts after its sources only,    *)
(* for every set of sources and every wiring.                              *)
(***************************************************************************)
EXTENDS RemoteTrigger, FiniteSetTheorems, TLAPS

(* The types the argument needs, and the invariant. *)
EventInv == pc \in [Sources -> Labels] /\ Selection

(* The locks are free and there is at most the event the job belongs to. *)
LEMMA InitEvent == Init => EventInv
BY DEF Init, EventInv, Selection, SelectLocked, NoneAtCreate, Labels

(* A step that neither enters the selection nor creates an event keeps the   *)
(* invariant, whoever else holds the lock of the group event.                *)
LEMMA OutsideSelection ==
  ASSUME EventInv, NEW w \in Sources, NEW l \in Labels \ {"list", "create"},
         pc' = [pc EXCEPT ![w] = l], events' = events,
         glock' = glock \/ glock \in {w, NoSource}
  PROVE  EventInv'
<1>1. \A q \in Sources : pc'[q] \in {"list", "create"} =>
         q # w /\ pc[q] \in {"list", "create"} /\ glock = q /\ pc'[q] = pc[q]
  BY DEF EventInv, Selection, SelectLocked
<1>2. \A q \in Sources : pc'[q] \in {"list", "create"} => glock' = q
  BY <1>1, WiringAssumption
<1>3. QED
  BY <1>1, <1>2 DEF EventInv, Selection, SelectLocked, NoneAtCreate

(* The request that gets the lock is the only one in the selection. *)
LEMMA LockSelectEvent ==
  ASSUME EventInv, NEW w \in Sources, LockSelect(w)
  PROVE  EventInv'
<1>1. \A q \in Sources : pc[q] \notin {"list", "create"}
  BY WiringAssumption DEF EventInv, Selection, SelectLocked, LockSelect
<1>2. pc' = [pc EXCEPT ![w] = "list"] /\ glock' = w /\ events' = events
  BY DEF LockSelect, Goto, rows
<1>3. pc' \in [Sources -> Labels]
  BY <1>2 DEF EventInv, Labels
<1>4. \A q \in Sources : pc'[q] \in {"list", "create"} => q = w /\ pc'[q] = "list"
  BY <1>1, <1>2 DEF EventInv
<1>5. QED
  BY <1>2, <1>3, <1>4 DEF EventInv, Selection, SelectLocked, NoneAtCreate

(* It creates an event only if it has found none while holding the lock. *)
LEMMA ListEventsEvent ==
  ASSUME EventInv, NEW w \in Sources, ListEvents(w)
  PROVE  EventInv'
<1>1. CASE events = {}
  <2>1. pc' = [pc EXCEPT ![w] = "create"] /\ glock' = glock /\ events' = events
    BY <1>1 DEF ListEvents, Goto, rows
  <2>2. pc[w] = "list" /\ glock = w
    BY DEF ListEvents, EventInv, Selection, SelectLocked
  <2>3. pc' \in [Sources -> Labels]
    BY <2>1 DEF EventInv, Labels
  <2>4. QED
    BY <1>1, <2>1, <2>2, <2>3
    DEF EventInv, Selection, SelectLocked, NoneAtCreate
<1>2. CASE events # {}
  <2>1. /\ pc' = [pc EXCEPT ![w] = "lock"] /\ events' = events
        /\ glock' = glock \/ glock \in {w, NoSource}
    BY <1>2 DEF ListEvents, Goto, rows
  <2>2. QED
    BY <2>1, OutsideSelection DEF Labels
<1>3. QED
  BY <1>1, <1>2

(* The event created is the first one, and the lock keeps every other        *)
(* request out of the selection until it is there.                           *)
LEMMA CreateEventEvent ==
  ASSUME EventInv, NEW w \in Sources, CreateEvent(w)
  PROVE  EventInv'
<1>1. glock = w /\ events = {} /\ pc[w] = "create"
  BY DEF CreateEvent, EventInv, Selection, SelectLocked, NoneAtCreate
<1>2. events' = {1}
  <2>1. Cardinality(events) = 0
    BY <1>1, FS_EmptySet
  <2>2. events' = events \cup {Cardinality(events) + 1}
    BY DEF CreateEvent
  <2>3. QED
    BY <1>1, <2>1, <2>2
<1>3. pc' = [pc EXCEPT ![w] = "find"]
  BY DEF CreateEvent, Goto
<1>4. pc' \in [Sources -> Labels]
  BY <1>3 DEF EventInv, Labels
<1>5. \A q \in Sources : pc'[q] \notin {"list", "create"}
  BY <1>1, <1>3 DEF EventInv, Selection, SelectLocked
<1>6. QED
  BY <1>2, <1>4, <1>5 DEF EventInv, Selection, SelectLocked, NoneAtCreate

(* Every other step stays outside the selection. *)
LEMMA OtherStepsEvent ==
  ASSUME EventInv, NEW w \in Sources,
         \/ RemoveRead(w) \/ JoinData(w) \/ TriggerOwn(w) \/ ReadGroup(w)
         \/ LockNext(w) \/ Find(w) \/ StoreOr(w) \/ StoreJoin(w)
         \/ Check(w) \/ Drop(w) \/ Start(w) \/ Unlock(w) \/ TriggerRest(w)
         \/ \E s \in Ended : End(w, s)
  PROVE  EventInv'
<1>1. ASSUME NEW s \in Ended, End(w, s) PROVE EventInv'
  <2>1. /\ \E l \in {"data", "done", "remove"} : pc' = [pc EXCEPT ![w] = l]
        /\ events' = events /\ glock' = glock
    BY <1>1 DEF End, Goto, locks
  <2>2. QED
    BY <2>1, OutsideSelection DEF Labels
<1>2. CASE RemoveRead(w) \/ JoinData(w) \/ TriggerOwn(w) \/ ReadGroup(w)
  <2>1. /\ \E l \in {"done", "drop", "own", "lock", "group", "select"} :
              pc' = [pc EXCEPT ![w] = l]
        /\ events' = events /\ glock' = glock
    <3>1. CASE RemoveRead(w) BY <3>1 DEF RemoveRead, Goto, rows, locks
    <3>2. CASE JoinData(w) BY <3>2 DEF JoinData, Goto, rows, locks
    <3>3. CASE TriggerOwn(w) BY <3>3 DEF TriggerOwn, Goto, locks
    <3>4. CASE ReadGroup(w) BY <3>4 DEF ReadGroup, Goto, rows, locks
    <3>5. QED BY <1>2, <3>1, <3>2, <3>3, <3>4
  <2>2. QED
    BY <2>1, OutsideSelection DEF Labels
<1>3. CASE LockNext(w)
  <2>1. /\ pc' = [pc EXCEPT ![w] = "find"] /\ events' = events
        /\ glock' = glock \/ glock \in {w, NoSource}
    BY <1>3 DEF LockNext, Goto, rows
  <2>2. QED
    BY <2>1, OutsideSelection DEF Labels
<1>4. CASE Unlock(w) \/ TriggerRest(w)
  <2>1. /\ \E l \in {"done", "rest"} : pc' = [pc EXCEPT ![w] = l]
        /\ events' = events
        /\ glock' = glock \/ glock \in {w, NoSource}
    BY <1>4 DEF Unlock, TriggerRest, Goto, rows, locks
  <2>2. QED
    BY <2>1, OutsideSelection DEF Labels
<1>5. CASE Find(w) \/ StoreOr(w) \/ StoreJoin(w) \/ Check(w) \/ Drop(w) \/ Start(w)
  <2>1. /\ \E l \in {"store", "unlock", "check", "drop", "start"} :
              pc' = [pc EXCEPT ![w] = l]
        /\ events' = events /\ glock' = glock
    <3>1. CASE Find(w) BY <3>1 DEF Find, Goto, rows, locks
    <3>2. CASE StoreOr(w) BY <3>2 DEF StoreOr, Goto, locks
    <3>3. CASE StoreJoin(w) BY <3>3 DEF StoreJoin, Goto, locks
    <3>4. CASE Check(w) BY <3>4 DEF Check, Goto, rows, locks
    <3>5. CASE Drop(w) BY <3>5 DEF Drop, Goto, locks
    <3>6. CASE Start(w) BY <3>6 DEF Start, Goto, locks
    <3>7. QED BY <1>5, <3>1, <3>2, <3>3, <3>4, <3>5, <3>6
  <2>2. QED
    BY <2>1, OutsideSelection DEF Labels
<1>6. QED
  BY <1>1, <1>2, <1>3, <1>4, <1>5

LEMMA NextEvent == EventInv /\ [Next]_vars => EventInv'
<1> SUFFICES ASSUME EventInv, [Next]_vars PROVE EventInv'
  OBVIOUS
<1>1. CASE UNCHANGED vars
  BY <1>1 DEF vars, EventInv, Selection, SelectLocked, NoneAtCreate
<1>2. CASE Next
  <2>1. PICK w \in Sources : Step(w) \/ \E s \in Ended : End(w, s)
    BY <1>2 DEF Next
  <2>2. QED
    BY <2>1, LockSelectEvent, ListEventsEvent, CreateEventEvent, OtherStepsEvent
    DEF Step
<1>3. QED
  BY <1>1, <1>2

(* However many builds of the upstream event end together, and however the   *)
(* job is wired to them, its pipeline gets at most one event from them: the  *)
(* look for an event and its creation are atomic under the group event lock  *)
(* (triggerNextJobs, the part for external pipelines).                       *)
THEOREM SingleEvent == Spec => []OneEvent
<1>1. EventInv => OneEvent
  <2>1. Cardinality({}) = 0
    BY FS_EmptySet
  <2>2. Cardinality({1}) = 1
    BY FS_Singleton
  <2>3. QED
    BY <2>1, <2>2 DEF EventInv, Selection, OneEvent
<1>2. QED
  BY InitEvent, NextEvent, <1>1, PTL DEF Spec

-----------------------------------------------------------------------------
(* A join starts after its sources *)

StatusOf == {"NONE", "RUNNING"} \cup Ended

\* A source that another one starts does not exist before that one triggers.
NotYet ==
  \A s, w \in Sources : After[s] = w /\ pc[w] \in {"ready", "data", "own"} => st[s] = "NONE"

AllWell == \A s \in Sources : st[s] = "SUCCESS"

\* The verdict that the job may start is as good later on, and no start has
\* been made without it.
StartsWell ==
  wiring.join => /\ \A w \in Sources : pc[w] = "start" => AllWell
                 /\ \A e \in EventIds : starts[e] > 0 => AllWell

ParentsInv ==
  /\ st \in [Sources -> StatusOf] /\ pc \in [Sources -> Labels]
  /\ starts \in [EventIds -> Nat]
  /\ NotYet /\ StartsWell

LEMMA InitParents == ASSUME Init PROVE ParentsInv
<1>1. st \in [Sources -> StatusOf] /\ pc \in [Sources -> Labels] /\ starts \in [EventIds -> Nat]
  BY DEF Init, StatusOf, Labels
<1>2. NotYet
  BY WiringAssumption DEF Init, NotYet
<1>3. StartsWell
  BY DEF Init, StartsWell
<1> QED
  BY <1>1, <1>2, <1>3 DEF ParentsInv

\* A step that changes no status and starts nothing keeps the invariant if the
\* request does not go back before its first trigger, or decide to start.
LEMMA NoStart ==
  ASSUME ParentsInv, NEW w \in Sources, NEW l \in Labels,
         pc' = [pc EXCEPT ![w] = l], UNCHANGED <<wiring, st, starts>>,
         l \in {"ready", "data", "own"} => pc[w] \in {"ready", "data", "own"},
         l = "start" /\ wiring.join => AllWell
  PROVE  ParentsInv'
<1>1. pc' \in [Sources -> Labels]
  BY DEF ParentsInv
<1>2. \A q \in Sources : pc'[q] = IF q = w THEN l ELSE pc[q]
  BY DEF ParentsInv
<1>3. NotYet'
  BY <1>2 DEF ParentsInv, NotYet, After
<1>4. StartsWell'
  BY <1>2 DEF ParentsInv, StartsWell, AllWell
<1> QED
  BY <1>1, <1>3, <1>4 DEF ParentsInv, StatusOf

\* A build that ends was running, so not all sources were SUCCESS before.
LEMMA EndParents ==
  ASSUME ParentsInv, NEW w \in Sources, NEW s \in Ended, End(w, s)
  PROVE  ParentsInv'
<1>1. PICK l \in {"data", "done", "remove"} : pc' = [pc EXCEPT ![w] = l]
  BY DEF End, Goto
<1>2. /\ st' = [st EXCEPT ![w] = s] /\ st[w] = "RUNNING" /\ pc[w] = "ready"
      /\ UNCHANGED <<wiring, starts>>
  BY DEF End
<1>3. st' \in [Sources -> StatusOf] /\ pc' \in [Sources -> Labels]
  BY <1>1, <1>2 DEF ParentsInv, StatusOf, Labels
<1>4. ~AllWell
  BY <1>2 DEF AllWell
<1>5. \A q \in Sources : pc'[q] = IF q = w THEN l ELSE pc[q]
  BY <1>1 DEF ParentsInv
<1>6. NotYet'
  BY <1>2, <1>5 DEF ParentsInv, NotYet, After
<1>7. StartsWell'
  BY <1>2, <1>4, <1>5 DEF ParentsInv, StartsWell
<1> QED
  BY <1>2, <1>3, <1>6, <1>7 DEF ParentsInv

\* A source that is started by another did not exist, so not all were SUCCESS.
LEMMA TriggerParents ==
  ASSUME ParentsInv, NEW w \in Sources, TriggerOwn(w)
  PROVE  ParentsInv'
<1>1. PICK l \in {"lock", "group"} : pc' = [pc EXCEPT ![w] = l]
  BY DEF TriggerOwn, Goto
<1>2. PICK S \in SUBSET {s \in Sources : After[s] = w} :
        st' = [s \in Sources |-> IF s \in S THEN "RUNNING" ELSE st[s]]
  BY DEF TriggerOwn
<1> pc[w] = "own" /\ UNCHANGED <<wiring, starts>>
  BY DEF TriggerOwn
<1>3. st' \in [Sources -> StatusOf] /\ pc' \in [Sources -> Labels]
  BY <1>1, <1>2 DEF ParentsInv, StatusOf, Labels
<1>4. \A q \in Sources : pc'[q] = IF q = w THEN l ELSE pc[q]
  BY <1>1 DEF ParentsInv
<1>5. NotYet'
  BY <1>2, <1>4 DEF ParentsInv, NotYet, After
<1>6. AllWell => \A s \in Sources : st'[s] = "SUCCESS"
  BY <1>2 DEF ParentsInv, NotYet, AllWell
<1>7. StartsWell'
  BY <1>2, <1>4, <1>6 DEF ParentsInv, StartsWell, AllWell
<1> QED
  BY <1>2, <1>3, <1>5, <1>7 DEF ParentsInv

\* Neither did one that is started at the end.
LEMMA RestParents ==
  ASSUME ParentsInv, NEW w \in Sources, TriggerRest(w)
  PROVE  ParentsInv'
<1>1. /\ st' = [s \in Sources |-> IF After[s] = w /\ st[s] = "NONE" THEN "RUNNING" ELSE st[s]]
      /\ pc' = [pc EXCEPT ![w] = "done"] /\ pc[w] = "rest" /\ UNCHANGED <<wiring, starts>>
  BY DEF TriggerRest, Goto
<1>2. st' \in [Sources -> StatusOf] /\ pc' \in [Sources -> Labels]
  BY <1>1 DEF ParentsInv, StatusOf, Labels
<1>3. \A q \in Sources : pc'[q] = IF q = w THEN "done" ELSE pc[q]
  BY <1>1 DEF ParentsInv
<1>4. NotYet'
  BY <1>1, <1>3 DEF ParentsInv, NotYet, After
<1>5. StartsWell'
  BY <1>1, <1>3 DEF ParentsInv, StartsWell, AllWell
<1> QED
  BY <1>1, <1>2, <1>4, <1>5 DEF ParentsInv

\* The join decides by the statuses of all its sources, read in one go.
LEMMA CheckParents ==
  ASSUME ParentsInv, NEW w \in Sources, Check(w)
  PROVE  ParentsInv'
<1> DEFINE l == IF ~AllEnded(nb[w]) \/ nb[w].status # "CREATED" THEN "unlock"
                ELSE IF SomeFailed(nb[w]) THEN "drop" ELSE "start"
<1>1. pc' = [pc EXCEPT ![w] = l] /\ UNCHANGED <<wiring, st, starts>>
  BY DEF Check, Goto, rows
<1>2. l = "start" => AllWell
  BY DEF AllEnded, SomeFailed, AllWell, Ended
<1>3. l \in {"unlock", "drop", "start"}
  OBVIOUS
<1> HIDE DEF l
<1> QED
  BY <1>1, <1>2, <1>3, NoStart DEF Labels

LEMMA StartParents ==
  ASSUME ParentsInv, NEW w \in Sources, Start(w) \/ StoreOr(w)
  PROVE  ParentsInv'
<1>1. /\ pc' = [pc EXCEPT ![w] = "unlock"] /\ UNCHANGED <<wiring, st>>
      /\ starts' = starts \/ starts' = [starts EXCEPT ![ev[w]] = @ + 1]
      /\ wiring.join => AllWell
  BY DEF Start, StoreOr, Goto, ParentsInv, StartsWell
<1>2. pc' \in [Sources -> Labels] /\ starts' \in [EventIds -> Nat]
  BY <1>1 DEF ParentsInv, Labels
<1>3. \A q \in Sources : pc'[q] = IF q = w THEN "unlock" ELSE pc[q]
  BY <1>1 DEF ParentsInv
<1>4. NotYet'
  BY <1>1, <1>3 DEF ParentsInv, NotYet, After
<1>5. StartsWell'
  BY <1>1 DEF StartsWell, AllWell
<1> QED
  BY <1>1, <1>2, <1>4, <1>5 DEF ParentsInv, StatusOf

LEMMA StepParents ==
  ASSUME ParentsInv, NEW w \in Sources, Step(w)
  PROVE  ParentsInv'
<1>1. CASE RemoveRead(w) \/ ReadGroup(w) \/ LockSelect(w) \/ ListEvents(w) \/ CreateEvent(w)
  <2>1. /\ \E l \in {"done", "drop", "select", "lock", "list", "create", "find"} :
              pc' = [pc EXCEPT ![w] = l]
        /\ UNCHANGED <<wiring, st, starts>>
    BY <1>1 DEF RemoveRead, ReadGroup, LockSelect, ListEvents, CreateEvent, Goto, rows
  <2> QED
    BY <2>1, NoStart DEF Labels
<1>2. CASE JoinData(w)
  <2>1. pc[w] = "data" /\ pc' = [pc EXCEPT ![w] = "own"] /\ UNCHANGED <<wiring, st, starts>>
    BY <1>2 DEF JoinData, Goto, rows
  <2> QED
    BY <2>1, NoStart DEF Labels
<1>3. CASE LockNext(w) \/ Unlock(w) \/ Find(w) \/ StoreJoin(w) \/ Drop(w)
  <2>1. /\ \E l \in {"find", "done", "rest", "store", "check", "unlock"} :
              pc' = [pc EXCEPT ![w] = l]
        /\ UNCHANGED <<wiring, st, starts>>
    BY <1>3 DEF LockNext, Unlock, Find, StoreJoin, Drop, Goto, rows
  <2> QED
    BY <2>1, NoStart DEF Labels
<1>4. CASE TriggerOwn(w)
  BY <1>4, TriggerParents
<1>5. CASE Check(w)
  BY <1>5, CheckParents
<1>6. CASE Start(w) \/ StoreOr(w)
  BY <1>6, StartParents
<1>7. CASE TriggerRest(w)
  BY <1>7, RestParents
<1> QED
  BY <1>1, <1>2, <1>3, <1>4, <1>5, <1>6, <1>7 DEF Step

LEMMA NextParents == ParentsInv /\ [Next]_vars => ParentsInv'
<1> SUFFICES ASSUME ParentsInv, [Next]_vars PROVE ParentsInv'
  OBVIOUS
<1>1. CASE UNCHANGED vars
  BY <1>1 DEF vars, ParentsInv, StatusOf, NotYet, StartsWell, AllWell, After
<1>2. CASE Next
  BY <1>2, StepParents, EndParents DEF Next
<1> QED
  BY <1>1, <1>2

\* A job that requires several jobs, of whatever pipelines, is started only when
\* all of them have succeeded, however many of them end together, whatever
\* they read before they lock, and although one may start another
\* (RemoteJoin, AndTrigger, handleNewBuild).
THEOREM JoinAfterAll == Spec => []RemoteParents
<1>1. ParentsInv => RemoteParents
  BY DEF ParentsInv, StartsWell, AllWell, RemoteParents
<1>2. Init => ParentsInv
  BY InitParents
<1> QED
  BY <1>1, <1>2, NextParents, PTL DEF Spec
=============================================================================
