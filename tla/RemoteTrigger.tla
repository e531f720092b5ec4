----------------------------- MODULE RemoteTrigger -----------------------------
(***************************************************************************)
(* One job whose sources are jobs of other pipelines:                      *)
(*   plugins/builds/index.js       triggerNextJobs, the part for external  *)
(*                                 pipelines; removeJoinBuilds             *)
(*   plugins/builds/triggers/      RemoteTrigger, RemoteJoin, helpers      *)
(*                                                                         *)
(* A source may trigger the job in three ways:                             *)
(*   "forth"  its pipeline is upstream: the event of the job's pipeline is *)
(*            looked up by its parent event, or created;                   *)
(*   "back"   it runs in an event that the event of the job has triggered  *)
(*            (requires: [sd@2:x]), which it knows from its parentBuilds;  *)
(*   "local"  it is a job of the event itself; AndTrigger, see JoinTrigger.*)
(* Each way takes its own lock.  A source may start others, which have no  *)
(* build before.                                                           *)
(***************************************************************************)
EXTENDS Naturals, FiniteSets

CONSTANTS
  Sources,  \* the source jobs, one build each
  Wirings,  \* the ways the job may be wired, one of which Init chooses
  NoSource

ASSUME WiringAssumption ==
  /\ NoSource \notin Sources
  /\ Wirings \subseteq [kind    : [Sources -> {"forth", "back", "local"}],
                        after   : [Sources -> Sources \cup {NoSource}],
                        ignored : [Sources -> SUBSET Sources],
                        join    : BOOLEAN]
  /\ \A w \in Wirings : \A s, t \in Sources :
       w.kind[s] = "forth" => w.kind[t] = "forth"

VARIABLES
  wiring,  \* kind: how each source triggers the job; after: the source that
           \* starts it, or NoSource; join: the job requires them all;
           \* ignored: the sources whose builds its request does not look up
  st,      \* builds table, source builds: source -> status
  events,  \* events table: the events of the job's pipeline
  build,   \* builds table, builds of the job: build id -> row
  nextId,  \* the next build id
  starts,  \* history: event -> how often a build of the job was started in it
  glock,   \* lock pipeline:<id>:groupEvent:<id>
  elock,   \* event -> lock pipeline:<id>:event:<id>
  pc,      \* per source, where the request that ends its build is
  joined,  \* per request, whether the join list of the job is known to it
  seen,    \* per request, sources that have a build, as it has read them
  last,    \* per request, the latest build of the job as it has read it
  ev,      \* per request, the event it triggers the job in
  locked,  \* per request, whether it locks that event
  nb       \* per request, its build object of the job

vars  == <<wiring, st, events, build, nextId, starts, glock, elock, pc,
           joined, seen, last, ev, locked, nb>>
rows  == <<wiring, st, events, build, nextId, starts>>
locks == <<glock, elock>>
mine  == <<joined, seen, last, ev, locked, nb>>

-----------------------------------------------------------------------------
NoEvent  == 0
EventIds == 1..Cardinality(Sources)
NoBuild  == [id |-> 0]
Kind(w)  == wiring.kind[w]
After    == wiring.after
Forth    == \A w \in Sources : Kind(w) = "forth"
Started  == {s \in Sources : st[s] # "NONE"}
Ended    == {"SUCCESS", "FAILURE"}
Labels   == {"ready", "remove", "data", "own", "group", "select", "list",
             "create", "lock", "find", "store", "check", "drop", "start",
             "unlock", "rest", "done"}

RowsIn(e)  == {i \in DOMAIN build : build[i].event = e}
LatestOf(S) == IF S = {} THEN NoBuild
               ELSE build[CHOOSE i \in S : \A j \in S : j <= i]

Without(i)  == [j \in DOMAIN build \ {i} |-> build[j]]
Insert(r)   == /\ build'  = [i \in DOMAIN build \cup {r.id} |->
                               IF i = r.id THEN r ELSE build[i]]
               /\ nextId' = nextId + 1

(* The sources the build of a source descends from: its parentBuilds. *)
Ancestors[w \in Sources \cup {NoSource}] ==
  IF w = NoSource \/ After[w] = NoSource THEN {}
  ELSE {After[w]} \cup Ancestors[After[w]]

(* parseJobInfo and mergeParentBuilds.  The join list is read from the        *)
(* event's workflow graph before the event is looked up; without an event     *)
(* there is none, and nothing is looked up.  Nor is a build of another event  *)
(* than the source's whose job follows the startFrom of the event in the      *)
(* graph (ignoreJobs): the event's own jobs for a source outside it, and for  *)
(* a job of the event those of other pipelines it triggers.                   *)
ParentsOf(w) ==
  {w} \cup Ancestors[w] \cup {s \in seen[w] \ wiring.ignored[w] : joined[w]}

(* Mutant: parents nobody has heard of do not hold the join up. *)
KnownEnded(b) == \A s \in b.parents : st[s] \in Ended

(* getParentBuildStatus *)
AllEnded(b)  == b.parents = Sources /\ \A s \in Sources : st[s] \in Ended
SomeFailed(b) == \E s \in b.parents : st[s] = "FAILURE"

-----------------------------------------------------------------------------
Init ==
  /\ wiring \in Wirings
  /\ st     = [s \in Sources |-> IF After[s] = NoSource THEN "RUNNING" ELSE "NONE"]
  /\ events = IF Forth THEN {} ELSE {1}
  /\ build  = [i \in {} |-> NoBuild]
  /\ nextId = 1
  /\ starts = [e \in EventIds |-> 0]
  /\ glock  = NoSource
  /\ elock  = [e \in EventIds |-> NoSource]
  /\ pc     = [w \in Sources |-> "ready"]
  /\ joined = [w \in Sources |-> FALSE]
  /\ seen   = [w \in Sources |-> {}]
  /\ last   = [w \in Sources |-> NoBuild]
  /\ ev     = [w \in Sources |-> NoEvent]
  /\ locked = [w \in Sources |-> FALSE]
  /\ nb     = [w \in Sources |-> NoBuild]

Goto(w, l) == pc' = [pc EXCEPT ![w] = l]

(* The terminal status is written. *)
End(w, s) ==
  /\ pc[w] = "ready" /\ st[w] = "RUNNING"
  /\ st' = [st EXCEPT ![w] = s]
  /\ Goto(w, IF s = "SUCCESS" THEN "data" ELSE IF Forth THEN "done" ELSE "remove")
  /\ UNCHANGED <<wiring, events, build, nextId, starts, locks, mine>>

(* removeJoinBuilds reads a build of the job and removes it if it is CREATED;  *)
(* a source that knows no event of the job's pipeline removes nothing.         *)
RemoveRead(w) ==
  /\ pc[w] = "remove"
  /\ \/ /\ \A i \in RowsIn(1) : build[i].status # "CREATED"
        /\ Goto(w, "done") /\ UNCHANGED nb
     \/ \E i \in RowsIn(1) :
          IF build[i].status = "CREATED"
          THEN nb' = [nb EXCEPT ![w] = build[i]] /\ Goto(w, "drop")
          ELSE Goto(w, "done") /\ UNCHANGED nb
  /\ UNCHANGED <<rows, locks, joined, seen, last, ev, locked>>

(* createJoinObject *)
JoinData(w) ==
  /\ pc[w] = "data"
  /\ joined' = [joined EXCEPT ![w] = events # {}]
  /\ ev' = [ev EXCEPT ![w] = IF Forth THEN NoEvent ELSE 1]
  /\ Goto(w, "own")
  /\ UNCHANGED <<rows, locks, seen, last, locked, nb>>

(* Mutant: jobs of other pipelines are not left for the end. *)
TriggerAll(w) ==
  /\ pc[w] = "own"
  /\ st' = [s \in Sources |-> IF After[s] = w THEN "RUNNING" ELSE st[s]]
  /\ Goto(w, IF Kind(w) = "local" THEN "lock" ELSE "group")
  /\ UNCHANGED <<wiring, events, build, nextId, starts, locks, mine>>

(* The other next jobs of the source, among them sources, are started before *)
(* the job or after it, those of its own pipeline before all others.         *)
TriggerOwn(w) ==
  /\ pc[w] = "own"
  /\ \E S \in SUBSET {s \in Sources : After[s] = w /\ (Kind(w) = "local" => Kind(s) = "local")} :
       st' = [s \in Sources |-> IF s \in S THEN "RUNNING" ELSE st[s]]
  /\ Goto(w, IF Kind(w) = "local" THEN "lock" ELSE "group")
  /\ UNCHANGED <<wiring, events, build, nextId, starts, locks, mine>>

TriggerRest(w) ==
  /\ pc[w] = "rest"
  /\ st' = [s \in Sources |-> IF After[s] = w /\ st[s] = "NONE" THEN "RUNNING" ELSE st[s]]
  /\ Goto(w, "done")
  /\ UNCHANGED <<wiring, events, build, nextId, starts, locks, mine>>

(* The builds of the group event are read before any lock is taken. *)
ReadGroup(w) ==
  /\ pc[w] = "group"
  /\ seen' = [seen EXCEPT ![w] = Started]
  /\ last' = [last EXCEPT ![w] = LatestOf(DOMAIN build)]
  /\ Goto(w, IF Kind(w) = "forth" THEN "select" ELSE "lock")
  /\ locked' = [locked EXCEPT ![w] = Kind(w) = "back"]
  /\ UNCHANGED <<rows, locks, joined, ev, nb>>

-----------------------------------------------------------------------------
(* Mutant: the event is looked for before the lock is taken. *)
GrabSelect(w) ==
  /\ pc[w] = "select"
  /\ Goto(w, "list")
  /\ UNCHANGED <<rows, glock, elock, mine>>

(* The event is found or created under the lock of its group event. *)
LockSelect(w) ==
  /\ pc[w] = "select" /\ glock = NoSource
  /\ glock' = w
  /\ Goto(w, "list")
  /\ UNCHANGED <<rows, elock, mine>>

(* getSameParentEvents *)
ListEvents(w) ==
  /\ pc[w] = "list"
  /\ IF events = {} THEN Goto(w, "create") /\ UNCHANGED <<ev, locked, glock>>
     ELSE /\ ev'     = [ev EXCEPT ![w] = CHOOSE e \in events : \A f \in events : e <= f]
          /\ locked' = [locked EXCEPT ![w] = TRUE]
          /\ glock'  = IF glock = w THEN NoSource ELSE glock
          /\ Goto(w, "lock")
  /\ UNCHANGED <<rows, elock, joined, seen, last, nb>>

(* createExternalEvent; the event created here is used without a lock. *)
CreateEvent(w) ==
  LET e == Cardinality(events) + 1
  IN
  /\ pc[w] = "create"
  /\ events' = events \cup {e}
  /\ ev' = [ev EXCEPT ![w] = e]
  /\ glock' = IF glock = w THEN NoSource ELSE glock
  /\ Goto(w, "find")
  /\ UNCHANGED <<wiring, st, build, nextId, starts, elock, joined, seen, last, locked, nb>>

-----------------------------------------------------------------------------
LockNext(w) ==
  /\ pc[w] = "lock"
  /\ IF locked[w]
     THEN /\ elock[ev[w]] = NoSource /\ elock' = [elock EXCEPT ![ev[w]] = w]
          /\ UNCHANGED glock
     ELSE /\ glock = NoSource /\ glock' = w
          /\ UNCHANGED elock
  /\ Goto(w, "find")
  /\ UNCHANGED <<rows, mine>>

Unlock(w) ==
  /\ pc[w] = "unlock"
  /\ glock' = IF glock = w THEN NoSource ELSE glock
  /\ elock' = [e \in EventIds |-> IF elock[e] = w THEN NoSource ELSE elock[e]]
  /\ nb'    = [nb EXCEPT ![w] = NoBuild]
  /\ Goto(w, IF st[w] = "SUCCESS" THEN "rest" ELSE "done")
  /\ UNCHANGED <<rows, joined, seen, last, ev, locked>>

(* AndTrigger reads the builds under its lock, RemoteTrigger some build of the *)
(* job; RemoteJoin takes the build it has read before.                         *)
Find(w) ==
  LET stale == IF last[w] # NoBuild /\ last[w].event = ev[w] THEN last[w] ELSE NoBuild
  IN
  /\ pc[w] = "find"
  /\ IF Kind(w) = "local"
     THEN /\ seen' = [seen EXCEPT ![w] = Started]
          /\ nb'   = [nb EXCEPT ![w] = LatestOf(RowsIn(ev[w]))]
     ELSE /\ UNCHANGED seen
          /\ IF wiring.join THEN nb' = [nb EXCEPT ![w] = stale]
             ELSE \/ RowsIn(ev[w]) = {} /\ nb' = [nb EXCEPT ![w] = NoBuild]
                  \/ \E i \in RowsIn(ev[w]) : nb' = [nb EXCEPT ![w] = build[i]]
  /\ Goto(w, "store")
  /\ UNCHANGED <<rows, locks, joined, last, ev, locked>>

(* OrBase.trigger *)
StoreOr(w) ==
  /\ pc[w] = "store" /\ ~wiring.join
  /\ IF nb[w] = NoBuild
     THEN /\ Insert([id |-> nextId, event |-> ev[w], status |-> "QUEUED", parents |-> {w}])
          /\ starts' = [starts EXCEPT ![ev[w]] = @ + 1]
     ELSE UNCHANGED <<build, nextId, starts>>
  /\ Goto(w, "unlock")
  /\ UNCHANGED <<wiring, st, events, locks, mine>>

(* JoinBase.processNextBuild: the build is created, or its parents updated. *)
StoreJoin(w) ==
  LET new == IF nb[w] = NoBuild
             THEN [id |-> nextId, event |-> ev[w], status |-> "CREATED",
                   parents |-> ParentsOf(w)]
             ELSE [nb[w] EXCEPT !.parents = @ \cup ParentsOf(w)]
  IN
  /\ pc[w] = "store" /\ wiring.join
  /\ nb' = [nb EXCEPT ![w] = new]
  /\ IF nb[w] = NoBuild THEN Insert(new)
     ELSE /\ build' = IF new.id \in DOMAIN build
                      THEN [build EXCEPT ![new.id].parents = new.parents] ELSE build
          /\ UNCHANGED nextId
  /\ Goto(w, "check")
  /\ UNCHANGED <<wiring, st, events, starts, locks, joined, seen, last, ev, locked>>

(* handleNewBuild *)
Check(w) ==
  /\ pc[w] = "check"
  /\ Goto(w, IF ~AllEnded(nb[w]) \/ nb[w].status # "CREATED" THEN "unlock"
             ELSE IF SomeFailed(nb[w]) THEN "drop" ELSE "start")
  /\ UNCHANGED <<rows, locks, mine>>

Drop(w) ==
  /\ pc[w] = "drop"
  /\ build' = Without(nb[w].id)
  /\ Goto(w, "unlock")
  /\ UNCHANGED <<wiring, st, events, nextId, starts, locks, mine>>

Start(w) ==
  /\ pc[w] = "start"
  /\ build'  = IF nb[w].id \in DOMAIN build
               THEN [build EXCEPT ![nb[w].id].status = "QUEUED"] ELSE build
  /\ starts' = [starts EXCEPT ![ev[w]] = @ + 1]
  /\ Goto(w, "unlock")
  /\ UNCHANGED <<wiring, st, events, nextId, locks, mine>>

-----------------------------------------------------------------------------
Step(w) ==
  \/ RemoveRead(w) \/ JoinData(w) \/ TriggerOwn(w) \/ ReadGroup(w)
  \/ LockSelect(w) \/ ListEvents(w) \/ CreateEvent(w)
  \/ LockNext(w) \/ Find(w) \/ StoreOr(w) \/ StoreJoin(w)
  \/ Check(w) \/ Drop(w) \/ Start(w) \/ Unlock(w) \/ TriggerRest(w)

Next == \E w \in Sources : Step(w) \/ \E s \in Ended : End(w, s)

(* Requests run to their end; a build need not end. *)
Fairness == \A w \in Sources : WF_vars(Step(w))

Spec     == Init /\ [][Next]_vars
FairSpec == Spec /\ Fairness

-----------------------------------------------------------------------------
RowType == [id : Nat, event : EventIds, status : {"CREATED", "QUEUED"},
            parents : SUBSET Sources]

TypeOK ==
  /\ wiring \in Wirings
  /\ st \in [Sources -> {"NONE", "RUNNING"} \cup Ended]
  /\ events \subseteq EventIds
  /\ \A i \in DOMAIN build : build[i] \in RowType /\ build[i].id = i /\ i < nextId
  /\ nextId \in Nat /\ starts \in [EventIds -> Nat]
  /\ glock \in Sources \cup {NoSource}
  /\ elock \in [EventIds -> Sources \cup {NoSource}]
  /\ pc \in [Sources -> Labels]
  /\ joined \in [Sources -> BOOLEAN] /\ locked \in [Sources -> BOOLEAN]
  /\ seen \in [Sources -> SUBSET Sources]
  /\ ev \in [Sources -> EventIds \cup {NoEvent}]
  /\ last \in [Sources -> RowType \cup {NoBuild}]
  /\ nb \in [Sources -> RowType \cup {NoBuild}]

(* The strengthening of OneEvent that is inductive: a request that looks for  *)
(* the event, or is about to create it, holds the lock of the group event,    *)
(* and an event is created only when there is none.                           *)
SelectLocked == \A w \in Sources : pc[w] \in {"list", "create"} => glock = w
NoneAtCreate == \A w \in Sources : pc[w] = "create" => events = {}
Selection    == SelectLocked /\ NoneAtCreate /\ events \in {{}, {1}}

(* However many sources end together, one event triggers at most one event of *)
(* another pipeline: the others find the event the first has created.         *)
OneEvent == Cardinality(events) <= 1

(* A job that requires several jobs is started only when all of them, of      *)
(* whatever pipeline, have succeeded.                                         *)
RemoteParents ==
  wiring.join /\ (\E e \in EventIds : starts[e] > 0)
    => \A s \in Sources : st[s] = "SUCCESS"

(* A job that requires jobs of other pipelines is started once the last of    *)
(* them has succeeded, in whatever order and however close together they end. *)
RemoteStarts ==
  (\A s \in Sources : st[s] = "SUCCESS") ~> (\E e \in EventIds : starts[e] > 0)

(* In one event the job is started once. *)
TriggeredOnce == \A e \in EventIds : starts[e] <= 1
=============================================================================
