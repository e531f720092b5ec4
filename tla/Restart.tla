------------------------------- MODULE Restart -------------------------------
(***************************************************************************)
(* Restarted jobs: POST /events with the id of a build starts its job      *)
(* again in a new event of the same group (plugins/events/create.js), and  *)
(* AndTrigger then has to choose, among the events of the group, the build *)
(* of the next job that a finished build belongs to, and the builds it is  *)
(* joined with (plugins/builds/triggers/and.js, helpers.js).               *)
(*                                                                         *)
(* One pipeline; a request that triggers holds the lock of the group event.*)
(* What can go wrong inside the critical section is in JoinTrigger; here   *)
(* its reads are one step, its first write one, and its verdict one.       *)
(***************************************************************************)
EXTENDS Integers, FiniteSets, Sequences, SequencesExt

CONSTANTS
  Jobs,       \* the nodes of the workflow graph, without ~commit
  JoinEdges,  \* its edges <<src, dest>> with join = true
  OrEdges,    \* its edges <<src, dest>> without join
  Requests,   \* bound: requests at work at a time
  MaxEvents,  \* bound: the first event and its restarts
  None

ASSUME RestartAssumption ==
  /\ IsFiniteSet(Jobs)
  /\ JoinEdges \subseteq Jobs \X Jobs /\ OrEdges \subseteq Jobs \X Jobs
  /\ None \notin Jobs \cup Requests
  /\ MaxEvents \in Nat \ {0}

VARIABLES
  events,  \* the events of the group, in the order of their ids: [from, parent]
  builds,  \* the builds of these events, in the order of their ids
  lock,    \* the request that holds pipeline:<id>:groupEvent:<id>, or None
  pc, cur, todo, tgt, nb, par  \* of each request, as in JoinTrigger

locals == <<pc, cur, todo, tgt, nb, par>>
vars   == <<events, builds, lock, locals>>

NoId    == 0
Ended   == {"SUCCESS", "FAILURE"}
Status  == {"CREATED", "QUEUED", "REMOVED"} \cup Ended
Parents == [Jobs -> Nat]
NoParents == [j \in Jobs |-> NoId]

\* parents: the column parentBuilds; used: history, what it was at the start.
Row(e, j, s, p) == [event |-> e, job |-> j, status |-> s, parents |-> p,
                    used |-> IF s = "QUEUED" THEN p ELSE NoParents]

TypeOK ==
  /\ events \in Seq([from : Jobs \cup {"~commit"}, parent : 0 .. MaxEvents])
  /\ Len(events) \in 1 .. MaxEvents
  /\ builds \in Seq([event : 1 .. Len(events), job : Jobs, status : Status,
                     parents : Parents, used : Parents])
  /\ lock \in Requests \cup {None}
  /\ pc \in [Requests -> {"idle", "remove", "next", "store", "check"}]
  /\ cur \in [Requests -> 0 .. Len(builds)] /\ nb \in [Requests -> 0 .. Len(builds)]
  /\ todo \in [Requests -> SUBSET Jobs] /\ tgt \in [Requests -> Jobs \cup {None}]
  /\ par \in [Requests -> Parents]

-----------------------------------------------------------------------------
(* The workflow graph *)

NextJobs(j)  == {k \in Jobs : <<j, k>> \in JoinEdges \cup OrEdges}
JoinSrc(k)   == {j \in Jobs : <<j, k>> \in JoinEdges}
Roots        == {j \in Jobs : \A k \in Jobs : j \notin NextJobs(k)}
IsOr(j, k)   == <<j, k>> \in OrEdges

\* getSubsequentJobs: the nodes reachable from s, without s.
Subsequent(s) ==
  IF s = "~commit" THEN Jobs
  ELSE LET reach[n \in 0 .. Cardinality(Jobs)] ==
             IF n = 0 THEN {s} ELSE reach[n - 1] \cup UNION {NextJobs(j) : j \in reach[n - 1]}
       IN  reach[Cardinality(Jobs)] \ {s}

-----------------------------------------------------------------------------
(* What AndTrigger.execute reads *)

Ids(j)       == {i \in DOMAIN builds : builds[i].job = j /\ builds[i].status # "REMOVED"}
IdsIn(e, j)  == {i \in Ids(j) : builds[i].event = e}
Newest(S)    == IF S = {} THEN NoId ELSE CHOOSE i \in S : \A k \in S : k <= i

\* getBuildsForGroupEvent: the latest build of each job.
Latest(j) == Newest(Ids(j))

\* fetchNextBuildInChildEvents: the build in the latest event restarted from e.
ChildBuild(e, k) ==
  LET S == {i \in Ids(k) : events[builds[i].event].parent = e}
  IN  IF S = {} THEN NoId
      ELSE CHOOSE i \in S : \A m \in S : builds[m].event <= builds[i].event

CurrentBuild(e, k) == Newest(IdsIn(e, k))

\* A build of a later event of the group, if it is the latest of all.
GroupBuild(e, k) ==
  IF Latest(k) # NoId /\ builds[Latest(k)].event > e THEN Latest(k) ELSE NoId

\* Wrong: the event's own build only.
OwnNextBuild(e, k) == CurrentBuild(e, k)

\* Wrong: the build of a child event or of the group, never this event's.
NotOwnBuild(e, k) == IF ChildBuild(e, k) # NoId THEN ChildBuild(e, k) ELSE GroupBuild(e, k)

NextBuild(e, k) ==
  IF ChildBuild(e, k) # NoId THEN ChildBuild(e, k)
  ELSE IF CurrentBuild(e, k) # NoId THEN CurrentBuild(e, k)
  ELSE GroupBuild(e, k)

OwnParents(b) == [builds[b].parents EXCEPT ![builds[b].job] = b]

\* mergeParentBuilds: a build of another event will not do for a job that
\* is to run again in this one.
Related(e, j) ==
  LET i == Latest(j)
  IN  IF i # NoId /\ (j \notin Subsequent(events[e].from) \/ builds[i].event = e) THEN i ELSE NoId

FilledParents(b, k) ==
  LET e == builds[b].event
  IN  [j \in Jobs |-> IF OwnParents(b)[j] = NoId /\ j \in JoinSrc(k) THEN Related(e, j)
                      ELSE OwnParents(b)[j]]

\* updateParentBuilds: what is known now wins over what the row holds.
MergedParents(new, old) == [j \in Jobs |-> IF new[j] # NoId THEN new[j] ELSE old[j]]

Done(k, p)       == \A j \in JoinSrc(k) : p[j] # NoId /\ builds[p[j]].status \in Ended
HasFailure(k, p) == \E j \in JoinSrc(k) : p[j] # NoId /\ builds[p[j]].status = "FAILURE"
Gone(k, p)       == \E j \in JoinSrc(k) : p[j] # NoId /\ builds[p[j]].status = "REMOVED"

-----------------------------------------------------------------------------
Init ==
  /\ events = <<[from |-> "~commit", parent |-> 0]>>
  /\ builds \in {[i \in DOMAIN o |-> Row(1, o[i], "QUEUED", NoParents)] : o \in SetToSeqs(Roots)}
  /\ lock = None
  /\ pc   = [w \in Requests |-> "idle"]
  /\ cur  = [w \in Requests |-> NoId] /\ nb = [w \in Requests |-> NoId]
  /\ todo = [w \in Requests |-> {}]   /\ tgt = [w \in Requests |-> None]
  /\ par  = [w \in Requests |-> NoParents]

\* POST /events with a buildId: the job of that build is started again, with
\* the parents that the build has had.
RestartFrom(b) ==
  /\ Len(events) < MaxEvents
  /\ builds[b].status \in Ended
  /\ events' = Append(events, [from |-> builds[b].job, parent |-> builds[b].event])
  /\ builds' = Append(builds, Row(Len(events'), builds[b].job, "QUEUED", builds[b].parents))
  /\ UNCHANGED <<lock, locals>>

\* PUT /builds/{id}
Finish(w, b, s) ==
  /\ pc[w] = "idle" /\ builds[b].status = "QUEUED"
  /\ builds' = [builds EXCEPT ![b].status = s]
  /\ cur'    = [cur EXCEPT ![w] = b]
  /\ pc'     = [pc EXCEPT ![w] = IF s = "SUCCESS" THEN "next" ELSE "remove"]
  /\ todo'   = [todo EXCEPT ![w] = NextJobs(builds[b].job)]
  /\ UNCHANGED <<events, lock, tgt, nb, par>>

Answered(w) ==
  /\ pc[w] \in {"next", "remove"} /\ todo[w] = {}
  /\ pc' = [pc EXCEPT ![w] = "idle"] /\ cur' = [cur EXCEPT ![w] = NoId]
  /\ UNCHANGED <<events, builds, lock, todo, tgt, nb, par>>

\* removeJoinBuilds looks into the event of the failed build only.
RemoveNext(b, k) ==
  [i \in DOMAIN builds |->
     IF i \in IdsIn(builds[b].event, k) /\ builds[i].status = "CREATED"
     THEN [builds[i] EXCEPT !.status = "REMOVED"] ELSE builds[i]]

RemoveJoin(w) ==
  /\ pc[w] = "remove"
  /\ \E k \in todo[w] :
       /\ todo'   = [todo EXCEPT ![w] = @ \ {k}]
       /\ builds' = RemoveNext(cur[w], k)
  /\ UNCHANGED <<events, lock, pc, cur, tgt, nb, par>>

\* locker.lock and the reads of execute, or of OrBase.trigger.
Find(w) ==
  /\ pc[w] = "next" /\ lock = None
  /\ lock' = w
  /\ \E k \in todo[w] :
       /\ tgt'  = [tgt EXCEPT ![w] = k]
       /\ todo' = [todo EXCEPT ![w] = @ \ {k}]
       /\ LET c == cur[w]  e == builds[c].event IN
          IF IsOr(builds[c].job, k)
          THEN nb' = [nb EXCEPT ![w] = CurrentBuild(e, k)] /\ par' = [par EXCEPT ![w] = OwnParents(c)]
          ELSE nb' = [nb EXCEPT ![w] = NextBuild(e, k)] /\ par' = [par EXCEPT ![w] = FilledParents(c, k)]
  /\ pc' = [pc EXCEPT ![w] = "store"]
  /\ UNCHANGED <<events, builds, cur>>

Or(w)      == IsOr(builds[cur[w]].job, tgt[w])
Free(w)    == lock' = None /\ pc' = [pc EXCEPT ![w] = "next"]
Started(b) == [b EXCEPT !.status = "QUEUED", !.used = b.parents]

\* OrBase.trigger: a build of this event that has not been started is
\* started, with the parents it has; without one it is created and started.
StoreOr(w) ==
  /\ pc[w] = "store" /\ Or(w)
  /\ builds' =
       IF nb[w] = NoId
       THEN Append(builds, Row(builds[cur[w]].event, tgt[w], "QUEUED", par[w]))
       ELSE IF builds[nb[w]].status = "CREATED" THEN [builds EXCEPT ![nb[w]] = Started(@)]
       ELSE builds
  /\ Free(w)
  /\ UNCHANGED <<events, cur, todo, tgt, nb, par>>

\* processNextBuild.  The update of a row that was removed meanwhile throws.
StoreAnd(w) ==
  /\ pc[w] = "store" /\ ~Or(w)
  /\ \/ /\ nb[w] = NoId
        /\ builds' = Append(builds, Row(builds[cur[w]].event, tgt[w], "CREATED", par[w]))
        /\ nb' = [nb EXCEPT ![w] = Len(builds')]
        /\ pc' = [pc EXCEPT ![w] = "check"] /\ UNCHANGED lock
     \/ /\ nb[w] # NoId /\ builds[nb[w]].status # "REMOVED"
        /\ builds' = [builds EXCEPT ![nb[w]].parents = MergedParents(par[w], @)]
        /\ pc' = [pc EXCEPT ![w] = "check"] /\ UNCHANGED <<lock, nb>>
     \/ /\ nb[w] # NoId /\ builds[nb[w]].status = "REMOVED"
        /\ Free(w) /\ UNCHANGED <<builds, nb>>
  /\ UNCHANGED <<events, cur, todo, tgt, par>>

\* Wrong: a failure of a parent is not looked at.
VerdictStarts(k, b) ==
  IF builds[b].status # "CREATED" \/ ~Done(k, builds[b].parents) THEN builds
  ELSE [builds EXCEPT ![b] = Started(@)]

\* handleNewBuild; a parent that is gone makes it throw.
Verdict(k, b) ==
  IF builds[b].status # "CREATED" \/ Gone(k, builds[b].parents) \/ ~Done(k, builds[b].parents)
  THEN builds
  ELSE IF HasFailure(k, builds[b].parents) THEN [builds EXCEPT ![b].status = "REMOVED"]
  ELSE [builds EXCEPT ![b] = Started(@)]

Check(w) ==
  /\ pc[w] = "check"
  /\ builds' = Verdict(tgt[w], nb[w])
  /\ Free(w)
  /\ UNCHANGED <<events, cur, todo, tgt, nb, par>>

Step(w) == Answered(w) \/ RemoveJoin(w) \/ Find(w) \/ StoreOr(w) \/ StoreAnd(w) \/ Check(w)

Next ==
  \/ \E b \in DOMAIN builds : RestartFrom(b)
  \/ \E w \in Requests :
       \/ \E b \in DOMAIN builds, s \in Ended : Finish(w, b, s)
       \/ Step(w)

Fairness == \A w \in Requests : WF_vars(Step(w))
Spec == Init /\ [][Next]_vars
FairSpec == Spec /\ Fairness

-----------------------------------------------------------------------------
Quiet == \A w \in Requests : pc[w] = "idle"
Ran(k) == {i \in Ids(k) : builds[i].status \in {"QUEUED"} \cup Ended}
JoinOnly(k) == JoinSrc(k) # {} /\ \A j \in Jobs : ~IsOr(j, k)

(* An event never holds two builds of a job, although a build of another    *)
(* event of the group may find, create or update the one of this event.     *)
OneBuildPerEvent ==
  \A i, n \in DOMAIN builds :
    /\ builds[i].event = builds[n].event /\ builds[i].job = builds[n].job
    /\ "REMOVED" \notin {builds[i].status, builds[n].status}
    => i = n

(* Whatever event the parents of a join were taken from, when a build of it  *)
(* was started there was one for each of its sources, and it was SUCCESS.    *)
(* A restart of the join itself is another matter: it takes over the parents *)
(* of the old build, which a late one may have overwritten meanwhile.        *)
StartedFromSuccess ==
  \A k \in Jobs : JoinOnly(k) => \A i \in Ran(k), j \in JoinSrc(k) :
    \/ events[builds[i].event].from = k
    \/ builds[i].used[j] # NoId /\ builds[builds[i].used[j]].status = "SUCCESS"

AllWell(k) == \A j \in JoinSrc(k) : Ids(j) # {} /\ \A i \in Ids(j) : builds[i].status = "SUCCESS"

\* The sources of k are no joins themselves, and a restart of any job runs no
\* two of them again.
Apart(k) ==
  /\ \A j \in JoinSrc(k) : JoinSrc(j) = {}
  /\ \A s \in Jobs : \A i, j \in JoinSrc(k) \cap ({s} \cup Subsequent(s)) : i = j

(* With one restart in the group, if in the end every build of every source  *)
(* of a join is SUCCESS, the join has run in some event of the group: no     *)
(* order of the builds of the two events makes AndTrigger lose it.           *)
GroupRuns ==
  Quiet /\ Len(events) <= 2 =>
    \A k \in Jobs : JoinOnly(k) /\ Apart(k) /\ AllWell(k) => Ran(k) # {}

(* After a single restart of a source of a join, with every build of every   *)
(* source SUCCESS in the end, the join has run in the event of the restart,  *)
(* whether the restarted build or an older one ended last.                   *)
RestartRuns ==
  Quiet /\ Len(events) = 2 =>
    \A k \in Jobs : JoinOnly(k) /\ Apart(k) /\ events[2].from \in JoinSrc(k) /\ AllWell(k) =>
      \E i \in Ran(k) : builds[i].event = 2

(* trigger.test.js:1032 has it that a join waits for a source that is to run  *)
(* again in the restarted event: a join does not start with a build of an    *)
(* earlier event for a job that comes after the restarted one.                *)
NotStale ==
  \A k \in Jobs : JoinOnly(k) => \A i \in Ran(k), j \in JoinSrc(k) :
    j \in Subsequent(events[builds[i].event].from) =>
      builds[builds[i].used[j]].event >= builds[i].event
=============================================================================
