----------------------------- MODULE JoinTrigger -----------------------------
(***************************************************************************)
(* How the end of one build starts, creates or removes the builds of the   *)
(* jobs downstream of it, in one event of one pipeline:                    *)
(*   plugins/builds/helper/updateBuild.js  the terminal PUT /builds/{id}   *)
(*   plugins/builds/index.js               triggerNextJobs, removeJoinBuilds *)
(*   plugins/builds/triggers/              OrTrigger, AndTrigger, helpers  *)
(*                                                                         *)
(* The API server is a set of concurrent requests.  Every await of the     *)
(* code that reads or writes a build row is a step of its own, so requests *)
(* interleave there; the rows are the only shared state besides the Redis  *)
(* lock pipeline:<id>:groupEvent:<id>.                                     *)
(*                                                                         *)
(* Status "QUEUED" stands for every status of a build that was started and *)
(* has not ended (QUEUED, RUNNING, BLOCKED, FROZEN).                       *)
(***************************************************************************)
EXTENDS Integers, FiniteSets

CONSTANTS
  Jobs,         \* the nodes of event.workflowGraph
  JoinEdges,    \* its edges <<src, dest>> with join = true   (requires: [a, b])
  OrEdges,      \* its edges <<src, dest>> without join       (requires: [~a])
  Virtual,      \* virtual jobs without freezeWindows and blockedBy
  Disabled,     \* jobs whose state is not ENABLED
  Outcomes,     \* the statuses a build may end with
  Requests,     \* requests the API server handles at a time
  NoRequest,    \* owner of the free lock
  LockReliable  \* TRUE: redlock.lock() always obtains the lock in the end

ASSUME GraphAssumption ==
  /\ IsFiniteSet(Jobs) /\ Jobs # {}
  /\ JoinEdges \subseteq Jobs \X Jobs
  /\ OrEdges \subseteq Jobs \X Jobs
  /\ Virtual \subseteq Jobs
  /\ Disabled \subseteq Jobs

ASSUME RequestAssumption ==
  /\ NoRequest \notin Requests
  /\ LockReliable \in BOOLEAN

ASSUME OutcomeAssumption == Outcomes \subseteq {"SUCCESS", "FAILURE", "ABORTED"}

VARIABLES
  build,   \* the builds table: build id -> row
  nextId,  \* the next build id the datastore hands out
  starts,  \* per job, how many times the executor was told to start a build
  lock,    \* owner of the groupEvent lock, or NoRequest
  pc,      \* per request, what it does next
  cur,     \* per request, the build object whose next jobs it processes
  todo,    \* per request, the next jobs still to be looked at
  tgt,     \* per request, the next job it is looking at
  nb,      \* per request, the build object of that job ("nextBuild")
  par,     \* per request, the parentBuilds computed for that job
  del,     \* per request, builds removeJoinBuilds has decided to remove
  down     \* per request, virtual builds whose own next jobs are still due

db     == <<build, nextId, starts>>
locals == <<pc, cur, todo, tgt, nb, par, del, down>>
vars   == <<build, nextId, starts, lock, pc, cur, todo, tgt, nb, par, del, down>>

-----------------------------------------------------------------------------
(* Rows and objects *)

Status  == {"CREATED", "QUEUED", "SUCCESS", "FAILURE", "ABORTED"}
Ended   == {"SUCCESS", "FAILURE", "ABORTED"}
Failed  == {"FAILURE", "ABORTED"}
NoId    == 0
Parents == [Jobs -> Nat]
Row     == [id : Nat \ {NoId}, job : Jobs, status : Status, parents : Parents]
NoBuild == [id |-> NoId]
Labels  == {"idle", "remove", "next", "find", "store", "check", "drop",
            "start", "exec", "unlock"}

(* The labels at which a request is between locker.lock and locker.unlock. *)
Critical == {"find", "store", "check", "drop", "start", "exec", "unlock"}

RowsOf(j) == {i \in DOMAIN build : build[i].job = j}
Latest(j) == IF RowsOf(j) = {} THEN NoId
             ELSE CHOOSE i \in RowsOf(j) : \A k \in RowsOf(j) : k <= i

Inserted(r)      == [i \in DOMAIN build \cup {r.id} |->
                       IF i = r.id THEN r ELSE build[i]]
WithStatus(i, s) == [k \in DOMAIN build |->
                       IF k = i THEN [build[k] EXCEPT !.status = s] ELSE build[k]]
WithParents(i, p) == [k \in DOMAIN build |->
                       IF k = i THEN [build[k] EXCEPT !.parents = p] ELSE build[k]]
Without(i)       == [k \in DOMAIN build \ {i} |-> build[k]]

-----------------------------------------------------------------------------
(* The workflow graph *)

NextJobs(j)  == {k \in Jobs : <<j, k>> \in JoinEdges \cup OrEdges}
JoinSrc(k)   == {j \in Jobs : <<j, k>> \in JoinEdges}
Roots        == {j \in Jobs : \A k \in Jobs : j \notin NextJobs(k)}
IsOr(j, k)   == <<j, k>> \in OrEdges
JoinOnly(k)  == JoinSrc(k) # {} /\ \A j \in Jobs : ~IsOr(j, k)

(* parseJobInfo: the ancestry of the current build, and the current build. *)
OwnParents(c) == [c.parents EXCEPT ![c.job] = c.id]

(* Mutant: missing join sources are not looked up. *)
FilledFromOwn(c, k) == OwnParents(c)

(* mergeParentBuilds: join sources not in that ancestry are looked up among *)
(* the latest builds of the group event.  (Entries the current build itself *)
(* inherited unresolved stay NoId here and are looked up when a join needs  *)
(* them; the code resolves them one step earlier.)                          *)
FilledParents(c, k) ==
  [j \in Jobs |-> IF j \in JoinSrc(k) /\ OwnParents(c)[j] = NoId
                  THEN Latest(j) ELSE OwnParents(c)[j]]

(* Mutant: the row's parentBuilds win and the new ones are lost. *)
RowParentsWin(new, old) == old

(* updateParentBuilds: what is known now wins over what the row holds. *)
MergedParents(new, old) ==
  [j \in Jobs |-> IF new[j] # NoId THEN new[j] ELSE old[j]]

(* getJoinBuilds and getParentBuildStatus *)
Known(k, p)   == {j \in JoinSrc(k) : p[j] # NoId}
Missing(k, p) == \E j \in Known(k, p) : p[j] \notin DOMAIN build
(* Mutant: a join source nobody has heard of does not hold the join up. *)
DoneIfKnownDone(k, p) == \A j \in Known(k, p) : build[p[j]].status \in Ended
Done(k, p)    == /\ Known(k, p) = JoinSrc(k)
                 /\ \A j \in Known(k, p) : build[p[j]].status \in Ended
HasFailure(k, p) == \E j \in Known(k, p) : build[p[j]].status \in Failed

(* Mutant: the status of the next build is not looked at again. *)
VerdictRestarts(k, b) ==
  IF Missing(k, b.parents) \/ ~Done(k, b.parents) THEN "unlock"
  ELSE IF HasFailure(k, b.parents) THEN "drop" ELSE "start"

(* Mutant: a join that cannot succeed any more is left alone. *)
VerdictKeeps(k, b) ==
  IF \/ Missing(k, b.parents) \/ ~Done(k, b.parents)
     \/ b.status # "CREATED" \/ HasFailure(k, b.parents)
  THEN "unlock" ELSE "start"

(* handleNewBuild: what becomes of the next build b of job k.  A parent whose *)
(* row is gone makes the code throw, which is logged and ends the attempt.    *)
Verdict(k, b) ==
  IF \/ Missing(k, b.parents) \/ ~Done(k, b.parents) \/ b.status # "CREATED"
  THEN "unlock"
  ELSE IF HasFailure(k, b.parents) THEN "drop" ELSE "start"

(* Mutant: any build found is removed. *)
RemovesAny(r) == TRUE

(* deleteBuild: only builds in CREATED are removed. *)
Removable(r) == r.status = "CREATED"

-----------------------------------------------------------------------------
Init ==
  \E ids \in [Roots -> 1..Cardinality(Roots)] :
    /\ \A j, k \in Roots : ids[j] = ids[k] => j = k
    /\ build = [i \in {ids[j] : j \in Roots} |->
                  LET j == CHOOSE k \in Roots : ids[k] = i
                  IN  [id |-> i, job |-> j,
                       status |-> IF j \in Virtual THEN "CREATED" ELSE "QUEUED",
                       parents |-> [k \in Jobs |-> NoId]]]
    /\ nextId = Cardinality(Roots) + 1
    /\ starts = [j \in Jobs |-> IF j \in Roots \ Virtual THEN 1 ELSE 0]
    /\ lock = NoRequest
    /\ pc   = [w \in Requests |-> "idle"]
    /\ cur  = [w \in Requests |-> NoBuild]
    /\ todo = [w \in Requests |-> {}]
    /\ tgt  = [w \in Requests |-> CHOOSE j \in Jobs : TRUE]
    /\ nb   = [w \in Requests |-> NoBuild]
    /\ par  = [w \in Requests |-> [k \in Jobs |-> NoId]]
    /\ del  = [w \in Requests |-> {}]
    /\ down = [w \in Requests |-> {}]

(* A request is answered: its objects are garbage. *)
Forget(w) == /\ pc'  = [pc EXCEPT ![w] = "idle"]
             /\ cur' = [cur EXCEPT ![w] = NoBuild]

(* The terminal status is written; what follows depends on it:  triggerNextJobs *)
(* on SUCCESS, removeJoinBuilds on FAILURE, nothing on ABORTED.                 *)
EndBuild(w, b, s) ==
  /\ build' = WithStatus(b, s)
  /\ cur'   = [cur EXCEPT ![w] = [build[b] EXCEPT !.status = s]]
  /\ pc'    = [pc EXCEPT ![w] = CASE s = "SUCCESS" -> "next"
                                  [] s = "FAILURE" -> "remove"
                                  [] OTHER         -> "idle"]
  /\ todo'  = [todo EXCEPT ![w] = IF s = "ABORTED" THEN {}
                                  ELSE NextJobs(build[b].job)]
  /\ UNCHANGED <<nextId, starts, lock, tgt, nb, par, del, down>>

(* PUT /builds/{id} by the launcher or a user, for a started build. *)
Finish(w, b, s) ==
  /\ pc[w] = "idle"
  /\ build[b].status = "QUEUED"
  /\ EndBuild(w, b, s)

(* createEvent ends the virtual builds an event begins with on the spot. *)
BypassRoot(w, b) ==
  /\ pc[w] = "idle"
  /\ build[b].status = "CREATED"
  /\ build[b].job \in Roots \cap Virtual
  /\ EndBuild(w, b, "SUCCESS")

-----------------------------------------------------------------------------
(* removeJoinBuilds: all deleteBuild calls run concurrently and unlocked, and *)
(* each reads the row before it removes it.                                   *)

RemoveRead(w) ==
  /\ pc[w] = "remove"
  /\ \E j \in todo[w] :
       /\ todo' = [todo EXCEPT ![w] = @ \ {j}]
       /\ \/ RowsOf(j) = {} /\ UNCHANGED del
          \/ \E i \in RowsOf(j) :
               del' = [del EXCEPT ![w] =
                         IF Removable(build[i]) THEN @ \cup {i} ELSE @]
  /\ UNCHANGED <<db, lock, pc, cur, tgt, nb, par, down>>

RemoveRow(w) ==
  /\ pc[w] = "remove"
  /\ \E i \in del[w] :
       /\ build' = Without(i)
       /\ del' = [del EXCEPT ![w] = @ \ {i}]
  /\ UNCHANGED <<nextId, starts, lock, pc, cur, todo, tgt, nb, par, down>>

RemoveDone(w) ==
  /\ pc[w] = "remove"
  /\ todo[w] = {} /\ del[w] = {}
  /\ Forget(w)
  /\ UNCHANGED <<db, lock, todo, tgt, nb, par, del, down>>

-----------------------------------------------------------------------------
(* triggerNextJobs *)

(* Mutant: the lock is handed out without looking at its owner. *)
Grab(w) == lock' = w

(* locker.lock: an error, or a lock that is not configured, is not a reason *)
(* to stop; the code goes on without the lock.                              *)
Acquire(w) ==
  \/ lock = NoRequest /\ lock' = w
  \/ ~LockReliable /\ UNCHANGED lock

LockNext(w) ==
  /\ pc[w] = "next"
  /\ \E j \in todo[w] : /\ tgt'  = [tgt EXCEPT ![w] = j]
                        /\ todo' = [todo EXCEPT ![w] = @ \ {j}]
  /\ Acquire(w)
  /\ pc' = [pc EXCEPT ![w] = "find"]
  /\ UNCHANGED <<db, cur, nb, par, del, down>>

(* OrBase.trigger gets some row of the job; AndTrigger.execute takes the latest *)
(* builds of the group event and computes the parents from the same answer.     *)
Find(w) ==
  LET me == cur[w]
      k  == tgt[w]
  IN
  /\ pc[w] = "find"
  /\ pc' = [pc EXCEPT ![w] = "store"]
  /\ \/ /\ RowsOf(k) = {}
        /\ nb' = [nb EXCEPT ![w] = NoBuild]
     \/ \E i \in RowsOf(k) :
          /\ IsOr(me.job, k) \/ i = Latest(k)
          /\ nb' = [nb EXCEPT ![w] = build[i]]
  /\ par' = [par EXCEPT ![w] = IF IsOr(me.job, k) THEN OwnParents(me)
                                                ELSE FilledParents(me, k)]
  /\ UNCHANGED <<db, lock, cur, todo, tgt, del, down>>

(* createInternalBuild, for a job that is not disabled. *)
CreateBuild(w, started) ==
  LET r == [id |-> nextId, job |-> tgt[w], parents |-> par[w],
            status |-> IF started THEN "QUEUED" ELSE "CREATED"]
  IN /\ build'  = Inserted(r)
     /\ nextId' = nextId + 1
     /\ nb'     = [nb EXCEPT ![w] = r]

StoreOr(w) ==
  /\ pc[w] = "store" /\ IsOr(cur[w].job, tgt[w])
  /\ \/ /\ nb[w] = NoBuild /\ tgt[w] \notin Disabled
        /\ CreateBuild(w, tgt[w] \notin Virtual)
        /\ pc' = [pc EXCEPT ![w] = IF tgt[w] \in Virtual THEN "start" ELSE "exec"]
     \/ /\ nb[w] = NoBuild /\ tgt[w] \in Disabled
        /\ pc' = [pc EXCEPT ![w] = "unlock"]
        /\ UNCHANGED <<build, nextId, nb>>
     \/ /\ nb[w] # NoBuild
        /\ pc' = [pc EXCEPT ![w] =
                    IF nb[w].status = "CREATED" THEN "start" ELSE "unlock"]
        /\ UNCHANGED <<build, nextId, nb>>
  /\ UNCHANGED <<starts, lock, cur, todo, tgt, par, del, down>>

StoreAnd(w) ==
  /\ pc[w] = "store" /\ ~IsOr(cur[w].job, tgt[w])
  /\ \/ /\ nb[w] = NoBuild /\ tgt[w] \notin Disabled
        /\ CreateBuild(w, FALSE)
        /\ pc' = [pc EXCEPT ![w] = "check"]
     \/ /\ nb[w] = NoBuild /\ tgt[w] \in Disabled
        /\ pc' = [pc EXCEPT ![w] = "unlock"]
        /\ UNCHANGED <<build, nextId, nb>>
     \/ /\ nb[w] # NoBuild
        /\ LET p == MergedParents(par[w], nb[w].parents)
           IN /\ nb'    = [nb EXCEPT ![w].parents = p]
              /\ build' = WithParents(nb[w].id, p)
        /\ pc' = [pc EXCEPT ![w] = "check"]
        /\ UNCHANGED nextId
  /\ UNCHANGED <<starts, lock, cur, todo, tgt, par, del, down>>

(* handleNewBuild reads the join builds and decides. *)
Check(w) ==
  LET verdict == Verdict(tgt[w], nb[w])
  IN
  /\ pc[w] = "check"
  /\ pc' = [pc EXCEPT ![w] = verdict]
  /\ nb' = [nb EXCEPT ![w] = IF verdict = "unlock" THEN NoBuild ELSE @]
  /\ UNCHANGED <<db, lock, cur, todo, tgt, par, del, down>>

Drop(w) ==
  /\ pc[w] = "drop"
  /\ build' = Without(nb[w].id)
  /\ nb' = [nb EXCEPT ![w] = NoBuild]
  /\ pc' = [pc EXCEPT ![w] = "unlock"]
  /\ UNCHANGED <<nextId, starts, lock, cur, todo, tgt, par, del, down>>

(* The status is written first: SUCCESS for a virtual job, else QUEUED. *)
Start(w) ==
  LET s == IF tgt[w] \in Virtual THEN "SUCCESS" ELSE "QUEUED"
  IN
  /\ pc[w] = "start"
  /\ build' = WithStatus(nb[w].id, s)
  /\ nb' = [nb EXCEPT ![w].status = s]
  /\ pc' = [pc EXCEPT ![w] = IF tgt[w] \in Virtual THEN "unlock" ELSE "exec"]
  /\ UNCHANGED <<nextId, starts, lock, cur, todo, tgt, par, del, down>>

(* build.start(): the executor is told. *)
Exec(w) ==
  /\ pc[w] = "exec"
  /\ starts' = [starts EXCEPT ![tgt[w]] = @ + 1]
  /\ pc' = [pc EXCEPT ![w] = "unlock"]
  /\ UNCHANGED <<build, nextId, lock, cur, todo, tgt, nb, par, del, down>>

(* locker.unlock, after a virtual build that is SUCCESS was queued for its own *)
(* next jobs.                                                                  *)
Unlock(w) ==
  /\ pc[w] = "unlock"
  /\ lock' = IF lock = w THEN NoRequest ELSE lock
  /\ down' = [down EXCEPT ![w] =
                IF tgt[w] \in Virtual /\ nb[w] # NoBuild /\ nb[w].status = "SUCCESS"
                THEN @ \cup {nb[w]} ELSE @]
  /\ nb' = [nb EXCEPT ![w] = NoBuild]
  /\ pc' = [pc EXCEPT ![w] = "next"]
  /\ UNCHANGED <<db, cur, todo, tgt, par, del>>

(* The recursive call for the virtual builds that were passed over. *)
Descend(w) ==
  /\ pc[w] = "next" /\ todo[w] = {}
  /\ \E d \in down[w] :
       /\ down' = [down EXCEPT ![w] = @ \ {d}]
       /\ cur'  = [cur EXCEPT ![w] = d]
       /\ todo' = [todo EXCEPT ![w] = NextJobs(d.job)]
  /\ UNCHANGED <<db, lock, pc, tgt, nb, par, del>>

TriggerDone(w) ==
  /\ pc[w] = "next" /\ todo[w] = {} /\ down[w] = {}
  /\ Forget(w)
  /\ UNCHANGED <<db, lock, todo, tgt, nb, par, del, down>>

Step(w) ==
  \/ RemoveRead(w) \/ RemoveRow(w) \/ RemoveDone(w)
  \/ LockNext(w) \/ Find(w) \/ StoreOr(w) \/ StoreAnd(w) \/ Check(w)
  \/ Drop(w) \/ Start(w) \/ Exec(w) \/ Unlock(w) \/ Descend(w) \/ TriggerDone(w)

Next ==
  \E w \in Requests :
    \/ \E b \in DOMAIN build : \/ \E s \in Outcomes : Finish(w, b, s)
                               \/ BypassRoot(w, b)
    \/ Step(w)

(* Requests run to their end; nothing makes a build end. *)
Fairness == \A w \in Requests : WF_vars(Step(w))

Spec     == Init /\ [][Next]_vars
FairSpec == Spec /\ Fairness

-----------------------------------------------------------------------------
TypeOK ==
  /\ nextId \in Nat \ {NoId}
  /\ DOMAIN build \subseteq 1..(nextId - 1)
  /\ \A i \in DOMAIN build : build[i] \in Row /\ build[i].id = i
  /\ starts \in [Jobs -> Nat]
  /\ lock \in Requests \cup {NoRequest}
  /\ pc   \in [Requests -> Labels]
  /\ cur  \in [Requests -> Row \cup {NoBuild}]
  /\ todo \in [Requests -> SUBSET Jobs]
  /\ tgt  \in [Requests -> Jobs]
  /\ nb   \in [Requests -> Row \cup {NoBuild}]
  /\ par  \in [Requests -> Parents]
  /\ del  \in [Requests -> SUBSET Nat]
  /\ down \in [Requests -> SUBSET Row]

(* The strengthening of TypeOK and OneBuildPerJob that is inductive.  A       *)
(* request in the middle of triggerNextJobs holds the objects its label needs *)
(* and, when the lock works, the lock; and while it is about to create a      *)
(* build nobody else has created one.                                         *)
ObjectsOK ==
  \A w \in Requests :
    /\ pc[w] # "idle" => cur[w] \in Row
    /\ pc[w] \in {"check", "drop", "start"} => nb[w] \in Row
LockHeld      == \A w \in Requests : pc[w] \in Critical => lock = w
AbsentAtStore == \A w \in Requests :
                   pc[w] = "store" /\ nb[w] = NoBuild => RowsOf(tgt[w]) = {}

Quiet == \A w \in Requests : pc[w] = "idle"

(* No event ever holds two builds of the same job, however many upstream     *)
(* builds end at the same time: the find-or-create of triggerNextJobs is     *)
(* atomic under the groupEvent lock.                                         *)
OneBuildPerJob ==
  \A i, k \in DOMAIN build : build[i].job = build[k].job => i = k

(* The executor is told at most once to start a job of the event, whether    *)
(* it is reached through an OR edge, a join or both: a request never acts on *)
(* a status of the next build that another request has already changed.      *)
StartedOnce == \A j \in Jobs : starts[j] <= 1

(* A job with a join only is started only once every one of its join sources *)
(* has ended in SUCCESS, and the parents recorded in its row are those builds.*)
JoinParentsSucceeded ==
  \A i \in DOMAIN build :
    JoinOnly(build[i].job) /\ build[i].status # "CREATED" =>
      \A j \in JoinSrc(build[i].job) :
        LET p == build[i].parents[j]
        IN p \in DOMAIN build /\ build[p].job = j /\ build[p].status = "SUCCESS"

(* Even if the lock fails open, so that rows are duplicated and what is       *)
(* recorded of the parents is overwritten, a join is started only once every *)
(* one of its sources has a build that ended in SUCCESS.                     *)
JoinNotEarly ==
  \A i \in DOMAIN build :
    JoinOnly(build[i].job) /\ build[i].status # "CREATED" =>
      \A j \in JoinSrc(build[i].job) : \E p \in RowsOf(j) : build[p].status = "SUCCESS"

(* Once no request is running, a CREATED build one of whose join sources has *)
(* failed still has a source to hear of: one that has not ended, or was       *)
(* aborted, which tells nobody.  If there is none the build has been removed, *)
(* by the failing request or the late join request, in whatever order the two *)
(* look at the tables.                                                       *)
EndedAs(j, S) == \E i \in RowsOf(j) : build[i].status \in S
FailedJoinCleaned ==
  Quiet => \A i \in DOMAIN build : \A j \in JoinSrc(build[i].job) :
    build[i].status = "CREATED" /\ EndedAs(j, {"FAILURE"}) =>
      /\ \E k \in JoinSrc(build[i].job) : EndedAs(k, {"SUCCESS"})
      /\ \E k \in JoinSrc(build[i].job) : ~EndedAs(k, {"SUCCESS", "FAILURE"})

(* Removing join builds never takes away a build that has been started. *)
StartedNeverRemoved ==
  [][\A i \in DOMAIN build : build[i].status # "CREATED" => i \in DOMAIN build']_vars

(* What has become of job j: the status of its build, once that was started. *)
StateOf(j) ==
  LET begun == {i \in DOMAIN build : build[i].job = j /\ build[i].status # "CREATED"}
  IN  IF begun = {} THEN "WAITING" ELSE build[CHOOSE i \in begun : TRUE].status

Event == INSTANCE EventPromise WITH state <- [j \in Jobs |-> StateOf(j)]

(* Each job is started once at most and ends once, and it starts only when     *)
(* all it requires, or one OR source, has succeeded: through all the finding,  *)
(* creating, joining, removing and starting of overlapping requests, the event *)
(* does what EventPromise allows.                                              *)
EventKept == Event!Promise

(* When all join sources of an enabled job have succeeded, the job does get  *)
(* started: the wake-up is not lost between two sources that end together.   *)
JoinReady(k) == \A j \in JoinSrc(k) : \E i \in RowsOf(j) : build[i].status = "SUCCESS"
JoinEventuallyStarts ==
  \A k \in Jobs \ Disabled : JoinSrc(k) # {} =>
    (JoinReady(k) ~> \E i \in RowsOf(k) : build[i].status # "CREATED")
=============================================================================
