---------------------------- MODULE PullRequest -----------------------------
(***************************************************************************)
(* The hooks of pull requests, plugins/webhooks/helper.js: an opened or    *)
(* reopened PR starts an event in each pipeline it triggers, a             *)
(* synchronized one stops the builds of the PR first, a closed one stops   *)
(* them and archives their jobs.  Hooks are sent in the order of a script  *)
(* and handled at the same time, while builds end and start the next ones. *)
(*                                                                         *)
(* A job is <<p, n, s>>: the s-th job (of one or two in a row) of PR n in  *)
(* pipeline p.  A build is <<p, k, s>>: of that job in the event that hook *)
(* k has started in p.                                                     *)
(***************************************************************************)
EXTENDS Naturals, Sequences

CONSTANTS
    Pipelines,
    PRs,         \* pull request numbers
    PartOf,      \* <<n, m>>: the text PR-n is in the names of the jobs of PR m
    Restricted,  \* PRs for which getSkipMessageAndChainPR finds a restriction
    OnClosed,    \* pipelines with a job that requires ~pr-closed
    Scripts,     \* [repo, chained, hooks]: the ACTIVE pipelines of the repository,
                 \* whether a second PR job follows the first, and the sequence of
                 \* hooks [action, pr, to] the SCM sends, where to are the
                 \* pipelines that triggeredPipelines finds
    MaxHooks,    \* bound: the length of the scripts
    MaxFails     \* bound: calls that fail

PullRequestAssumption ==
    /\ OnClosed \subseteq Pipelines /\ MaxHooks \in Nat
    /\ \A n \in PRs : <<n, n>> \in PartOf
    /\ \A s \in Scripts :
         s.chained \in BOOLEAN /\ s.repo \subseteq Pipelines /\ DOMAIN s.hooks \subseteq 1 .. MaxHooks
         /\ \A k \in DOMAIN s.hooks : s.hooks[k].to \subseteq s.repo /\ s.hooks[k].pr \in PRs

Stages == {1, 2}
Jobs   == Pipelines \X PRs \X Stages
Calls  == 1 .. MaxHooks  \* the calls of startHookEvent, one per hook
Builds == Pipelines \X Calls \X Stages

VARIABLES
    script,  \* the script of this behaviour
    job,     \* job[j]: the row of j, or none
    build,   \* build[b]: the status of the row of b, or none
    ended,   \* builds that have succeeded and have not triggered the next one yet
    pc,      \* pc[k]: where the handler of hook k stands
    find,    \* find[k]: pipelines whose PR jobs are still to be read
    look,    \* look[k]: jobs whose running builds are still to be read
    due,     \* due[k]: builds found running and not yet aborted
    arch,    \* arch[k]: jobs still to be archived
    todo,    \* todo[k]: pipelines whose event is still to be started
    ok,      \* ok[k]: some event was started
    bad,     \* bad[k]: a call of the stop has failed
    tried,   \* tried[k]: pipelines whose config was given to createEvent
    code,    \* code[k]: the status of the answer
    closed,  \* pipelines and hooks with an event for ~pr-closed
    fails,
    old,     \* history: old[k], builds of active jobs of the PR that ran when k was
             \* received, provided no close of the PR was at work
    calm     \* history: calm[k], no other hook of the PR was at work beside k

rows == <<job, build, ended, closed>>
req  == <<pc, find, look, due, arch, todo, ok, bad, tried, code>>
hist == <<old, calm>>
vars == <<script, rows, req, fails, hist>>

\* QUEUED stands for every status of a build that has not ended, ABORTED for
\* FAILURE as well.
Running == {"QUEUED"}
Done    == {"SUCCESS", "ABORTED"}

Repo       == script.repo
Sent       == DOMAIN script.hooks
Action(k)  == script.hooks[k].action
Pr(k)      == script.hooks[k].pr
To(k)      == script.hooks[k].to
JobOf(b)   == <<b[1], Pr(b[2]), b[3]>>
Existing   == {b \in Builds : build[b] # "none"}
RunningOf(n, ps) == {b \in Existing : b[1] \in ps /\ Pr(b[2]) = n /\ build[b] \in Running}

TypeOK ==
    /\ script \in Scripts
    /\ job \in [Jobs -> {"none", "active", "archived"}]
    /\ build \in [Builds -> {"none"} \cup Running \cup Done]
    /\ ended \subseteq Builds
    /\ pc \in [Calls -> {"unsent", "find", "stop", "create", "closed", "done"}]
    /\ find \in [Calls -> SUBSET Pipelines] /\ todo \in [Calls -> SUBSET Pipelines]
    /\ tried \in [Calls -> SUBSET Pipelines]
    /\ look \in [Calls -> SUBSET Jobs] /\ arch \in [Calls -> SUBSET Jobs]
    /\ due \in [Calls -> SUBSET Builds] /\ old \in [Calls -> SUBSET Builds]
    /\ ok \in [Calls -> BOOLEAN] /\ bad \in [Calls -> BOOLEAN] /\ calm \in [Calls -> BOOLEAN]
    /\ code \in [Calls -> {0, 200, 201, 204, 500}]
    /\ closed \subseteq Pipelines \X Calls
    /\ fails \in 0 .. MaxFails

Init ==
    /\ script \in Scripts
    /\ job = [j \in Jobs |-> "none"] /\ build = [b \in Builds |-> "none"]
    /\ ended = {} /\ closed = {} /\ fails = 0
    /\ pc = [k \in Calls |-> "unsent"] /\ code = [k \in Calls |-> 0]
    /\ find = [k \in Calls |-> {}] /\ look = [k \in Calls |-> {}] /\ arch = [k \in Calls |-> {}]
    /\ due = [k \in Calls |-> {}] /\ todo = [k \in Calls |-> {}] /\ tried = [k \in Calls |-> {}]
    /\ ok = [k \in Calls |-> FALSE] /\ bad = [k \in Calls |-> FALSE]
    /\ old = [k \in Calls |-> {}] /\ calm = [k \in Calls |-> FALSE]

-----------------------------------------------------------------------------
(* pullRequestEvent *)

InProgress(k) == pc[k] \notin {"unsent", "done"}

\* Wrong: a closed hook, too, stays within the triggered pipelines.
StopsInTriggered(k) == To(k)

\* The pipelines whose jobs a hook stops: archivePRJobs lists the whole
\* repository, batchStopJobs has the triggered pipelines.
StopsIn(k) == IF Action(k) = "closed" THEN Repo ELSE To(k)

Closing(n) == \E l \in Sent : InProgress(l) /\ Action(l) = "closed" /\ Pr(l) = n

\* The next hook of the script arrives; what it does first depends on its
\* action.  Only a closed one goes on without a pipeline.
Receive(k) ==
    /\ k \in Sent /\ pc[k] = "unsent" /\ (k > 1 => pc[k - 1] # "unsent")
    /\ IF Action(k) # "closed" /\ To(k) = {}
       THEN /\ pc' = [pc EXCEPT ![k] = "done"] /\ code' = [code EXCEPT ![k] = 204]
            /\ UNCHANGED <<find, todo>>
       ELSE IF Action(k) = "opened"
       THEN /\ pc' = [pc EXCEPT ![k] = "create"]
            /\ todo' = [todo EXCEPT ![k] = To(k)]
            /\ UNCHANGED <<find, code>>
       ELSE /\ pc' = [pc EXCEPT ![k] = IF StopsIn(k) = {} THEN "stop" ELSE "find"]
            /\ find' = [find EXCEPT ![k] = StopsIn(k)]
            /\ UNCHANGED <<todo, code>>
    /\ old' = [old EXCEPT ![k] = {b \in RunningOf(Pr(k), StopsIn(k)) :
                                     job[JobOf(b)] = "active" /\ ~Closing(Pr(k))}]
    /\ calm' = [i \in Calls |->
                  IF i = k THEN ~\E l \in Calls : InProgress(l)
                  ELSE calm[i] /\ ~InProgress(i)]
    /\ UNCHANGED <<script, rows, look, due, arch, ok, bad, tried, fails>>

\* p.getJobs and the filter j.name.includes(name).
PrJobs(k, p) == {j \in Jobs : j[1] = p /\ job[j] = "active" /\ <<Pr(k), j[2]>> \in PartOf}

\* A closed hook goes on with the jobs of p at once; a synchronized one
\* waits for the jobs of all pipelines (Promise.all).
FindJobs(k, p) ==
    /\ pc[k] = "find" /\ p \in find[k]
    /\ find' = [find EXCEPT ![k] = @ \ {p}]
    /\ look' = [look EXCEPT ![k] = @ \cup PrJobs(k, p)]
    /\ arch' = [arch EXCEPT ![k] = IF Action(k) = "closed" THEN @ \cup PrJobs(k, p) ELSE {}]
    /\ pc' = [pc EXCEPT ![k] = IF find'[k] = {} THEN "stop" ELSE @]
    /\ UNCHANGED <<script, rows, due, todo, ok, bad, tried, code, fails, hist>>

MayStop(k) == pc[k] = "stop" \/ (pc[k] = "find" /\ Action(k) = "closed")

RunningIn(j) == {b \in Existing : JobOf(b) = j /\ build[b] \in Running}

\* stopJob: job.getRunningBuilds, then those that are not done.
ReadRunning(k, j) ==
    /\ MayStop(k) /\ j \in look[k]
    /\ look' = [look EXCEPT ![k] = @ \ {j}]
    /\ due' = [due EXCEPT ![k] = @ \cup RunningIn(j)]
    /\ UNCHANGED <<script, rows, pc, find, arch, todo, ok, bad, tried, code, fails, hist>>

\* stopRunningBuild writes ABORTED whatever the row has become since.
Abort(k, b) ==
    /\ b \in due[k]
    /\ due' = [due EXCEPT ![k] = @ \ {b}]
    /\ build' = [build EXCEPT ![b] = "ABORTED"]
    /\ UNCHANGED <<script, job, ended, closed, pc, find, look, arch, todo, ok, bad, tried, code, fails, hist>>

\* Reading or writing the builds of a job fails: its archival is off, the
\* other jobs go on, the request ends in an error.
StopFails(k, j) ==
    /\ MayStop(k) /\ fails < MaxFails
    /\ j \in look[k] \/ \E b \in due[k] : JobOf(b) = j
    /\ fails' = fails + 1
    /\ bad' = [bad EXCEPT ![k] = TRUE]
    /\ look' = [look EXCEPT ![k] = @ \ {j}]
    /\ arch' = [arch EXCEPT ![k] = @ \ {j}]
    /\ due' = [due EXCEPT ![k] = {b \in @ : JobOf(b) # j}]
    /\ UNCHANGED <<script, rows, pc, find, todo, ok, tried, code, hist>>

\* updatePRJobs: archived once its builds have been stopped.
Archive(k, j) ==
    /\ MayStop(k) /\ j \in arch[k] \ look[k] /\ ~\E b \in due[k] : JobOf(b) = j
    /\ arch' = [arch EXCEPT ![k] = @ \ {j}]
    /\ job' = [job EXCEPT ![j] = "archived"]
    /\ UNCHANGED <<script, build, ended, closed, pc, find, look, due, todo, ok, bad, tried, code, fails, hist>>

\* Wrong: the stop does not wait for the builds found running.
StoppedEarly(k) == look[k] = {} /\ arch[k] = {}
StoppedAll(k) == look[k] = {} /\ due[k] = {} /\ arch[k] = {}

\* All jobs are stopped: an error, no pipeline to go on with, or the events.
Stopped(k) ==
    /\ pc[k] = "stop" /\ StoppedAll(k)
    /\ \/ /\ bad[k]
          /\ pc' = [pc EXCEPT ![k] = "done"] /\ code' = [code EXCEPT ![k] = 500]
          /\ UNCHANGED todo
       \/ /\ ~bad[k] /\ To(k) = {}
          /\ pc' = [pc EXCEPT ![k] = "done"] /\ code' = [code EXCEPT ![k] = 204]
          /\ UNCHANGED todo
       \/ /\ ~bad[k] /\ To(k) # {} /\ Action(k) = "synchronized"
          /\ pc' = [pc EXCEPT ![k] = "create"] /\ todo' = [todo EXCEPT ![k] = To(k)]
          /\ UNCHANGED code
       \/ /\ ~bad[k] /\ To(k) # {} /\ Action(k) = "closed" /\ To(k) \cap OnClosed = {}
          /\ pc' = [pc EXCEPT ![k] = "done"] /\ code' = [code EXCEPT ![k] = 200]
          /\ UNCHANGED todo
       \/ /\ ~bad[k] /\ Action(k) = "closed" /\ To(k) \cap OnClosed # {}
          /\ pc' = [pc EXCEPT ![k] = "closed"] /\ todo' = [todo EXCEPT ![k] = To(k)]
          /\ UNCHANGED code
    /\ UNCHANGED <<script, rows, find, look, due, arch, ok, bad, tried, fails, hist>>

\* eventFactory.create: the PR jobs of p are made or taken out of the
\* archive, and the first one gets a build unless there is a skipMessage.
NewEvent(k, p) ==
    /\ job' = [j \in Jobs |-> IF j[1] = p /\ j[2] = Pr(k) /\ (j[3] = 1 \/ script.chained) THEN "active" ELSE job[j]]
    /\ build' = IF Pr(k) \in Restricted THEN build ELSE [build EXCEPT ![<<p, k, 1>>] = "QUEUED"]

\* createPREvents and startEvents for one pipeline: its config is made (the
\* commit found) or left out, then createEvent succeeds or is rejected.
StartPr(k, p) ==
    /\ pc[k] = "create" /\ p \in todo[k]
    /\ todo' = [todo EXCEPT ![k] = @ \ {p}]
    /\ \/ /\ NewEvent(k, p)
          /\ ok' = [ok EXCEPT ![k] = TRUE]
          /\ tried' = [tried EXCEPT ![k] = @ \cup {p}]
          /\ UNCHANGED fails
       \/ /\ fails < MaxFails /\ fails' = fails + 1
          /\ tried' \in {tried, [tried EXCEPT ![k] = @ \cup {p}]}
          /\ UNCHANGED <<job, build, ok>>
    /\ UNCHANGED <<script, ended, closed, pc, find, look, due, arch, bad, code, hist>>

\* createPrClosedEvent: an event of type pipeline in every triggered
\* pipeline, also in one without a ~pr-closed job.
StartClosed(k, p) ==
    /\ pc[k] = "closed" /\ p \in todo[k]
    /\ todo' = [todo EXCEPT ![k] = @ \ {p}]
    /\ tried' = [tried EXCEPT ![k] = @ \cup {p}]
    /\ \/ /\ closed' = closed \cup {<<p, k>>}
          /\ ok' = [ok EXCEPT ![k] = TRUE]
          /\ UNCHANGED fails
       \/ /\ fails < MaxFails /\ fails' = fails + 1
          /\ UNCHANGED <<closed, ok>>
    /\ UNCHANGED <<script, job, build, ended, pc, find, look, due, arch, bad, code, hist>>

\* Wrong: an answer only when an event was started.
AnswerStarted(k) ==
    /\ pc[k] \in {"create", "closed"} /\ todo[k] = {} /\ ok[k]
    /\ pc' = [pc EXCEPT ![k] = "done"] /\ code' = [code EXCEPT ![k] = 201]
    /\ UNCHANGED <<script, rows, find, look, due, arch, todo, ok, bad, tried, fails, hist>>

\* startEvents: an error if every event that was tried has failed.
Answer(k) ==
    /\ pc[k] \in {"create", "closed"} /\ todo[k] = {}
    /\ pc' = [pc EXCEPT ![k] = "done"]
    /\ code' = [code EXCEPT ![k] = IF ok[k] \/ tried[k] = {} THEN 201 ELSE 500]
    /\ UNCHANGED <<script, rows, find, look, due, arch, todo, ok, bad, tried, fails, hist>>

-----------------------------------------------------------------------------
(* The builds of a PR event *)

\* PUT /builds/{id} of the launcher; update.js refuses it for an ended build.
End(b) ==
    /\ build[b] \in Running
    /\ \E s \in Done :
         /\ build' = [build EXCEPT ![b] = s]
         /\ ended' = IF s = "SUCCESS" /\ script.chained /\ b[3] = 1 THEN ended \cup {b} ELSE ended
    /\ UNCHANGED <<script, job, closed, req, fails, hist>>

\* triggerNextJobs, later in the same request: whatever the jobs are now.
TriggerNext(b) ==
    /\ b \in ended
    /\ ended' = ended \ {b}
    /\ build' = [build EXCEPT ![<<b[1], b[2], 2>>] = "QUEUED"]
    /\ UNCHANGED <<script, job, closed, req, fails, hist>>

Handle(k) ==
    \/ \E p \in Repo : FindJobs(k, p) \/ StartPr(k, p) \/ StartClosed(k, p)
    \/ \E j \in Jobs : ReadRunning(k, j) \/ Archive(k, j)
    \/ \E b \in Builds : Abort(k, b)
    \/ Stopped(k) \/ Answer(k)

Next ==
    \/ \E k \in Calls : Receive(k) \/ Handle(k)
    \/ \E k \in Calls, j \in Jobs : StopFails(k, j)
    \/ \E b \in Builds : End(b) \/ TriggerNext(b)

Spec == Init /\ [][Next]_vars

\* Handlers that have begun go on; nothing makes a build end or a hook come.
FairSpec == Spec /\ \A k \in Calls : WF_vars(Handle(k))

-----------------------------------------------------------------------------
\* No name of a PR is part of the name of another.
OwnNames == \A n, m \in PRs : <<n, m>> \in PartOf => n = m

\* "Syncing a PR should stop the existing PR job", "closing a PR should stop
\* the PR job" (index.js:27): once such a hook has been answered without an
\* error, every build of the PR that ran when the hook arrived has ended,
\* whatever the builds and the other hooks have done in the meantime.  (Only
\* a close still at work may hide builds: it archives a job a reopening has
\* just taken into use, and archived jobs are not looked at.)
OlderBuildsStopped ==
    \A k \in Sent :
        Action(k) # "opened" /\ code[k] \notin {0, 500} => \A b \in old[k] : build[b] \in Done

\* A PR that was closed with nothing else at work is quiet: its jobs are
\* archived in every pipeline of the repository, also in one that the PR
\* does not trigger any more, and the only builds that may still run were
\* triggered by a build that succeeded in time (helper.js:728).  The same goes
\* for the earlier closes of the PR: one that overlaps a reopening archives a
\* job whose build has just begun, and no later close looks at it.
ClosedIsQuiet ==
    \A k \in Sent :
        /\ Action(k) = "closed" /\ pc[k] = "done" /\ ~bad[k]
        /\ \A l \in Sent :
             Pr(l) = Pr(k) => IF l > k THEN pc[l] = "unsent" ELSE Action(l) = "closed" => calm[l]
        => /\ \A j \in Jobs : j[2] = Pr(k) => job[j] # "active"
           /\ \A b \in RunningOf(Pr(k), Repo) :
                b[3] = 2 /\ build[<<b[1], b[2], 1>>] \in {"SUCCESS", "ABORTED"}

\* A hook stops only builds of its own PR ("Stop all the relevant PR jobs",
\* helper.js:702): the builds another PR has running go on.
OwnBuildsOnly ==
    \A k \in Sent : \A b \in due[k] : Pr(b[2]) = Pr(k)

\* Every hook that arrives is answered: whenever some are at work, there comes
\* a time when all have been.
HooksAnswered ==
    (\E k \in Calls : pc[k] \notin {"unsent", "done"}) ~> (\A k \in Calls : pc[k] \in {"unsent", "done"})
=============================================================================
