# A TLA+ project for Screwdriver

This directory models the API server of Screwdriver (`src/plugins`, `src/lib`), the part of the
system that turns the end of one build into the start of others.  It holds TLA+ modules, TLC
configurations that check them on small instances, and proofs that TLAPS checks.

* [Inventory](#inventory): the parts of the system, what each keeps, where it is hard
* [Modules](#modules): what each module models and how it corresponds to the code
* [Runs](#runs): what TLC checks, with which bounds, and what it found
* [Proofs](#proofs): what is proved for every value of the constants
* [Not modelled](#not-modelled) and [Plan](#plan)

`PROJECT.json` is the machine-readable side of it: the components, the runs, one mutant of the code
for every checked property, the source lines of every definition, the findings and the hazards.

## Inventory

The API server is a Node.js process, usually run in several replicas.  A request handler runs until
an `await`; everything it then reads may be stale when it goes on.  All state shared between requests
is in the database (rows of `builds`, `events`, `stageBuilds`, `jobs`, `pipelines` ...), reached
through `screwdriver-models`, whose objects are private copies: `factory.get` copies a row,
`object.update()` writes back the fields that were set.  There are no transactions.  The only
synchronisation is `plugins/lock.js`, a Redis lock that is optional and fails open.

| part | state | operations | interacts with |
|---|---|---|---|
| Downstream triggering, one event: `builds/index.js` `triggerNextJobs`, `removeJoinBuilds`; `builds/triggers/{and,or,orBase,joinBase,helpers}.js` | `builds` rows: status, `parentBuilds` | find or create the next build, merge its parents, start it, delete it | called by build updates; takes the lock of the group event; calls the executor (`build.start()`) |
| Downstream triggering, several pipelines: `builds/index.js`, `triggers/remote*.js` | `events` and `builds` rows of two pipelines | find or create the external event, then as above | the same with another lock |
| Build update: `builds/update.js`, `builds/helper/updateBuild.js` | `builds.status`, `events.status`, `events.meta` | `PUT /builds/{id}` by launcher, queue-service or user | calls triggering, the stage part and the stop of builds |
| Stages: `updateBuild.js`, `createOrUpdateStageTeardownBuild`, `ensureStageTeardownBuildExists` | `stageBuilds.status`, the teardown's `builds` row | update the stage, decide that it is done, start the teardown | called from the build update and from the join of the teardown |
| Event stop: `events/stopBuilds.js` | `builds.status`, `events.status` | `PUT /events/{id}/stop` | races build updates, which look whether their event was stopped |
| Lock: `lock.js` | a Redis key with a TTL | `lock`, `unlock` | triggering, webhooks, stages |
| Event and build creation: `events/create.js`, `helper/createEvent.js`, `builds/create.js` | new `events` and `builds` rows, the pipeline's admins | `POST /events`, `POST /builds`, passing over virtual builds | the SCM, the pipeline's row, triggering |
| Restarts and child events: `triggers/and.js`, `helpers.js` | `parentBuilds`, builds of child events | choose which builds a restart reuses | triggering |
| Webhooks, receipt: `webhooks/{index,dedupStore}.js`, `processHooks` | Redis keys or a map per process | claim a delivery, hand it to the queue or process it | the SCM repeats deliveries |
| Webhooks, events: `webhooks/helper.js` | new `events`; PR jobs and their builds | choose pipelines and start events; stop and archive PR jobs | event creation, jobs, builds that end |
| Pipelines: `pipelines/*.js` | the row, its admins twice, children | create, update, sync, admins, remove, start all | the SCM for permissions, events, hooks |
| Catalogs: `templates`, `commands`, `pipelines/templates` | versions, tags, the latest one, files in the store | publish, tag, trust, remove | builds publish, users and admins remove |
| Tokens and secrets: `tokens`, `pipelines/tokens`, `secrets` | a row each, of which only a hash is kept | create, update, refresh, remove, log in | `auth` |
| Logins and collections: `auth`, `collections` | users, collections | log in, default collection, add and remove pipelines | - |
| Clusters, jobs, banners, badges: `buildClusters`, `jobs`, `banners`, `coverage/token`, `pipelines/update` | rows, annotations and badges of pipelines and jobs | create, update, remove, force a cluster, set badges | the same rows from several endpoints |
| Steps and logs: `builds/steps` | the step's row, pages in the store | update by the launcher, paged reads | the launcher uploads meanwhile |
| Lists, artifacts, metrics | none of their own | paged reads, ZIP streams, ranges of time | rows and files change meanwhile |
| Shutdown: `shutdown.js` | tasks, the server | SIGTERM | every handler at work |
| Coverage, status, versions, swagger, rate limit, start-up | none shared | configuration and delegation | - |

Behaviours that are hard, and what has to hold:

* **Find-or-create across awaits.**  Two builds that end together look for the same next build.  An
  event must not hold two builds of one job, and a job must not be started twice.
* **Wake-ups.**  Each source of a join may find another one unfinished and leave the start to it.
  When all sources have succeeded, somebody must start the join; before that, nobody may.
* **Cleaning up after a failure** runs unlocked (`removeJoinBuilds`) beside triggering under the lock.
  A join that cannot start any more must go; a build that runs must not.
* **Copies written back late.**  Build status, event status, event meta and stage status are all
  decided from objects read several awaits before.  An end status must not be overwritten, meta must
  not be lost, a failed stage must not become a success.
* **Stop against progress.**  The stop of an event races builds that are being started.
* **Crash between two writes.**  A launcher repeats a request whose first attempt died anywhere.
* **Several pipelines.**  The external event and its builds are looked up under two locks and partly
  under none; one event upstream must lead to one event downstream.

* **Repeated and overlapping hooks.**  The SCM repeats deliveries, to any replica.  One must not start two
  events, nor be lost without an error.  Hooks of one pull request overlap with each other and with
  the builds they stop; when they are done nothing may run that should have been stopped.
* **Permission and state checked long before use.**  Pipelines are changed by handlers that ask the SCM
  in between, hold copies of the admins, and write them back.
* **Reads of what is being written.**  Logs, lists and archives are read in pieces, with a page size
  that is guessed, offsets that shift, and answers that have begun before a failure.
* **Several rows, no transaction.**  Publishing and removing a version touches the version, its tags,
  the latest mark and a file; a step may fail and another request may come between.

`PROJECT.json` lists these as hazards, each at its line, with the properties that would catch it.

## Modules

| module | of | models |
|---|---|---|
| `JoinTrigger` | one event of one pipeline | terminal `PUT /builds/{id}`, `triggerNextJobs`, `removeJoinBuilds`, OR and AND triggers, virtual and disabled jobs, the lock |
| `EventPromise` | one event | the abstract specification: a job begins once at most, after what it requires, and ends once |
| `BuildUpdate` | the builds and the event row | every update a launcher, the queue or a user sends; event status and meta; the stop of the event; crashes |
| `StageBuild` | one stage | stage build status, the decision that the stage is done, the two ways to start the teardown |
| `RemoteTrigger` | one job with sources in several pipelines | `triggerNextJobs` for external pipelines, remote OR and remote join, creation of the external event |
| `Restart` | the events of one group | restarting a job; which event's build a join uses, and which parents |
| `HookOnce` | a delivery | the abstract specification: it has its effect at most once |
| `WebhookDelivery` | deliveries and replicas | `POST /webhooks`, the claim, the queue, `POST /processHooks`, retries of the SCM |
| `HookEvents` | one hook | triggered pipelines, subscriptions, restrictions, skips, answers |
| `PullRequest` | the hooks of pull requests | stop, archive and start while builds end and trigger |
| `PipelineRequests` | one pipeline | sixteen kinds of requests on its row |
| `Catalog` | one name in a catalog | templates, commands and pipeline templates: publish, tag, trust, remove |
| `Credentials` | tokens and secrets | create, update, refresh, remove, use |
| `Collections` | users | logins and collections |
| `Clusters` | what administrators set | clusters, forced clusters, job state, banners, badges |
| `StepLog`, `Lists`, `Downloads`, `Metrics` | a reader | logs, lists, artifacts and metrics read while they are written |
| `Shutdown` | one process | SIGTERM, tasks, time limits, exit |
| `Webhooks` | `WebhookDelivery`, `HookEvents`, `PullRequest`, `Shutdown` | their variables and constants side by side, for one run and one module of proofs |
| `Services` | `Credentials`, `Catalog`, `Collections`, `Clusters` | the same |
| `...Proofs` | | proofs about `JoinTrigger`, `BuildUpdate`, `StageBuild`, `RemoteTrigger`, `Restart`, `Webhooks`, `PipelineRequests`, `Services` |
| `MC...` | | the instances TLC checks |

Each module has one action per stretch of code between two awaits that touch shared rows.  A variable
that is a function of the requests (or of the builds that send them) is a local variable of the
handler; `pc` says at which await the handler stands.  Everything else is a table row or a Redis key.
The modules overlap on purpose: `BuildUpdate` and `StageBuild` keep the steps of their own rows and
reduce what `JoinTrigger` details to one step, `RemoteTrigger` adds the pipelines to the join, and
`Restart` the events.  A request that is refused, changes nothing and answers an error takes no step
in the modules whose properties are not about answers (`Catalog`, `Credentials`, `Collections`,
`Clusters`); the others record the status of the answer.

### JoinTrigger

`build` is the builds table of the event, `lock` the key `pipeline:<id>:groupEvent:<id>`, `starts`
how often the executor was told to start a job.  `Finish` is the terminal update; on SUCCESS the
request goes on at `next` with `triggerNextJobs`, on FAILURE at `remove` with `removeJoinBuilds`.
The loop over next jobs is `LockNext` (`locker.lock`), `Find` (the reads of `OrBase.trigger` or
`AndTrigger.execute`), `StoreOr`/`StoreAnd` (create the build or merge its parents), `Check`
(`handleNewBuild` reads the join builds and decides), `Drop`, `Start` (write the status), `Exec`
(tell the executor), `Unlock`; `Descend` is the recursive call for virtual builds.  `Verdict`,
`Done`, `FilledParents`, `MergedParents` are the pure helpers of `triggers/helpers.js`.

`EventKept` is the refinement of `EventPromise`: the state of a job is read off its builds (`StateOf`: waiting,
queued, or how a started build of it ended), and every step then begins or ends at most one job as the
promise allows, or is a stutter; who finds out, creates, merges and removes does not show.

Two properties say that a join is not early.  `JoinParentsSucceeded` speaks of the parents recorded in its
row, `JoinNotEarly` of the builds its sources have.  Without the lock the first does not hold: a `StoreAnd` that was
read before the join was started overwrites the recorded parents with fewer.  The second does.

Decisions:

* QUEUED stands for every status of a started, unfinished build; COLLAPSED and FROZEN builds and
  UNSTABLE (see `BuildUpdate`) are left out.  A build gets one terminal update.
* `Check` reads all parents in one step.  The code reads them one after the other, but the status
  of a parent that has ended is final here, so the answers differ only in being less up to date.
* The order of the jobs in `todo` is open; the code's order is that of the workflow graph.
* `LockReliable = FALSE` is a lock that is not configured (the default, `config/default.yaml:447`)
  or fails: `locker.lock` then returns null and every caller goes on.  Expiry of the TTL inside a
  critical section is not modelled.
* Parents a build inherited unresolved stay `NoId` and are resolved when a join needs them, where the
  code resolves them one step earlier.
* An update of a row that has been removed changes nothing, but the executor is still told.
* Restarts and child events (`parentEventId`) are in `Restart`.

### BuildUpdate

`st`, `ev` and `meta` are rows; `mine`, `copy`, `merged` the request's objects of them.  `Receive` is
the check of `update.js`, `Load`..`Settle` the steps of `updateBuildAndTriggerDownstreamJobs`:
`WriteBuild` and `WriteEvent` are the members of one `Promise.all` and come in any order.  The
launcher and the queue send for a build, one request after the other, BLOCKED any number of times,
RUNNING, possibly UNSTABLE, then SUCCESS or FAILURE (`phase`); `Users` abort, `Stoppers` stop the event.  `Fail` is a crash of the process or an error of the
datastore at any step: the request is not answered and its sender sends it again; `MaxFails` bounds
it.  "STOPPED" is ABORTED with the status message of a stop, which the code recognises by its text.
`stopped` and `late` are history variables for `StopReachesReporters`.  The lock meant to guard
event.meta is absent because the code's import of it is undefined (see the findings).

### StageBuild

One request per build at a time (`pc` is indexed by builds).  `LoadStage`..`SetStage` is
`updateStageBuildStatus`, with the stage build read into `sb` before and written after.
`TriggerJob` creates the next jobs of the stage in one step (`JoinTrigger` has the details);
`JoinFind`, `JoinCheck`, `JoinStart`, `JoinLoadStage`, `JoinSetStage` are the teardown's join, under
the lock; `Look`, `CheckDone`, `Ensure`, `StartTeardown`, `CloseStage` the other way, in which only
`Ensure` takes the lock.  `TriggerAfter` triggers what follows the stage.  Jobs of the stage have one
source each and do not run in a circle (`TreeAssumption`), the teardown joins on the last ones.  UNSTABLE and the event stop are left out.

### RemoteTrigger

The job has one row per event of its pipeline.  `wiring` says for each source whether it comes
`forth` (upstream pipeline, new event), `back` (an event triggered by the job's own event) or is
`local`; `Init` picks one of `Wirings`, so a run covers several.  `glock` and `elock` are the two lock
names of `triggerNextJobs`.  `JoinData` is the join list, known or not before the external event
exists; `TriggerOwn` starts the other next jobs that come before the job and `TriggerRest` those that
come after it: a build triggers the jobs of its own pipeline first, the joins among them included,
and other pipelines afterwards; within each group the order is open.  `ReadGroup` is the read of the
group event's builds, which precedes the lock; `LockSelect`,
`ListEvents`, `CreateEvent` the choice of the event; `LockNext`..`Start` the trigger itself.  `ignored`
stands for the `ignoreJobs` of `mergeParentBuilds`: a source does not fill in the builds of another event whose
job follows the event's `startFrom` in its workflow graph.  For a source outside the event these are
all the event's own jobs; for a job of the event, the jobs of other pipelines that the graph shows behind
it, which depends on the graph and is chosen per wiring.

`RemoteStarts` is claimed for the wirings of `SafeWirings` only.  There the sources are filled in by each
other, or one's build is created after the other has stored its own, and that rests on the
order above: with other pipelines triggered first (the mutant) the start is lost.  For the wirings of `LostWirings`
it is violated, see the findings.  Locks are reliable here.  Virtual targets, restarts and a pipeline that is external to itself are left out.

### Restart

`events` and `builds` are the rows of a group, in the order of their ids; `parents` is the column
`parentBuilds`, and `used`, a history field, what it held when the build started.  `NextBuild`
is the choice `AndTrigger.execute` makes among the current event, a later event of the group and
child events; `Related` the filter of `mergeParentBuilds` for jobs that are to run again.  A request
that triggers has the lock, its reads are one step (what happens between them is `JoinTrigger`).

`GroupRuns` and `RestartRuns` speak of groups with one restart and of joins whose sources are `Apart`: no joins
themselves, and no two of them run again by one restart.

* Of two sources that both come after the restarted job, one may only succeed in the first event and the other
  only in the restart, since a job between failed in the other event.  Each event then has a
  build of the join that waits, and none ever starts.
* After a restart of a restart the first event does not see its build: for `requires: [m, b, c]`, where
  `m` succeeds only in the third event, `b` and `c` may be divided between the builds of the first and the
  third event.
* A source that is a join itself may be removed after the join behind it has recorded it as a parent.  TLC has
  found no counterexample there (joins of two and three sources, one of them a join), but the proof does
  not follow such parents.

### WebhookDelivery and HookOnce

A request is the a-th sending of delivery h; it stands at `claim`, `enqueue`, `queued` or `start`.
`conf` is the configuration of the API, chosen in `Init`: protection on or off, Redis (that may reject
calls) or one map per process, keys that expire, with or without the queue.  The SCM repeats a delivery
it has got no answer or an error for.  `AtMostOnce` is a refinement: under the mapping `Effect` every
step is one of `HookOnce` or stutters.  It speaks of the configurations in which a claim is seen by every
process (`Protected`); in the others `NothingSwallowed` and `LossReported` are what is left.

### HookEvents

One hook from `parseHook` to the answer.  `Targets` are the lists `triggeredPipelines` may resolve to
(which pipeline comes first is open), `StartFrom`, `Restriction`, `Ignorable`, `Skip` the decisions per
pipeline; calls of the SCM may fail at each step.  Triggers are pairs of a kind and what follows the
colon.  `createEvent` may throw after its event is there, when the first virtual jobs of the event are looked up
or ended (`createEvent.js:76-106`): such an event is not `whole`.  `EventsJustified` has three parts, each about
answers or events of the whole hook; the last one is that an answer with an error means that no event was started
whole, so that the SCM that sends the hook again repeats none of those.  A pipeline that
subscribes to its own repository, which the API does not refuse, may get an event without a job; the property
assumes that none does (`SubscribesElsewhere`).

### PullRequest

Hooks arrive in the order of a script and are handled at the same time.  `find`, `look`, `due` and
`arch` are what the stop still has to read, to abort and to archive, per hook; `todo` the pipelines
whose events are to be started.  Builds end and trigger the next job in two steps (`ended`), so a stop
may come between.  `old` and `calm` are history variables: which builds ran when a hook arrived, and
whether another was at work.  A hook that finds no pipelines is answered 204 at once, except a close,
which goes on to the stop.  `PartOf` says which PR's name is part of which other; `OwnNames` that none is.

`ClosedIsQuiet` speaks of a close that was alone, after closes that were alone as well.  Without the second
condition it is false: a PR is opened, closed, opened again while the close is at work, and closed.  The first
close archives the job whose build the reopening has just started, and the last one, which looks at active
jobs, does not find it.

### PipelineRequests

The row of one pipeline, the permissions at the SCM (which may change), and requests, each with the
copy it has read.  A handler is a chain of actions, one per await, up to its answer `code`; the head of
the module lists the sixteen kinds.  Names of admins and their ids are kept apart, as in the code, and both are sets: that an admin
gets to the head of the list is left out.
Writes that the code does not wait for before it answers go on in `late`.  `mixed`, `live`, `could`
are history variables: whether a request that writes one of the two lists only (PUT, updateAdmins)
has been about, whether the pipeline was ACTIVE, and the user could push, at some moment of a request.

### Catalog, Credentials, Collections, Clusters

Each has rows, requests with the copy they have read, and an action per await.  In `Catalog` a version
is a number, a tag points to one, `meta` is the row that pipeline templates have besides.  In `Credentials` a
value stands for a token or secret, given out once; `Changed` writes the assigned fields only, which is what keeps an update from reviving a value.
In `Clusters` the permutation of a job and the badges of a pipeline are columns of several attributes.  Whoever
writes one assigns the whole column, with its own attributes set and the others as it has read them (`Overwrite`):
`old` tells which of these have changed since, `word` what was set last, `undone` which attributes a stale copy
has put back.  `updateBuildCluster.js:82-87` and `coverage/token.js:118-126` change annotations and badges that are
there in place, which does not make the update write them for sure (`webhooks/helper.js:108`, `pipelines/sync.js:72,97`):
they may be written or not.

In `Catalog` requests overlap in any way and any call may fail.  `aged` tells what others have changed since a
request has read: who has published, which rows, tags and files are gone or written again.  `marred` records where
such an overlap or a failure does harm the code does nothing about, and is reset by what repairs it:

* two pipelines that find a name free at once both own it (`owners`, until all versions are gone);
* a version that is made the latest while another is published or removed, or a removal of the latest version
  of which a call fails, leaves two, none or an older one (`latest`, until the next publication);
* a tag that is set while its version is removed, or whose own removal fails, dangles (`tags`, until it is set again);
* publications of commands that overlap may leave a version with the file of another or none, and so may a removal
  that deletes the file but not the row (`files`, until the number is published again).

A command may be published without a file, as JSON; then it has none, and only what was posted must be there.

### StepLog, Lists, Downloads, Metrics

A client reads in several requests (or one that makes several calls) while rows, lines or files change.
`StepLog` counts lines, and pages have the size the launcher was built with, which the API guesses.
`Lists` has one table and thirteen ways to ask it, with page, count and order as each handler passes
them on; rows appear, change their tag and vanish.  `Downloads` adds up sizes before it streams;
sizes change meanwhile and reads fail.  `Metrics` counts half days: which ranges are refused, and how much
is told at most.  The metrics of a pipeline with a page or a count have no range: neither the default nor the limit
applies (`pipelines/metrics.js:44-57`), and what bounds the answer is the page.

### Shutdown

Handlers of signals, each with its own run of all tasks, and the server they share.

### What stands outside `src/`

The map marks these as external: `screwdriver-models` (`get` by event and job returns any matching
row, `getLatestBuilds` the one with the highest id, `create` with `start: true` a started build,
`update` writes the fields that were set), `screwdriver-workflow-parser`, the launcher and the
queue-service as senders of `PUT /builds/{id}`, and crashes.

### Fairness

`FairSpec` has weak fairness for the steps of every request: a handler that has begun runs on as long
as the process lives, its awaits return, and a lock is released by its holder (the models with
fairness have no crash).  Nothing forces a build to end, a user to act, or a sender to send:
those actions carry no fairness.  `MCWebhooks` has less: weak fairness of the disjunction `Work` of all
handler steps.  It suffices since what handlers do is finite.  In `Shutdown` the timers fire: a
handler of a signal goes on even if a task never ends.

## Runs

`tlc -config <cfg> <module>`; the numbers are distinct states.  `webhooks` and `services` hold several
modules that share no state: `Init` picks one (`module`) and the others stay where they begin, so the
states are the sum of the modules' and each is checked as if alone.

| run | instance | shows |
|---|---|---|
| `join_chain` (`MCJoinChain.cfg`, 2.1 M) | seven jobs: a join of three sources, one of them a virtual job behind an OR edge, a join after it, a job with two OR sources; two requests at a time, lock reliable | no interleaving gives an event two builds of a job, starts a job twice, starts a join before all its sources succeeded, leaves a CREATED build for ever that a failed source should have removed, or removes a started build; what becomes of the jobs is what `EventPromise` allows |
| `join_nolock` (559 k) | a join of three sources, one of which appears late, behind a virtual root; the lock may fail | rows are duplicated and overwritten, yet the join is not started before each source has succeeded, and it is started in the end |
| `join_mixed` (violation) | `requires: [~d, a, b]` | `StartedNeverRemoved`: see the findings |
| `update_fail` (2.4 M) | two builds that start a third, one crash anywhere | an ended build is never updated again by repeated requests; only SUCCESS triggers |
| `update_stop` (11 k) | a build that starts another, one stop | a build that reports after the stop is stopped; a success is never forgotten |
| `stage_teardown` (37 k) | setup, two parallel jobs, virtual teardown | the teardown runs however the builds end; what follows the stage runs only if all of it succeeded |
| `remote_safe` (94 k) | three sources, nine wirings (listed in `MCRemoteTrigger`) | one downstream event; no start before all required jobs succeeded; a start once they have |
| `restart` (126 k) | `m` requires `~a`, `t` requires `m` and `b`; two events, two requests | no event gets two builds of a job, a join starts from successes only and is never lost, in the group and in the restart |
| `webhooks` (175 k) | two deliveries with one id from two SCMs, one sent twice, seven set-ups; four pipelines with all hooks over two branches; seven scripts of hooks over one or two pipelines; two signals, two tasks | see the modules: a refinement, three liveness properties, five invariants |
| `pipelines` (5.1 M) | two requests of sixteen kinds, two users, one change of a permission, one failure | nobody starts anything unjustified, who is refused is no admin any more, both lists of admins are of the same users, a half-made pipeline was reported |
| `services` (3.7 M) | two requests at a time on tokens and secrets, a catalog (five in a row, of two versions), collections, clusters and jobs (four, with two syncs); a log of nine lines, a list of three rows, three files, eight half days | what is revoked stays out; catalogs are sound but for the harm listed above; what is read is whole; users have their default collection; only a request with an old copy undoes what was set |
| `pr_names` (violation) | PR 1 is closed while PR 10 runs | `OwnBuildsOnly`: see the findings |

Deadlock is not checked: an event that has run to its end stops, and so do requests that are bounded.

Why these bounds are enough to be interesting: every hazard above needs two requests that overlap, and
two requests at a time (any number one after the other) show each of them; a third request waits for
the lock at the only place where it could matter.  The graphs are the smallest that hold each kind of
edge, a join fed by a join, a virtual job, and a source that appears late.  `RemoteTrigger` has three
sources since its errors need one that comes after two overlapping ones.  One crash or failure is
enough for each pair of writes to be separated.  A log of nine lines has two pages of the big size and a
rest, three rows make a page and a half; a range of two days can be missed by half a day at both
ends.  `OneBuildPerEvent` and `StartedFromSuccess` were also tried with three events.

Every property of a passing run has a mutant in `PROJECT.json`: a changed definition (a dropped check, a
missing lock, a wrong merge) under which TLC finds the property violated, so no property holds
because the instance is too small for it to fail.  A property that speaks of several modules
(`ReadsAreWhole`) has one for each.

### Findings

The first two are runs with `expect: violation`; `PROJECT.json` quotes the text of the repository they
disagree with.  The others are configurations beside the runs; each gives a counterexample with
`tlc -config <cfg> <module>`.

* `join_mixed`: `removeJoinBuilds` reads a build as CREATED and deletes it later, without the lock.  An
  OR source may start it in between, so a queued build disappears (`builds/index.js:58`).
* `pr_names`: the jobs of a pull request are those whose name includes `PR-1`, so that of PR 10 is stopped
  and archived with it (`webhooks/helper.js:711`, `753`; the comment at 702 says "the relevant PR jobs").
* `MCUpdateMeta.cfg` (`MCBuildUpdate`), `MetaComplete`: `updateBuild.js:9` imports `{ locker }` from a module
  that exports the lock itself, so the lock around event.meta is never taken, and meta of builds that
  end together is lost.
* `MCStageVerdict.cfg` (`MCStageBuild`), `StageVerdict`: with a virtual teardown the stage is closed from an
  object read before another job failed: SUCCESS is written over FAILURE (`updateBuild.js:527`).
* `MCStageLast.cfg` (`MCStageBuild`), `TeardownLast`: that the stage is done is asked of the builds that
  exist, so a teardown may start while another job of the stage is about to get its next build
  (`updateBuild.js:499`).
* `MCRemoteLost.cfg` (`MCRemoteTrigger`), `RemoteStarts`: for `requires: [a, b, sd@2:x]` where `a` starts `b` and
  `x`, and for `requires: [a, sd@2:b, sd@2:x]`, two sources that end together
  trigger the job under different locks; each creates a build of it, or writes its parents over the other's, and a parent
  is missing for ever (`triggers/remoteJoin.js:44`).
* `MCRemoteTwice.cfg` (`MCRemoteTrigger`), `TriggeredOnce`: the source that creates the downstream event uses it
  without a lock, so another source starts the same job again (`builds/index.js:251`).
* `MCRestartStale.cfg` (`MCRestart`), `NotStale`: a join may start with a build of an earlier event for a
  job that is to run again in the restarted one (`triggers/helpers.js:564`; `test/plugins/trigger.test.js:1032`
  has it wait).
* `MCMergedAdmins.cfg` (`MCPipelineRequests`), `StarterLeads`: `createPREvents` gives `updateAdmins` an id where it takes a
  pipeline, so who merged is not made an admin (`webhooks/helper.js:680`).
* `MCHookSubscribe.cfg` (`MCWebhooks`), `OwnCommit`: if the commit of a subscriber cannot be read, the log says that the
  event is skipped, but it is created with the sha of the other repository (`webhooks/helper.js:1252`).

What else the modules showed, outside the listed runs:

* Without the lock, `StartedOnce` and `OneBuildPerJob` are violated (two sources that end together), a late
  Start write sets an ended build back to QUEUED, and with a join of three sources `JoinParentsSucceeded`
  fails too.  `JoinNotEarly` fails where a source may get two builds: for `requires: [~a, ~b]` a job `e` runs
  twice, the second of them fails and removes the virtual job behind `e` that the first has passed over, after
  the join behind that one has started.  With sources that have one way to be started (`Chains`) it is proved.
* `EndedStaysEnded` is violated when a user's abort overlaps the launcher's last update.
* A build that is started between the read and the writes of a stop is not stopped until it next
  reports, which is why `StopReachesReporters` speaks of builds that report, and the only trace of
  a stop is the message in the builds it has aborted: if the last of them is overwritten, it is forgotten.
* A crash between the write of SUCCESS and `triggerNextJobs` loses everything downstream, as the
  retry is refused: `SuccessTriggers` is checked without crashes.
* The event status may be written from an older reading of the builds and stay wrong (`updateBuild.js:552`).
* Two jobs of a stage that fail together both start the teardown; the second sets it back to QUEUED.
* The build of a join that is created after one of three sources has failed stays CREATED until the last has ended:
  `handleNewBuild` decides only when all have.  If the last one is ABORTED, which triggers and removes nothing,
  it stays for ever.  `FailedJoinCleaned` speaks of all other cases.
* `AfterSuccess` fails for a teardown that is run by a launcher, if the stage write of a failed job is
  delayed past its end; for a virtual one it is proved.
* For `requires: [sd@1:a, sd@1:b]` whose sources end together the wake-up is lost as well.
* Restarts: a build of the first event that ends late overrides the parents of the restart ("new wins" in
  `updateParentBuilds`); a job restarted while the restart of its source runs takes over that
  source's parents only in the row, after its start; of three events, two of which restart both sources, the join
  runs twice.
* Webhooks: without Redis two replicas start an event twice.  A delivery whose processing failed is
  answered 204 when it is repeated.  Subscribers are asked of the first pipeline on the branch only
  (`helper.js:453`).  A PR opened, closed, reopened and synchronized in close succession may keep an old
  build, and a stop may overwrite SUCCESS with ABORTED.
* `updateAdmins` writes the ids of the admins only.  The names then differ from them, and the requests that read the row
  later carry the difference on, so that with three requests (it and two POST /builds) names and ids each miss
  a user the other has.  `AdminsAgree` therefore excludes it altogether.
* Pipelines: PUT may set DELETING back from a stale read; POST /builds asks no state; startall answers 403
  for any failure, also after events were made; a pipeline whose creation failed half-way makes
  the retry a 409.  `batchUpdateAdmins` answers the first failure while it still writes others.
* Catalogs: the removal of a command's latest version leaves none; a removed newest number is given
  again; a tag that dangles cannot be removed; the file of a removed version stays in the store; the
  last version of a pipeline template leaves `meta.latestVersion` dangling; and the four kinds of harm listed
  under Catalog.  `CatalogSound` states what holds in spite of that.
* Clusters: two requests that write the permutation of a job, or the badges of a pipeline, from copies read at
  the same time undo each other, and so does an override that overlaps with a sync; an override of a pipeline that
  has annotations, and the badge of one that has badges, may not be persisted, though the answer is 200.
* Two logins at once may create two default collections; the changes of a collection's pipelines by
  overlapping requests may be lost.
* Names of tokens and secrets are checked before the row is written, so two may get one name.  DELETE
  of all tokens of a pipeline always answers 404 (`pipelines/tokens/removeAll.js`).
* Logs: a descending read from beyond the last line repeats lines; a log that outgrows a small page
  between the guess and the read leaves a gap; "no more data" may be told while lines are still uploaded.
* Lists: a page skips rows when one before them vanishes; GET /pipelines filters after paging, so a page may be
  empty though more follow; the builds of an event ignore page and count.
* Artifacts: without a content-length the size limit is off (`get.js:85`).
* Metrics: a range too long by less than a day, or reversed by less than a day, is accepted.
* Shutdown: a second SIGTERM runs all tasks again, and its refused stop ends the process while requests
  drain.

## Proofs

TLAPS checks them for every value of the constants under the `ASSUME`s of the modules, so for any number
of requests, builds, users, sources and events.  Each theorem names in its statement whatever else it
needs.

* `JoinTriggerProofs`, locks: `TypeCorrect`; `LockDiscipline`, that under a reliable lock every request
  between `locker.lock` and `locker.unlock` owns it; and `NoDuplicateBuild`, that then an event never holds
  two builds of one job.  `OneBuildPerJob` is not inductive: a request that has found no build and is about
  to create one must know that there still is none.  That is `AbsentAtStore`, which needs `LockHeld` to
  exclude the other requests in their critical section, which needs `ObjectsOK`, that a request past `Find`
  holds a row.  The proofs go action by action: those that create no row keep all three by one lemma,
  `CreateMutex` treats creation.  That the rows of a job have a latest one is `MaxExists`: without it a
  read could return nothing although there is a build.
* `JoinTriggerProofs`, starts: `NoDoubleStart` (`StartedOnce`), `NoEarlyJoin` (`JoinParentsSucceeded`),
  `StartedStays` (`StartedNeverRemoved`).  Beside the reliable lock they assume of the graph that it is
  `Plain`: no job is both an OR target and a join, and a virtual job has one OR source at most.  The first is
  needed, as `join_mixed` shows; so is the second, since a virtual job with two OR sources may be removed
  for the one that failed, between its creation and its being passed over.  The three are one
  invariant, `StartInv`.  `removeJoinBuilds` takes no lock, so the lock alone does not help: what does is that
  a build is only removed when its job is `Doomed`, one of its sources having failed for good, and a doomed
  job is never started.  The parents recorded in a row therefore refer to rows, or to rows
  removed from a doomed job (`GoodRefs`), and whatever a request holds (`LocalWell`) stays true while others
  move, because a step takes nothing back (`Grows`).
* `JoinTriggerProofs`, what a failure leaves: `FailedJoinRemoved` (`FailedJoinCleaned`), under the same
  assumptions.  A CREATED join all of whose sources have ended (`Settled`) has a request that will still
  look at it (`LooksAt`, in `CleanInv`).  The hand-over is the difficulty: a request that looks and finds a source
  not ended leaves the join to that source, whose request must not have been there before.  It holds
  because a look misses no source that has a build (`KnownWell`).
* `JoinTriggerProofs`, the abstract event: `KeepsPromise`, that `JoinTrigger` implements `EventPromise` under the
  mapping `StateOf`, with a reliable lock and a `Plain` graph.  `StartInv` holds what it needs: a job has at most
  one build that was started, a start finds all that it requires in SUCCESS, and an end stays.  Every action is
  shown to begin one job, to end one, or to leave the states as they are.
* `JoinTriggerProofs`, without the lock: `NotEarlyWithoutLock` (`JoinNotEarly`), whether or not the lock is
  reliable, for every graph whose join sources are at the ends of chains: each job that leads to one has one job
  before it at most (`Chains`).  Two jobs that start the same source may give it two builds, and then the property fails
  (above).  Rows of the join itself may be doubled, overwritten and removed at any time, so the
  invariant `TrackInv` says little of them: the ids that objects and rows hold are of the jobs they are
  taken for, or of removed rows (`Objects`, `RowsRight`).  On the chains it says much: nothing is removed there
  (`Spares`), what is about to be written waits (`Places`), a request looks once at what comes after a job
  (`Passes`), and a job has one build, made by one request after a success (`OneEach`).
* `BuildUpdateProofs`: `TypeCorrect` for every event, with users, stops and crashes; and, as long as
  only the launchers and the queue report (`LaunchersOnly`), `SuccessOnly` (`OnlySuccessTriggers`) and
  `EndedFinal` (`EndedStaysEnded`).  The check that a build has not ended is made at the beginning of
  a request and the write comes much later, so the invariant says who may write in between: nobody but
  the sender itself (`OwnBuild`), whose object agrees with the row (`OwnObject`), and no
  request has a build to stop (`OwnDue`).  Each step is then one of three kinds (`RowsStep`).  The
  assumption is needed: with a user both properties fail.
  `StopReaches` (`StopReachesReporters`) needs no such assumption: any users, stops and crashes.  Its
  invariant `StopInv` says what each kind of sender can be at (`Role`: a user writes nothing but an abort,
  only a build's own launcher brings it back to life) and, of a build that reports after the stop, that
  some build still tells of the stop and the request will not end before its sweep has reached the build
  (`LateWell`).
* `StageBuildProofs`: `StageBeforeAfter` (`AfterSuccess`), if the teardown is virtual; for one that a
  launcher runs the property is false (above).  The join that triggers what follows has read the last jobs
  only; that the others have succeeded too is `ParentWell`, that a job exists only if its parent
  succeeded, followed from the last jobs back to the first.  That such a walk ends is the part of
  `TreeAssumption` that rules out circles, stated as: every set of jobs has one without a successor in it.
* `RemoteTriggerProofs`: `SingleEvent` (`OneEvent`), for any sources and wirings.  A request that looks
  for the downstream event holds the lock (`SelectLocked`), and one about to create it has found none,
  and there still is none (`NoneAtCreate`).  `JoinAfterAll` (`RemoteParents`): a verdict that a
  join may start is reached from reads that are spread over two locks and none, but a success stays, so it is as
  good later on (`StartsWell`); a source that another one starts has no build to be mistaken for its own before
  that one triggers (`NotYet`).
* `RestartProofs`: `TypeCorrect`, and `OneBuild` (`OneBuildPerEvent`), for any graph, number of restarts and
  of requests.  The argument is that of `NoDuplicateBuild`, with events that come into being meanwhile: a
  request about to create a build has found none in its event (`AbsentAtStore`) and holds the lock
  (`LockHeld`); a restart takes no lock, but its build is in an event of its own, where no request looks
  yet (`RestartSafe`); every other step rewrites rows that stay in their event, and a removed row stays
  removed (`Rewritten`).  `JoinFromSuccess` (`StartedFromSuccess`): whichever event's builds were merged into the
  parents, those a join was started with are rows that have succeeded and stay so (`RowSound`), and a request
  writes the parents of the job it looked for (`FoundWell`).
  `JoinRuns` (`GroupRuns`) and `RestartedJoinRuns` (`RestartRuns`) say that something has happened once all is
  quiet.  Their invariant `GroupInv` holds of a join until it is `Excused`, by a failed source or a second restart:
  none of its builds is removed (`Kept`), each success of a source is recorded in the build of the join or has a
  request that will still tell it (`Seen`), what a request has found is still so when it writes (`StoreWell`), and a
  build that has all it waits for is about to be started (`Decided`).  In the restart the parents of the
  first event are taken over unless they are to run again, so the argument needs that `Subsequent` is
  closed under `NextJobs`.  That is a fact about a recursive function, found without induction: if it
  failed, its steps would all grow, and the least one that has too few elements has a predecessor.
* `WebhooksProofs`, deliveries: `ImplementsOnce`, that `WebhookDelivery` implements `HookOnce`: for any
  deliveries, pipelines, processes, retries and failures, where a claim is seen by all processes a delivery
  starts at most one event in a pipeline.  The invariant is that of a lock that is never given back:
  as long as a key is free its delivery has started nothing and no request of it goes on (`Unclaimed`),
  at most one request of a delivery goes on (`Single`), and it has not tried a pipeline that is still in
  its list (`Untried`).  Each step then is a step of `HookOnce` or leaves `Effect` as it is (`EffectStep`).
  `NoneSwallowed` (`NothingSwallowed`) and `NoSilentLoss` (`LossReported`) hold under an assumption on the SCM
  that the code takes for granted, that no two deliveries have one key (`DistinctKeys`); two that share one
  swallow each other.  The argument is that a taken key has a request behind it: one of its own delivery that
  still goes on, or one that came to its end or was answered (`KInv`, `LInv`).  `NoSilentLoss`
  further needs the processing without the queue, which answers only after the last pipeline.
* `WebhooksProofs`, events: `HookJustified` (`EventsJustified`), for any pipelines, subscriptions, triggers and hooks,
  as long as no pipeline subscribes to its own repository.  The invariant `ChoiceInv` keeps what was decided
  in view while calls of the SCM go on or fail: events are of the pipelines found, and none of those was to be
  ignored (`FromTargets`); and there is no event before the list and none started whole with an error (`Answered`).
* `WebhooksProofs`, pull requests: `OlderStopped` (`OlderBuildsStopped`) and `ClosedQuiet` (`ClosedIsQuiet`), for any script
  of hooks, any pipelines and failures, where no name of a PR is part of another's (`OwnNames`; `pr_names`
  shows why).  For the first, a build that ran when the hook came is yet to be found, read or stopped
  (`ToStop`), and no other close may archive its job without having stopped it, since archived jobs are not
  looked at (`Unarchived`).  For the second, a close that is `Alone` stops all first builds before it archives their
  jobs (`ToArchive`), after it no job is active (`Emptied`), and no first build runs in a job that is archived
  (`JobsActive`); that is lost when an earlier close overlaps a reopening.
* `PipelineRequestsProofs`: `TypeCorrect`, `AdminsPaired` (`AdminsAgree`), `HalfMade` (`HalfMadeTold`),
  `Justified` (`StartsJustified`) and `RefusedLeaves` (`RefusedIsOut`), from nothing but that the requests are
  finitely many (a new pipeline takes an id no other has).  For every one of the sixteen
  handlers a lemma says what each of its steps does to the row, to its own copy and to nobody else's (`Well`).
  From these follow `PairInv`, that not only the row but every copy of it has the same admins by name and by id;
  `HalfInv`, that a pipeline without webhooks has a creator that is still at work or answered 500; and
  `JustInv`, that how far a request has come tells what it has seen, and that what it saw was true then.
* `ServicesProofs`, credentials: `RevokedOut` (`RevokedStaysOut`), for any rows, requests and values.  The invariant adds
  that no two rows have one value (`Distinct`), values are never given twice (`Given`), and a login that has
  found its row did so while the value was in force (`InTime`).

* `ServicesProofs`, what administrators set: `StaleUndoesOnly` (`OnlyStaleUndoes`), for any requests.  What a
  request has read of its column and does not know to be old is what stands there (`Copied`), so what it writes
  back was the last word (`ColumnInv`).
* `ServicesProofs`, collections: `DefaultKept` (`DefaultCollection`), for any users, logins and requests.  Copies are
  old when they are written back; what makes that harmless is that the owner and the type of a collection never
  change (`Holds`), and a default one is refused by the removal, which read the type before (`CollectionInv`).
* `ServicesProofs`, catalogs: `SoundCatalog` (`CatalogSound`), for any versions, tags, users and requests.  `CatInv` has
  that whatever a request has read is still so, but for what `aged` tells (`Knows`): the version a publisher has
  computed is the next one, the tags a removal has found are all that point to its version, nothing newer than the
  version to be promoted has come.  Every step tells the others what it changes (`Described`), which keeps `Knows`
  (`HeedsOn`).  A version that is called the latest is the newest, and that none is so called is only while a request
  looks for it (`LatestOk`).  A finite set of versions has a newest one (`HasNewest`), by the library's theorem on
  well-founded relations.

Only model-checked remain, among the safety properties, `ReadsAreWhole`, which compares sums, counts and sorted
pages of what a reader got with those of what was stored, so facts about recursive data; and all of
liveness (`JoinEventuallyStarts`, `SuccessTriggers`, `TeardownRuns`, `RemoteStarts`, `EveryHookHandled`,
`HooksAnswered`, `Exits`), which with `ENABLED` is out of the prover's reach.  The induction theorems of the
library take operators as parameters, which the back ends cannot instantiate, so what a recursive definition
computes is not proved in general; `Ancestors` and the reading modules are left to TLC for that, while
`Subsequent`, `Newest` and the largest of a set are treated through a least counterexample
(`LeastExists`).

The properties below are proved under an assumption that their runs do not have to state, because the
instance satisfies it; for each a counterexample without it is described above: a reliable lock
(`OneBuildPerJob`, and with `Plain` the other three of the starts, `FailedJoinCleaned` and `EventKept`),
`Chains` (`JoinNotEarly`), `LaunchersOnly` (`OnlySuccessTriggers`, `EndedStaysEnded`), a virtual teardown (`AfterSuccess`),
`DistinctKeys` (`NothingSwallowed`, `LossReported`), `SubscribesElsewhere` (`EventsJustified`), `OwnNames`
(`OlderBuildsStopped`, `ClosedIsQuiet`).

## Not modelled

* Expiry of a lock inside its critical section; COLLAPSED and FROZEN builds; `skipFurther`.
* A virtual remote target; a pipeline that triggers itself as external; `buildsToRestartFilter` over
  pipelines; PR stages, UNSTABLE builds and the event stop in stages.
* That `PUT /pipelines/{id}` can move a pipeline to another repository; which commit an event is of.
* JWTs and scopes, rate limits, validators, status, coverage reports, swagger, start-up: a request
  leaves nothing behind that another depends on.
* What `screwdriver-models` does inside one call (creation of events, sync of a pipeline's jobs), the
  executor, the launcher and the SCM: they are outside this repository and are marked external.

## Plan

Done, in this order: `JoinTrigger` (the core) and its proofs, `BuildUpdate`, `StageBuild`, `RemoteTrigger`;
then `WebhookDelivery` with its abstract specification, `HookEvents`, `PullRequest`, `PipelineRequests`,
`Restart`, `Catalog`, `Credentials`, `Collections`, `Clusters`, the reading modules and `Shutdown`, and the proofs
about `WebhookDelivery`, `Credentials` and `Restart`; then the proofs of the starts, the removals and the failed joins
of `JoinTrigger`, of `JoinAfterAll`, `StageBeforeAfter`, `JoinFromSuccess` and `StopReaches`, and those about
`PipelineRequests`; then the abstract event and its refinement, the joins without the lock, the joins of restarted
groups (`GroupRuns`, `RestartRuns`), and the invariants of `HookEvents`, `PullRequest`, `Catalog`, `Collections` and
`Clusters`.  Next:

1. The expiry of the lock as an action of `JoinTrigger` and `RemoteTrigger`; `NotEarlyWithoutLock` is what holds of
   `JoinTrigger` in any case.
2. The composition of `PullRequest` with `WebhookDelivery`, whose processing is a single step today.
3. What is promised to a join when a group is restarted more than once, where `GroupRuns` does not hold.
4. The parts of `ReadsAreWhole` that need no sums: which lines and rows are handed out, page by page.
