----------------------------- MODULE HookEvents -----------------------------
(***************************************************************************)
(* Which events a webhook starts: startHookEvent, pushEvent and the        *)
(* selection of pipelines in plugins/webhooks/helper.js.  One hook is      *)
(* handled; the SCM may fail at every call.  (What concurrent hooks of a   *)
(* pull request do to each other is in PullRequest.)                       *)
(*                                                                         *)
(* A trigger such as ~release:v1 or ~commit:main is a pair of its kind and *)
(* what follows the colon.                                                 *)
(***************************************************************************)
EXTENDS Naturals, FiniteSets

CONSTANTS
    Pipelines,  \* ACTIVE pipelines
    Pipeline,   \* Pipeline[p]: repo, branch, dir, triggers (sources of the edges of
                \* its workflowGraph), virtual (an event may start with virtual
                \* jobs) and subs (subscribedScmUrlsWithActions)
    Hooks,      \* what scm.parseHook may return
    IgnoreBy,   \* pluginOptions.ignoreCommitsBy
    RestrictPR  \* pluginOptions.restrictPR

None == ""
Bare(kind) == <<kind, None>>

VARIABLES hook, pc, list, todo, events, tried, code

vars == <<hook, pc, list, todo, events, tried, code>>

IsExtra(h) == h.action \in {"release", "tag"}

-----------------------------------------------------------------------------
(* Triggers *)

\* isReleaseOrTagFilteringEnabled
Filtering(a, p) == Bare(IF a = "release" THEN "release" ELSE "tag") \notin Pipeline[p].triggers

\* determineStartFrom; branch is that of the pipeline, or None.
StartFrom(h, branch, filtering) ==
    LET kind == IF h.type = "pr" THEN IF h.action = "closed" THEN "pr-closed" ELSE "pr" ELSE "commit"
    IN  IF h.type = "repo" /\ h.action = "release"
        THEN <<"release", IF filtering THEN h.release ELSE None>>
        ELSE IF h.type = "repo" /\ h.action = "tag"
        THEN IF h.ref = None THEN Bare("") ELSE <<"tag", IF filtering THEN h.ref ELSE None>>
        ELSE <<kind, IF h.branch = branch THEN None ELSE h.branch>>

\* hasTriggeredJob
HasTriggeredJob(p, from) == from \in Pipeline[p].triggers

\* hasChangesUnderRootDir
ChangesUnder(h, p) == Pipeline[p].dir = None \/ Pipeline[p].dir \in h.changed

-----------------------------------------------------------------------------
(* triggeredPipelines *)

OfRepo(h)   == {p \in Pipelines : Pipeline[p].repo = h.repo}
OnBranch(h) == {p \in OfRepo(h) : /\ Pipeline[p].branch = h.branch
                                  /\ IsExtra(h) \/ ChangesUnder(h, p)}
OffBranch(h) ==
    {p \in OfRepo(h) : /\ Pipeline[p].branch # h.branch
                       /\ HasTriggeredJob(p, StartFrom(h, None, IsExtra(h) /\ Filtering(h.action, p)))}

\* A subscribed action is a pattern: ~pr is found in ~pr-closed as well.
Listens(actions, from) == \E a \in actions : a = from[1] \/ (a = "pr" /\ from[1] = "pr-closed")

\* Pipelines that subscribe to the first pipeline on the branch, with its rootDir.
Subscribers(h, first) ==
    {p \in Pipelines : \E s \in Pipeline[p].subs :
        /\ s.to = first
        /\ Listens(s.actions, StartFrom(h, None, Filtering(h.action, first)))}

\* The lists triggeredPipelines may resolve to: the order of the rows is open.
Targets(h) ==
    IF OnBranch(h) = {} THEN {OffBranch(h)}
    ELSE {OnBranch(h) \cup OffBranch(h) \cup Subscribers(h, first) : first \in OnBranch(h)}

-----------------------------------------------------------------------------
(* Event configs *)

\* Wrong: the annotation of the pipeline overrides every setting.
AnnotationFirst(p) == IF Pipeline[p].restrict = None THEN RestrictPR ELSE Pipeline[p].restrict

\* isRestrictedPR and getSkipMessageAndChainPR: an -admin setting of the
\* server overrides the annotation of the pipeline.
Restriction(p) ==
    IF RestrictPR \in {"all-admin", "none-admin", "branch-admin", "fork-admin"} \/ Pipeline[p].restrict = None
    THEN RestrictPR ELSE Pipeline[p].restrict

RestrictedPR(h, p) ==
    \/ Restriction(p) \in {"all", "all-admin"}
    \/ Restriction(p) \in {"branch", "branch-admin"} /\ h.source = "branch"
    \/ Restriction(p) \in {"fork", "fork-admin"} /\ h.source = "fork"

Subscribed(h, p) == Pipeline[p].repo # h.repo

\* The startFrom of the event config (createEvents, createPREvents).
From(h, p) ==
    IF Subscribed(h, p) THEN Bare("subscribe")
    ELSE StartFrom(h, Pipeline[p].branch, IsExtra(h) /\ Filtering(h.action, p))

\* skipMessage: [skip ci] for pushes, the restriction for pull requests.
Skip(h, p) == IF h.type = "pr" THEN RestrictedPR(h, p) ELSE h.skipCi

\* Wrong: only pipelines on other branches are asked for a job.
NotAsked(h, p) == FALSE

\* Extra triggers without a job make no event.
Ignorable(h, p) ==
    LET from == StartFrom(h, Pipeline[p].branch, IsExtra(h) /\ Filtering(h.action, p))
    IN  h.type = "repo" /\ from[1] \in {"release", "tag"} /\ ~HasTriggeredJob(p, from)

Event(h, p, sha, whole) ==
    [pipeline |-> p, from |-> From(h, p), sha |-> sha, skip |-> Skip(h, p), whole |-> whole]

\* createEvent: the first virtual builds of the event are ended and what follows
\* them triggered once its row is there, and that may fail.
MayBreak(h, p) == Pipeline[p].virtual /\ ~Skip(h, p)

Whole == {e \in events : e.whole}

-----------------------------------------------------------------------------
Init ==
    /\ hook \in Hooks
    /\ pc = "start" /\ list = {} /\ todo = {} /\ events = {} /\ tried = {} /\ code = 0

Respond(c) == pc' = "done" /\ code' = c

\* startHookEvent up to the SCM token: an ignored author is answered 204.
Begin ==
    /\ pc = "start"
    /\ IF ~IsExtra(hook) /\ ~hook.skipCi /\ hook.authors \subseteq IgnoreBy
       THEN Respond(204)
       ELSE pc' = "token" /\ UNCHANGED code
    /\ UNCHANGED <<hook, list, todo, events, tried>>

\* obtainScmToken: of the user, the generic user or the read-only account; it
\* throws if there is none.
GetToken ==
    /\ pc = "token"
    /\ \/ pc' = "changes" /\ UNCHANGED code
       \/ Respond(500)
    /\ UNCHANGED <<hook, list, todo, events, tried>>

\* getChangedFiles, whose error is passed on, or getCommitRefSha for a tag or
\* release, whose error is answered 204.
GetChanges ==
    /\ pc = "changes"
    /\ \/ pc' = "list" /\ UNCHANGED code
       \/ Respond(IF IsExtra(hook) THEN 204 ELSE 500)
    /\ UNCHANGED <<hook, list, todo, events, tried>>

\* parseUrl and triggeredPipelines.
ListPipelines ==
    /\ pc = "list"
    /\ \/ \E ps \in Targets(hook) :
            /\ list' = ps
            /\ todo' = {p \in ps : ~Ignorable(hook, p)}
            /\ IF ps = {} THEN Respond(204) ELSE pc' = "create" /\ UNCHANGED code
       \/ Respond(500) /\ UNCHANGED <<list, todo>>
    /\ UNCHANGED <<hook, events, tried>>

\* The sha a subscribed event gets: the second lookup of a push may miss.
Shas(h, p) == IF ~Subscribed(h, p) THEN {"hook"} ELSE IF h.type = "pr" THEN {"own"} ELSE {"own", "hook"}

\* One pipeline: no config (an error of the SCM, or no configPipelineSha), or
\* createEvent, which succeeds, or is rejected without an event or after it.
StartOne(p) ==
    /\ pc = "create" /\ p \in todo
    /\ todo' = todo \ {p}
    /\ \/ UNCHANGED <<events, tried>>
       \/ /\ tried' = tried \cup {p}
          /\ \/ \E sha \in Shas(hook, p), whole \in BOOLEAN :
                   /\ ~whole => MayBreak(hook, p)
                   /\ events' = events \cup {Event(hook, p, sha, whole)}
             \/ UNCHANGED events
    /\ UNCHANGED <<hook, pc, list, code>>

\* Wrong: an error if anything failed.
AnswerStrict ==
    /\ pc = "create" /\ todo = {}
    /\ Respond(IF Cardinality(Whole) < Cardinality(tried) THEN 500 ELSE 201)
    /\ UNCHANGED <<hook, list, todo, events, tried>>

\* startEvents and pushEvent: an error if all that was tried failed.
Answer ==
    /\ pc = "create" /\ todo = {}
    /\ Respond(IF tried # {} /\ Whole = {} THEN 500
               ELSE IF tried = {} /\ hook.type = "repo" THEN 204 ELSE 201)
    /\ UNCHANGED <<hook, list, todo, events, tried>>

Next == Begin \/ GetToken \/ GetChanges \/ ListPipelines \/ (\E p \in Pipelines : StartOne(p)) \/ Answer

Spec == Init /\ [][Next]_vars

-----------------------------------------------------------------------------
\* No pipeline subscribes to its own repository.  (The API does not refuse it:
\* on another branch such a pipeline gets an event without a job.)
SubscribesElsewhere ==
    \A p \in Pipelines : \A s \in Pipeline[p].subs : Pipeline[s.to].repo # Pipeline[p].repo

\* An event of a pipeline on another branch, or of a release or a tag, always
\* has a job to start: "empty event is not created when it is triggered by
\* extra triggers" (helper.js:1177), however the names are filtered.
NoEmptyEvents ==
    \A e \in events :
        /\ ~Subscribed(hook, e.pipeline)
        /\ e.from[1] \in {"release", "tag"} \/ Pipeline[e.pipeline].branch # hook.branch
        => HasTriggeredJob(e.pipeline, e.from)

\* A restriction the server's owner has fixed for all pipelines cannot be
\* loosened by a pipeline's annotation: no pull request that it names has
\* builds (helper.js:288).
FixedRestriction ==
    \A e \in events :
        /\ hook.type = "pr" /\ ~e.skip
        => /\ RestrictPR # "all-admin"
           /\ RestrictPR = "fork-admin" => hook.source # "fork"
           /\ RestrictPR = "branch-admin" => hook.source # "branch"

\* An error is the answer only if no event was started whole, so that a hook
\* sent again because of it repeats none but those whose first virtual jobs
\* could not be ended (helper.js:515, createEvent.js:76-106).
ErrorMeansNoneWhole == code = 500 => Whole = {}

\* The events a hook leaves behind are justified: each has a job to start,
\* none evades a restriction of the server, and none was started whole if the
\* SCM was told of an error.
EventsJustified == NoEmptyEvents /\ FixedRestriction /\ ErrorMeansNoneWhole

\* "skip create event for this subscribed trigger" (helper.js:1257): a
\* subscribed event is made from a commit of the pipeline's own repository.
OwnCommit == \A e \in events : e.from = Bare("subscribe") => e.sha = "own"
=============================================================================
