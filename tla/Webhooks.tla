------------------------------- MODULE Webhooks -------------------------------
(***************************************************************************)
(* What webhooks start: the receipt of deliveries (WebhookDelivery), the   *)
(* choice of the events (HookEvents), the hooks of a pull request          *)
(* (PullRequest), and how the process that handles them goes down          *)
(* (Shutdown).  The modules share no state; each has its variables and     *)
(* constants here, so that one run can check and one module can prove what *)
(* they promise.                                                           *)
(***************************************************************************)
EXTENDS WebhookDelivery

-----------------------------------------------------------------------------
(* The choice of the events *)

CONSTANTS
    ActivePipelines, PipelineRow,  \* HookEvents' Pipelines and Pipeline
    ParsedHooks,                   \* HookEvents' Hooks
    IgnoreBy, RestrictPR

VARIABLES hook, epc, list, etodo, events, etried, ecode
evars == <<hook, epc, list, etodo, events, etried, ecode>>

Choice == INSTANCE HookEvents WITH
    Pipelines <- ActivePipelines, Pipeline <- PipelineRow, Hooks <- ParsedHooks,
    pc <- epc, todo <- etodo, tried <- etried, code <- ecode

-----------------------------------------------------------------------------
(* The hooks of pull requests *)

CONSTANTS
    PRs, PartOf, Restricted, OnClosed, Scripts, MaxHooks,
    MaxPrFails   \* PullRequest's MaxFails

VARIABLES script, job, build, ended, ppc, find, look, due, arch, ptodo, pok, bad, ptried,
          pcode, closed, pfails, old, calm
pvars == <<script, job, build, ended, ppc, find, look, due, arch, ptodo, pok, bad, ptried,
           pcode, closed, pfails, old, calm>>

Pull == INSTANCE PullRequest WITH
    MaxFails <- MaxPrFails,
    pc <- ppc, todo <- ptodo, ok <- pok, tried <- ptried, code <- pcode, fails <- pfails

ASSUME PullAssumption == Pull!PullRequestAssumption

-----------------------------------------------------------------------------
(* The end of the process *)

CONSTANTS Tasks, Signals

VARIABLES handler, task, server, exited
svars == <<handler, task, server, exited>>

Down == INSTANCE Shutdown

-----------------------------------------------------------------------------
(* The properties, stated in the modules; NothingSwallowed, LossReported,  *)
(* AtMostOnce (the refinement of HookOnce) and EveryHookHandled are those  *)
(* of WebhookDelivery.                                                     *)

\* PullRequest: what ran when a hook came, which was answered without an error, has ended.
OlderBuildsStopped == Pull!OlderBuildsStopped
\* PullRequest: a closed PR is quiet.
ClosedIsQuiet == Pull!ClosedIsQuiet
\* PullRequest: every hook is answered.
HooksAnswered == Pull!HooksAnswered
\* PullRequest: a hook stops builds of its own PR only ("Stop all the relevant
\* PR jobs", helper.js:702).  It does not hold.
OwnBuildsOnly == Pull!OwnBuildsOnly

\* HookEvents: every event has a job, no restriction of the server is evaded,
\* and an error is answered only if no event was started.
EventsJustified == Choice!EventsJustified
\* HookEvents: a subscribed event is made from a commit of its own repository
\* ("skip create event", helper.js:1257).  It does not hold.
OwnCommit == Choice!OwnCommit

\* Shutdown: a signal ends the process.
Exits == Down!Exits
=============================================================================
