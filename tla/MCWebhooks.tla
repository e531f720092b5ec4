----------------------------- MODULE MCWebhooks -----------------------------
(***************************************************************************)
(* Webhooks, with values for its constants, checked in one run: a          *)
(* behaviour is one of the module it has picked, and the others stay where *)
(* they begin.                                                             *)
(***************************************************************************)
EXTENDS Webhooks, TLC

CONSTANTS h1, h2, p, q, root, dir, other, sub

-----------------------------------------------------------------------------
(* Two deliveries with the same id from two SCMs, one sent twice, two      *)
(* pipelines, and the ways the API may be set up.                          *)

Plain == [enabled |-> TRUE, redis |-> TRUE, redisFails |-> FALSE, expires |-> FALSE,
          queue |-> FALSE, processes |-> {"r1"}]
\* Where all processes share Redis, it does not matter which one handles a request.
MCConfigs == {Plain,
              [Plain EXCEPT !.queue = TRUE],
              [Plain EXCEPT !.redisFails = TRUE],
              [Plain EXCEPT !.expires = TRUE],
              [Plain EXCEPT !.redis = FALSE, !.processes = {"r1", "r2"}],
              [Plain EXCEPT !.redis = FALSE],
              [Plain EXCEPT !.enabled = FALSE]}

MCId       == h1 :> "guid" @@ h2 :> "guid"
MCContext  == h1 :> "github" @@ h2 :> "gitlab"
MCMaxSends == h1 :> 2 @@ h2 :> 1

-----------------------------------------------------------------------------
(* A repository with a pipeline in its root, one in a directory and one on *)
(* another branch, and a pipeline of another repository that subscribes.   *)

NoName == ""
On(k) == <<k, NoName>>
MCPipeline ==
    root :> [virtual |-> FALSE, repo |-> "R", branch |-> "main", dir |-> NoName, restrict |-> NoName, subs |-> {},
             triggers |-> {On("commit"), <<"release", "v1">>, On("tag")}] @@
    dir :> [virtual |-> TRUE, repo |-> "R", branch |-> "main", dir |-> "d", restrict |-> "none", subs |-> {},
            triggers |-> {On("pr"), On("release")}] @@
    other :> [virtual |-> FALSE, repo |-> "R", branch |-> "dev", dir |-> NoName, restrict |-> "all", subs |-> {},
              triggers |-> {<<"commit", "main">>, <<"pr", "main">>, <<"tag", "v1">>}] @@
    sub :> [virtual |-> TRUE, repo |-> "S", branch |-> "main", dir |-> NoName, restrict |-> NoName, triggers |-> {On("subscribe")},
            subs |-> {[to |-> root, actions |-> {"commit", "pr"}], [to |-> dir, actions |-> {"release"}]}]

HookOf(t, a) == {[type |-> t, action |-> a, repo |-> "R", branch |-> b, release |-> n, ref |-> m, skipCi |-> s,
                  source |-> o, authors |-> u, changed |-> c] :
                 b \in {"main", "dev"}, n \in {"v1", "v2", NoName}, m \in {"v1", "v2", NoName}, s \in BOOLEAN,
                 o \in {"fork", "branch"}, u \in {{"bot"}, {"bot", "ann"}}, c \in SUBSET {"d"}}

MCHooks ==
    {h \in HookOf("repo", "push") : h.release = NoName /\ h.ref = NoName /\ h.source = "branch"}
    \cup {h \in HookOf("repo", "release") : h.changed = {} /\ h.source = "branch" /\ ~h.skipCi /\ h.ref = "v1"}
    \cup {h \in HookOf("repo", "tag") : h.changed = {} /\ h.source = "branch" /\ ~h.skipCi /\ h.release = NoName}
    \cup {h \in HookOf("pr", "opened") : h.release = NoName /\ h.ref = NoName}

-----------------------------------------------------------------------------
(* One pull request over a pipeline it triggers, and one that shares only  *)
(* the repository.                                                         *)

H(a, n, ps) == [action |-> a, pr |-> n, to |-> ps]
Script(ps, c, hs) == [repo |-> ps, chained |-> c, hooks |-> hs]
OnePr == {Script({p}, TRUE, <<H("opened", 1, {p}), H("closed", 1, {p})>>),
          Script({p}, TRUE, <<H("opened", 1, {p}), H("synchronized", 1, {p})>>),
          Script({p}, FALSE, <<H("opened", 1, {p}), H("synchronized", 1, {p}), H("closed", 1, {p})>>),
          Script({p}, FALSE, <<H("opened", 1, {p}), H("synchronized", 1, {p}), H("synchronized", 1, {p})>>),
          Script({p}, FALSE, <<H("opened", 1, {p}), H("closed", 1, {p}), H("opened", 1, {p}),
                               H("synchronized", 1, {p})>>),
          Script({p}, FALSE, <<H("opened", 1, {p}), H("closed", 1, {}), H("opened", 1, {p}),
                               H("closed", 1, {})>>),
          Script({p, q}, FALSE, <<H("opened", 1, {p, q}), H("closed", 1, {p})>>)}

\* Two pull requests, the name of one part of the name of the other:
\* "PR-10:main".includes("PR-1").
TwoPrs == {Script({p}, FALSE, <<H("opened", 1, {p}), H("opened", 10, {p}), H("closed", 1, {p})>>)}
Own == {<<1, 1>>}
Included == {<<1, 1>>, <<10, 10>>, <<1, 10>>}

-----------------------------------------------------------------------------
VARIABLE module

mvars == <<module, vars, evars, pvars, svars>>

MCInit ==
    /\ module \in {"delivery", "choice", "pull", "down"}
    /\ Init /\ (module # "delivery" => conf = Plain)
    /\ Choice!Init /\ (module # "choice" => hook = CHOOSE h \in ParsedHooks : TRUE)
    /\ Pull!Init /\ (module # "pull" => script = CHOOSE s \in Scripts : TRUE)
    /\ Down!Init

MCNext ==
    /\ UNCHANGED module
    /\ \/ module = "delivery" /\ Next /\ UNCHANGED <<evars, pvars, svars>>
       \/ module = "choice" /\ Choice!Next /\ UNCHANGED <<vars, pvars, svars>>
       \/ module = "pull" /\ Pull!Next /\ UNCHANGED <<vars, evars, svars>>
       \/ module = "down" /\ Down!Next /\ UNCHANGED <<vars, evars, pvars>>

\* Weaker than the fairness of the modules: some handler or timer goes on.  All
\* of them are finite, so none can starve another.
Work ==
    /\ UNCHANGED module
    /\ \/ module = "delivery" /\ (\E r \in Requests : Handle(r)) /\ UNCHANGED <<evars, pvars, svars>>
       \/ module = "pull" /\ (\E k \in Pull!Calls : Pull!Handle(k)) /\ UNCHANGED <<vars, evars, svars>>
       \/ module = "down" /\ (\E s \in Signals : Down!React(s)) /\ UNCHANGED <<vars, evars, pvars>>

MCSpec == MCInit /\ [][MCNext]_mvars /\ WF_mvars(Work)

=============================================================================
