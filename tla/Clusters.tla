----------------------------- MODULE Clusters ------------------------------
(***************************************************************************)
(* What administrators set: build clusters (plugins/buildClusters), the    *)
(* cluster a pipeline or a job is forced onto, the state of a job          *)
(* (plugins/jobs/update.js) and banners (plugins/banners); and the badges  *)
(* of a pipeline, which users (plugins/pipelines/update.js) and the        *)
(* coverage tokens of its builds (plugins/coverage/token.js) set.  Every   *)
(* handler reads its rows, checks, and writes later.  A request that is    *)
(* refused changes nothing and takes no step.                              *)
(***************************************************************************)
EXTENDS Naturals

CONSTANTS
    Users, Contexts,   \* users, and the SCM contexts they come from
    ContextOf,         \* ContextOf[u]
    Admins,            \* the users of the list of administrators
    Names,             \* names of clusters
    Rows,              \* ids of clusters
    Requests,
    MaxWrites,         \* bound on the requests that are started
    MaxSyncs           \* bound on the syncs of the pipeline

ClustersAssumption ==
    /\ ContextOf \in [Users -> Contexts] /\ Admins \subseteq Users
    /\ MaxWrites \in Nat /\ MaxSyncs \in Nat

VARIABLES
    cluster,   \* cluster[c]: the build cluster with id c, or Gone
    job,       \* the job: state, changer, and of its permutation the config
               \* and the cluster it is forced onto
    pipe,      \* the pipeline: the cluster it is forced onto, its badges, and
               \* whether it has annotations and has had badges
    banner,    \* the text of the banner, or None
    req,       \* req[r]: what r does and where it stands
    begun,     \* requests started so far
    word,      \* history: what was set last as the configuration of the job,
               \* the cluster it is forced onto and each badge
    undone     \* history: those of them that were written back as they had
               \* been before, and not set since

rows == <<cluster, job, pipe, banner>>
vars == <<rows, req, begun, word, undone>>

None == "none"
Gone == [name |-> None]
Idle == [pc |-> "idle"]

Init ==
    /\ cluster = [c \in Rows |-> Gone]
    /\ job = [state |-> "ENABLED", changer |-> None, config |-> 0, forced |-> None]
    /\ \E annotated \in BOOLEAN :
         pipe = [cluster |-> None, annotated |-> annotated,
                 badges |-> [sonar |-> None, other |-> None], badged |-> FALSE]
    /\ banner = None
    /\ req = [r \in Requests |-> Idle] /\ begun = 0
    /\ word = [config |-> 0, forced |-> None, sonar |-> None, other |-> None] /\ undone = {}

Start(r, new) ==
    /\ req[r] = Idle /\ begun < MaxWrites
    /\ req' = [req EXCEPT ![r] = new] /\ begun' = begun + 1
    /\ UNCHANGED <<rows, word, undone>>

Finish(r, pc) == req[r].pc = pc /\ req' = [req EXCEPT ![r] = Idle] /\ UNCHANGED begun

IsAdmin(u) == u \in Admins

-----------------------------------------------------------------------------
(* Build clusters *)

Of(n, ctx) == {c \in Rows : cluster[c] # Gone /\ cluster[c].name = n /\ cluster[c].ctx = ctx}

\* POST: the admin's context, unless the payload names another.
Create(r, u, n, ctx) ==
    /\ IsAdmin(u)
    /\ Start(r, [pc |-> "create", row |-> [name |-> n, ctx |-> ctx, active |-> TRUE]])

\* The datastore keeps name and context unique.
WriteCreate(r) ==
    /\ Finish(r, "create")
    /\ LET new == req[r].row
           free == {c \in Rows : cluster[c] = Gone}
       IN  IF Of(new.name, new.ctx) # {} \/ free = {} THEN UNCHANGED cluster
           ELSE \E c \in free : cluster' = [cluster EXCEPT ![c] = new]
    /\ UNCHANGED <<job, pipe, banner, word, undone>>

\* PUT finds the cluster in the user's own context; the payload's context,
\* the user's by default, is written.
Update(r, u, n, ctx) ==
    /\ IsAdmin(u)
    /\ \E c \in Of(n, ContextOf[u]), active \in BOOLEAN :
         Start(r, [pc |-> "update", c |-> c, ctx |-> ctx, active |-> active])

WriteUpdate(r) ==
    /\ Finish(r, "update")
    /\ LET c == req[r].c
       IN  cluster' = IF cluster[c] = Gone \/ Of(cluster[c].name, req[r].ctx) \ {c} # {} THEN cluster
                      ELSE [cluster EXCEPT ![c].ctx = req[r].ctx, ![c].active = req[r].active]
    /\ UNCHANGED <<job, pipe, banner, word, undone>>

RemoveCluster(r, u, n) ==
    /\ IsAdmin(u)
    /\ \E c \in Of(n, ContextOf[u]) : Start(r, [pc |-> "drop", c |-> c])

WriteDrop(r) ==
    /\ Finish(r, "drop")
    /\ cluster' = [cluster EXCEPT ![req[r].c] = Gone]
    /\ UNCHANGED <<job, pipe, banner, word, undone>>

-----------------------------------------------------------------------------
(* Choosing a cluster: it has to be active, when it is looked up *)

Active(n, ctx) == \E c \in Of(n, ctx) : cluster[c].active

\* PUT /pipelines/{id}/buildCluster; the state and the YAML have been checked.
ForcePipeline(r, u, n) ==
    /\ IsAdmin(u) /\ Active(n, ContextOf[u])
    /\ Start(r, [pc |-> "annotate", inPlace |-> pipe.annotated, to |-> n])

\* Annotations that are there are changed in place, which does not make the
\* update write them for sure; new ones are assigned.
WritePipeline(r) ==
    /\ Finish(r, "annotate")
    /\ \/ pipe' = [pipe EXCEPT !.cluster = req[r].to, !.annotated = TRUE]
       \/ req[r].inPlace /\ UNCHANGED pipe
    /\ UNCHANGED <<cluster, job, banner, word, undone>>

\* PUT /jobs/{id} by a user who may push: the state and who changed it are
\* assigned, and nothing else is written.
PutJob(r, u, state) == Start(r, [pc |-> "state", to |-> state, user |-> u])

WriteState(r) ==
    /\ Finish(r, "state")
    /\ job' = [job EXCEPT !.state = req[r].to, !.changer = req[r].user]
    /\ UNCHANGED <<cluster, pipe, banner, word, undone>>

-----------------------------------------------------------------------------
(* Columns of several attributes that are read, and written back as a whole  *)
(* later: the permutation of the job and the badges of the pipeline.         *)

\* What stands in the two columns.
Now == [config |-> job.config, forced |-> job.forced,
        sonar |-> pipe.badges.sonar, other |-> pipe.badges.other]

\* The attributes of S are not any more what requests at work have read.
Aged(o, S) == IF req[o].pc \in {"force", "badges"} THEN [req[o] EXCEPT !.old = @ \cup S] ELSE req[o]

\* r ends and writes all of its column: its own attributes, and the others as
\* it has read them, which undoes those that have changed since.
Overwrite(r, column, own) ==
    LET again == (column \ DOMAIN own) \cap req[r].old
    IN  /\ word' = [a \in DOMAIN word |-> IF a \in DOMAIN own THEN own[a] ELSE word[a]]
        /\ undone' = (undone \cup again) \ DOMAIN own
        /\ req' = [o \in Requests |-> IF o = r THEN Idle ELSE Aged(o, DOMAIN own \cup again)]
        /\ UNCHANGED begun

\* PUT /jobs/{id}/buildCluster: the annotation goes into the first permutation.
ForceJob(r, u, n) ==
    /\ IsAdmin(u) /\ Active(n, ContextOf[u])
    /\ Start(r, [pc |-> "force", seen |-> job.config, to |-> n, old |-> {}])

\* DELETE takes the annotation out; a job without it is left alone.
FreeJob(r, u) ==
    /\ IsAdmin(u) /\ job.forced # None
    /\ Start(r, [pc |-> "force", seen |-> job.config, to |-> None, old |-> {}])

\* Wrong: a new permutation with the annotation and nothing else.
OnlyAnnotation(config) == 0

\* job.permutations = [permutation], as it was read with the annotation set.
Permutation(config) == config

WriteJob(r) ==
    /\ req[r].pc = "force"
    /\ job' = [job EXCEPT !.forced = req[r].to, !.config = Permutation(req[r].seen)]
    /\ Overwrite(r, {"config", "forced"}, [a \in {"forced"} |-> req[r].to])
    /\ UNCHANGED <<cluster, pipe, banner>>

\* A sync of the pipeline brings a new configuration; it keeps the annotation.
Sync ==
    /\ word.config < MaxSyncs
    /\ job' = [job EXCEPT !.config = word.config + 1]
    /\ word' = [word EXCEPT !.config = @ + 1] /\ undone' = undone \ {"config"}
    /\ req' = [o \in Requests |-> Aged(o, {"config"})]
    /\ UNCHANGED <<cluster, pipe, banner, begun>>

\* The coverage token of a build: the badge is set again, whatever it was.
Badge(r, url) ==
    Start(r, [pc |-> "badges", seen |-> pipe.badges, to |-> [b \in {"sonar"} |-> url],
              inPlace |-> pipe.badged, old |-> {}])

\* PUT /pipelines/{id} by an admin of the pipeline: the badges of the payload,
\* {} for one to take away, before the SCM is asked and settings are filled in.
PutBadges(r, badges) ==
    Start(r, [pc |-> "badges", seen |-> pipe.badges, to |-> badges, inPlace |-> FALSE, old |-> {}])

\* Wrong: the badges of the payload replace all that there are.
Replaced(old, new) == [b \in DOMAIN old |-> IF b \in DOMAIN new THEN new[b] ELSE None]

\* { ...badges } with the new ones over them.
Merged(old, new) == [b \in DOMAIN old |-> IF b \in DOMAIN new THEN new[b] ELSE old[b]]

\* What was assigned is written; what was changed in place may be, or not.
WriteBadges(r) ==
    /\ req[r].pc = "badges"
    /\ \/ /\ pipe' = [pipe EXCEPT !.badges = Merged(req[r].seen, req[r].to), !.badged = TRUE]
          /\ Overwrite(r, {"sonar", "other"}, req[r].to)
       \/ req[r].inPlace /\ Finish(r, "badges") /\ UNCHANGED <<pipe, word, undone>>
    /\ UNCHANGED <<cluster, job, banner>>

-----------------------------------------------------------------------------
(* Banners *)

CreateBanner(r, u) == IsAdmin(u) /\ Start(r, [pc |-> "post", to |-> "first"])
UpdateBanner(r, u) == IsAdmin(u) /\ banner # None /\ Start(r, [pc |-> "put", to |-> "second"])
RemoveBanner(r, u) == IsAdmin(u) /\ banner # None /\ Start(r, [pc |-> "delete", to |-> None])

WriteBanner(r) ==
    /\ \E pc \in {"post", "put", "delete"} : Finish(r, pc)
    /\ banner' = IF req[r].pc = "put" /\ banner = None THEN None ELSE req[r].to
    /\ UNCHANGED <<cluster, job, pipe, word, undone>>

-----------------------------------------------------------------------------
Handle(r) ==
    \/ \E u \in Users, n \in Names :
         \/ \E ctx \in Contexts : Create(r, u, n, ctx) \/ Update(r, u, n, ctx)
         \/ RemoveCluster(r, u, n) \/ ForcePipeline(r, u, n) \/ ForceJob(r, u, n)
    \/ \E u \in Users :
         \/ FreeJob(r, u) \/ CreateBanner(r, u) \/ UpdateBanner(r, u) \/ RemoveBanner(r, u)
         \/ \E state \in {"ENABLED", "DISABLED"} : PutJob(r, u, state)
    \/ Badge(r, "url")
    \/ \E B \in SUBSET {"sonar", "other"} \ {{}} : \E badges \in [B -> {None, "mine"}] : PutBadges(r, badges)
    \/ WriteCreate(r) \/ WriteUpdate(r) \/ WriteDrop(r) \/ WritePipeline(r)
    \/ WriteState(r) \/ WriteJob(r) \/ WriteBadges(r) \/ WriteBanner(r)

Next == (\E r \in Requests : Handle(r)) \/ Sync

Spec == Init /\ [][Next]_vars

-----------------------------------------------------------------------------
\* What was set last is there: the configuration of the job, the cluster it is
\* forced onto, and each badge of the pipeline.  Only a request that had read
\* the column before that was set writes an older value over it, and the next
\* one that sets it puts it right: who reads a column after it was set keeps
\* it, whatever else is at work (buildCluster/update.js:85,
\* buildCluster/remove.js:73, pipelines/update.js:269, coverage/token.js:118).
OnlyStaleUndoes == \A a \in DOMAIN word \ undone : Now[a] = word[a]
=============================================================================
