-------------------------- MODULE PipelineRequests --------------------------
(***************************************************************************)
(* The requests that read the row of one pipeline, ask the SCM what the    *)
(* user may do, and write the row back or start an event: plugins/         *)
(* pipelines, POST /events, POST /builds and the hooks.  Between two       *)
(* awaits of a request the others go on; what a request has read stays in  *)
(* its own copy.  pipeline.update() writes the fields that were assigned.  The *)
(* admins are kept twice, by name and by id; the order of the names, which *)
(* says whose SCM token is used, is left out.                              *)
(*                                                                         *)
(* A request is one of                                                     *)
(*   create   POST /pipelines                 delete  DELETE /pipelines    *)
(*   put      PUT /pipelines, settings        state   PUT /pipelines, state*)
(*   sync     POST /pipelines/{id}/sync       all     POST .../startall    *)
(*   webhooks POST .../sync/webhooks          prs   .../sync/pullrequests  *)
(*   admins   PUT /pipelines/{id}/updateAdmins                             *)
(*   batch    PUT /pipelines/updateAdmins, this pipeline among others      *)
(*   event    POST /events                    build   POST /builds         *)
(*   own_pr   POST /events for the user's own unrestricted PR              *)
(*   pr       POST /events for any other PR                                *)
(*   hook     a push hook, createEvents       merged  a PR closed in a     *)
(*            repository the pipeline subscribes to, createPREvents        *)
(***************************************************************************)
EXTENDS Naturals, FiniteSets

CONSTANTS
    Users,
    SdAdmins,    \* users with the Screwdriver admin scope
    Reqs,        \* bound: each is one request
    Ops,         \* the kinds of requests in this run
    MaxChanges,  \* bound: changes of a permission at the SCM
    MaxFails     \* bound: calls of the SCM or the database that fail

ASSUME PipelineAssumption ==
    /\ Users # {} /\ SdAdmins \subseteq Users
    /\ IsFiniteSet(Reqs)
    /\ MaxChanges \in Nat /\ MaxFails \in Nat

Levels == {"none", "push", "admin"}
EventOps == {"event", "own_pr", "pr"}

VARIABLES
    row,      \* the row of the pipeline
    perm,     \* perm[u]: what u may do to the repository, at the SCM
    op, who,  \* of each request: its kind and its user
    pc,
    copy,     \* copy[r]: the row as request r has read it
    seen,     \* seen[r]: the permission the SCM has told request r
    code,     \* code[r]: the status of the answer, 0 before
    events,   \* events[r]: the event of request r: none, made, or built
    changes, fails,
    mixed,    \* history: a request has written the names of the admins without
              \* their ids (PUT), or the ids without the names (updateAdmins)
    live,     \* history: live[r], the pipeline was ACTIVE at some moment of request r
    could     \* history: could[r], the user had the push permission at some moment of r

reqs == <<op, who, pc, copy, seen, code>>
hist == <<mixed, live, could>>
vars == <<row, perm, reqs, events, changes, fails, hist>>

\* The awaits at which the handler of a request stands.
Labels == {"fetch", "ask", "save", "sync", "start", "hooks", "late", "others", "remove", "gone",
           "check", "row", "setup"}

NoRow == [id |-> 0, admins |-> {}, ids |-> {}, state |-> "none", hooked |-> FALSE, child |-> FALSE]
Ids   == 1 .. Cardinality(Reqs) + 1  \* one more than the copies of requests hold
Rows  == [id : Ids \cup {0}, admins : SUBSET Users, ids : SUBSET Users,
          state : {"none", "ACTIVE", "DISABLED", "DELETING"}, hooked : BOOLEAN,
          child : BOOLEAN]  \* it has a config pipeline, which lists it

TypeOK ==
    /\ row \in Rows
    /\ perm \in [Users -> Levels]
    /\ op \in [Reqs -> Ops \cup {"none"}] /\ who \in [Reqs -> Users]
    /\ pc \in [Reqs -> Labels]
    /\ code \in [Reqs -> {0, 200, 201, 204, 400, 403, 404, 409, 500}]
    /\ copy \in [Reqs -> Rows] /\ seen \in [Reqs -> Levels]
    /\ events \in [Reqs -> {"none", "made", "built"}]
    /\ mixed \in BOOLEAN /\ live \in [Reqs -> BOOLEAN] /\ could \in [Reqs -> BOOLEAN]
    /\ changes \in 0 .. MaxChanges /\ fails \in 0 .. MaxFails

There    == row.id # 0
AtWork(r) == op[r] # "none" /\ (code[r] = 0 \/ pc[r] = "late")
Pushes(r) == seen[r] # "none"
IsSd(r)  == who[r] \in SdAdmins
Me(r)    == who[r]

Init ==
    /\ \/ row = NoRow
       \/ \E u \in Users, child \in BOOLEAN :
            row = [id |-> 1, admins |-> {u}, ids |-> {u},
                   state |-> "ACTIVE", hooked |-> TRUE, child |-> child]
    /\ perm \in [Users -> Levels]
    /\ op = [r \in Reqs |-> "none"] /\ pc = [r \in Reqs |-> "fetch"]
    /\ who = [r \in Reqs |-> CHOOSE u \in Users : TRUE]
    /\ copy = [r \in Reqs |-> NoRow] /\ seen = [r \in Reqs |-> "none"]
    /\ code = [r \in Reqs |-> 0] /\ events = [r \in Reqs |-> "none"]
    /\ changes = 0 /\ fails = 0 /\ mixed = FALSE
    /\ live = [r \in Reqs |-> FALSE] /\ could = [r \in Reqs |-> FALSE]

-----------------------------------------------------------------------------
(* Steps all handlers are made of. *)

At(r, o, p) == op[r] \in o /\ pc[r] = p /\ code[r] = 0
Go(r, p)    == pc' = [pc EXCEPT ![r] = p] /\ UNCHANGED code
Answer(r, c) == code' = [code EXCEPT ![r] = c] /\ UNCHANGED pc

\* The handler throws on a call that has failed.
Fails(r) ==
    /\ fails < MaxFails
    /\ fails' = fails + 1
    /\ Answer(r, 500)

\* The row is read; without one, or when it is refused with status c, the
\* answer is given at once.
Fetch(r, refused, c, next) ==
    /\ IF ~There THEN Answer(r, 404) /\ UNCHANGED copy
       ELSE IF refused THEN Answer(r, c) /\ UNCHANGED copy
       ELSE Go(r, next) /\ copy' = [copy EXCEPT ![r] = row]
    /\ UNCHANGED <<row, perm, op, who, seen, events, changes, fails>>

\* The SCM tells what the user may do.
Ask(r, next) ==
    /\ \/ /\ seen' = [seen EXCEPT ![r] = perm[Me(r)]]
          /\ Go(r, next)
          /\ UNCHANGED fails
       \/ Fails(r) /\ UNCHANGED seen
    /\ UNCHANGED <<row, perm, op, who, copy, events, changes>>

\* pipeline.update() with the two fields of the admins assigned.  The row
\* may have been deleted since it was read.
Save(r, admins, ids) ==
    /\ row' = IF row.id = copy[r].id THEN [row EXCEPT !.admins = admins, !.ids = ids] ELSE row
    /\ UNCHANGED <<perm, op, who, copy, seen, changes>>

Without(r) == copy[r].admins \ {Me(r)}
Others(r)  == copy[r].ids \ {Me(r)}
With(r)    == copy[r].admins \cup {Me(r)}

Receive(r) ==
    /\ op[r] = "none"
    /\ \E o \in Ops, u \in Users :
         op' = [op EXCEPT ![r] = o] /\ who' = [who EXCEPT ![r] = u]
    /\ UNCHANGED <<row, perm, pc, copy, seen, code, events, changes, fails>>

\* The SCM: a user gets or loses a permission.
Change ==
    /\ changes < MaxChanges
    /\ changes' = changes + 1
    /\ \E u \in Users, l \in Levels : l # perm[u] /\ perm' = [perm EXCEPT ![u] = l]
    /\ UNCHANGED <<row, reqs, events, fails>>

Made(r, kind) == events' = [events EXCEPT ![r] = kind]

-----------------------------------------------------------------------------
(* POST /events *)

EventFetch(r) == At(r, EventOps, "fetch") /\ Fetch(r, row.state # "ACTIVE", 400, "ask")

\* The user's own PR of a pipeline without restrictions needs no push permission.
EventAsk(r) == At(r, EventOps, "ask") /\ Ask(r, IF op[r] = "own_pr" THEN "start" ELSE "save")

\* Wrong: the user is removed, but the request goes on.
StarterGoesOn(r) ==
    /\ Go(r, "start")
    /\ IF Pushes(r) THEN Save(r, With(r), copy[r].ids \cup {Me(r)})
       ELSE Save(r, Without(r), Others(r))

\* Wrong: the user is refused but stays among the admins.
RefusedOnly(r) ==
    IF Pushes(r)
    THEN Go(r, "start") /\ Save(r, With(r), copy[r].ids \cup {Me(r)})
    ELSE Answer(r, 403) /\ UNCHANGED <<row, perm, op, who, copy, seen, changes>>

\* updateAdmins: the user becomes an admin, or is removed and refused.
UpdateAdmins(r) ==
    IF Pushes(r)
    THEN Go(r, "start") /\ Save(r, With(r), copy[r].ids \cup {Me(r)})
    ELSE Answer(r, 403) /\ Save(r, Without(r), Others(r))

EventSave(r) ==
    /\ At(r, EventOps, "save")
    /\ \/ UpdateAdmins(r) /\ UNCHANGED fails
       \/ Fails(r) /\ UNCHANGED <<row, perm, op, who, copy, seen, changes>>
    /\ UNCHANGED <<events>>

\* getCommitSha, the parent event and createEvent.  The virtual builds are
\* updated after the event was made: a failure leaves the event behind.
EventStart(r) ==
    /\ At(r, EventOps, "start")
    /\ \/ Answer(r, 201) /\ Made(r, "built") /\ UNCHANGED fails
       \/ Answer(r, 404) /\ Made(r, "made") /\ UNCHANGED fails
       \/ Fails(r) /\ (Made(r, "built") \/ UNCHANGED events)
    /\ UNCHANGED <<row, perm, op, who, copy, seen, changes>>

-----------------------------------------------------------------------------
(* POST /builds *)

BuildFetch(r) == At(r, {"build"}, "fetch") /\ Fetch(r, FALSE, 0, "ask")
BuildAsk(r)   == At(r, {"build"}, "ask") /\ Ask(r, "save")

\* Each list is assigned only when the user is not in it.
NamesOf(r) == IF Me(r) \in copy[r].admins THEN row.admins ELSE With(r)
IdsOf(r)   == IF Me(r) \in copy[r].ids THEN row.ids ELSE copy[r].ids \cup {Me(r)}

BuildSave(r) ==
    /\ At(r, {"build"}, "save")
    /\ IF Pushes(r)
       THEN Go(r, "sync") /\ Save(r, NamesOf(r), IdsOf(r))
       ELSE Answer(r, 403) /\ Save(r, Without(r), Others(r))
    /\ UNCHANGED <<events, fails>>

\* The pipeline is synchronized, and an event without builds is made.
BuildEvent(r) ==
    /\ At(r, {"build"}, "sync")
    /\ \/ Go(r, "start") /\ Made(r, "made") /\ UNCHANGED fails
       \/ Fails(r) /\ UNCHANGED events
    /\ UNCHANGED <<row, perm, op, who, copy, seen, changes>>

BuildCreate(r) ==
    /\ At(r, {"build"}, "start")
    /\ \/ Answer(r, 201) /\ Made(r, "built") /\ UNCHANGED fails
       \/ Fails(r) /\ UNCHANGED events
    /\ UNCHANGED <<row, perm, op, who, copy, seen, changes>>

-----------------------------------------------------------------------------
(* POST /pipelines/{id}/sync, .../sync/webhooks and .../sync/pullrequests *)

SyncFetch(r) == At(r, {"sync"}, "fetch") /\ Fetch(r, row.state = "DELETING", 409, "ask")
SyncAsk(r)   == At(r, {"sync"}, "ask") /\ Ask(r, "save")

\* Wrong: the user is added to one of the two lists only.
OneList(r) ==
    IF ~Pushes(r) THEN Save(r, Without(r), Others(r))
    ELSE IF Me(r) \in copy[r].admins THEN UNCHANGED <<row, perm, op, who, copy, seen, changes>>
    ELSE Save(r, With(r), copy[r].ids)

\* pipeline.sync() ends with a write of the assigned fields.
SyncAdmins(r) ==
    IF ~Pushes(r) THEN Save(r, Without(r), Others(r))
    ELSE IF Me(r) \in copy[r].admins THEN UNCHANGED <<row, perm, op, who, copy, seen, changes>>
    ELSE Save(r, With(r), copy[r].ids \cup {Me(r)})

SyncSave(r) ==
    /\ At(r, {"sync"}, "save")
    /\ \/ /\ Answer(r, IF Pushes(r) \/ IsSd(r) THEN 204 ELSE 403)
          /\ SyncAdmins(r)
          /\ UNCHANGED fails
       \/ Fails(r) /\ UNCHANGED <<row, perm, op, who, copy, seen, changes>>
    /\ UNCHANGED events

HooksFetch(r) ==
    /\ At(r, {"webhooks", "prs"}, "fetch")
    /\ Fetch(r, row.state = "DELETING", 409, IF IsSd(r) THEN "hooks" ELSE "ask")
\* An error of the SCM counts as no permission.
HooksAsk(r) ==
    /\ At(r, {"webhooks", "prs"}, "ask")
    /\ \/ seen' = [seen EXCEPT ![r] = perm[Me(r)]] /\ UNCHANGED fails
       \/ fails < MaxFails /\ fails' = fails + 1 /\ UNCHANGED seen
    /\ IF seen'[r] # "none" THEN Go(r, "hooks") ELSE Answer(r, 403)
    /\ UNCHANGED <<row, perm, op, who, copy, events, changes>>

\* pipeline.addWebhooks: the last step but one of PUT, the last of the others.
AddWebhooks(r, c) ==
    /\ \/ /\ row' = IF row.id = copy[r].id THEN [row EXCEPT !.hooked = TRUE] ELSE row
          /\ ((Answer(r, c) /\ UNCHANGED fails) \/ (op[r] \in {"put", "state"} /\ Fails(r)))
       \/ Fails(r) /\ UNCHANGED row
    /\ UNCHANGED <<perm, op, who, copy, seen, events, changes>>

HooksAdd(r) == At(r, {"webhooks"}, "hooks") /\ AddWebhooks(r, 204)

\* pipeline.syncPRs() makes jobs for pull requests; the row stays.
PrsSync(r) ==
    /\ At(r, {"prs"}, "hooks")
    /\ ((Answer(r, 204) /\ UNCHANGED fails) \/ Fails(r))
    /\ UNCHANGED <<row, perm, op, who, copy, seen, events, changes>>

-----------------------------------------------------------------------------
(* PUT /pipelines/{id}/updateAdmins and PUT /pipelines/updateAdmins *)

AdminOps == {"admins", "batch"}

AdminsFetch(r) ==
    At(r, AdminOps, "fetch") /\ Fetch(r, FALSE, 0, IF IsSd(r) THEN "save" ELSE "ask")
AdminsAsk(r) == At(r, AdminOps, "ask") /\ Ask(r, "save")

\* The permission of the requesting user counts, and the state as it was read.
MayAdd(r)  == (seen[r] = "admin" \/ IsSd(r)) /\ copy[r].state # "DELETING"
Refusal(r) == IF seen[r] = "admin" \/ IsSd(r) THEN 409 ELSE 403

\* Only adminUserIds is written.
AddIds(r) ==
    IF MayAdd(r) /\ row.id = copy[r].id
    THEN \E u \in Users : row' = [row EXCEPT !.ids = copy[r].ids \cup {u}]
    ELSE UNCHANGED row

AdminsSave(r) ==
    /\ At(r, {"admins"}, "save")
    /\ AddIds(r) /\ Answer(r, IF MayAdd(r) THEN 200 ELSE Refusal(r))
    /\ UNCHANGED <<perm, op, who, copy, seen, events, changes, fails>>

BatchSave(r) ==
    /\ At(r, {"batch"}, "save")
    /\ AddIds(r) /\ IF MayAdd(r) THEN Go(r, "others") ELSE Answer(r, Refusal(r))
    /\ UNCHANGED <<perm, op, who, copy, seen, events, changes, fails>>

BatchAnswer(r) ==
    /\ At(r, {"batch"}, "others") /\ Answer(r, 204)
    /\ UNCHANGED <<row, perm, op, who, copy, seen, events, changes, fails>>

\* Another pipeline of the batch fails: the answer is given, and this one is
\* written all the same, before or after it.
BatchFails(r) ==
    /\ At(r, {"batch"}, "save") \/ At(r, {"batch"}, "others")
    /\ code' = [code EXCEPT ![r] = 404]
    /\ pc' = [pc EXCEPT ![r] = IF @ = "save" THEN "late" ELSE @]
    /\ UNCHANGED <<row, perm, op, who, copy, seen, events, changes, fails>>

BatchLate(r) ==
    /\ op[r] = "batch" /\ pc[r] = "late"
    /\ AddIds(r) /\ Go(r, "others")
    /\ UNCHANGED <<perm, op, who, copy, seen, events, changes, fails>>

-----------------------------------------------------------------------------
(* PUT /pipelines/{id} *)

PutOps == {"put", "state"}

PutFetch(r) == At(r, PutOps, "fetch") /\ Fetch(r, row.state = "DELETING", 409, "ask")

\* An error of the SCM counts as no permission for a Screwdriver admin.
PutAsk(r) ==
    /\ At(r, PutOps, "ask")
    /\ \/ seen' = [seen EXCEPT ![r] = perm[Me(r)]] /\ Go(r, "save") /\ UNCHANGED fails
       \/ /\ fails < MaxFails /\ fails' = fails + 1
          /\ IF IsSd(r) THEN Go(r, "save") ELSE Answer(r, 403)
          /\ UNCHANGED seen
    /\ UNCHANGED <<row, perm, op, who, copy, events, changes>>

\* applyStateChange: the state read, not the state of the row, is changed.
Flipped(r) == IF copy[r].state = "ACTIVE" THEN "DISABLED" ELSE "ACTIVE"
NewState(r) == IF op[r] = "state" THEN Flipped(r) ELSE row.state

Restate(r, admins) ==
    row' = IF row.id = copy[r].id THEN [row EXCEPT !.admins = admins, !.state = NewState(r)] ELSE row

\* Of a child pipeline, admins may change the state only.
PutChild(r) ==
    /\ At(r, PutOps, "save") /\ copy[r].child
    /\ \/ (op[r] = "put" \/ (seen[r] # "admin" /\ ~IsSd(r))) /\ Answer(r, 403) /\ UNCHANGED row
       \/ /\ op[r] = "state" /\ (seen[r] = "admin" \/ IsSd(r))
          /\ \/ Answer(r, 409) /\ UNCHANGED row             \* the state it has already
             \/ Answer(r, 200) /\ Restate(r, row.admins)
    /\ UNCHANGED <<perm, op, who, copy, seen, events, changes, fails>>

\* A Screwdriver admin who is no admin of the repository may change the state only.
PutState(r) ==
    /\ At(r, PutOps, "save") /\ ~copy[r].child /\ seen[r] # "admin" /\ IsSd(r)
    /\ \/ op[r] = "put" /\ Answer(r, 403) /\ UNCHANGED row
       \/ op[r] = "state" /\ Answer(r, 409) /\ UNCHANGED row  \* the state it has already
       \/ op[r] = "state" /\ Answer(r, 200) /\ Restate(r, row.admins)
    /\ UNCHANGED <<perm, op, who, copy, seen, events, changes, fails>>

\* adminUserIds is only pushed to, which does not mark it for the write.
PutSave(r) ==
    /\ At(r, PutOps, "save") /\ ~copy[r].child /\ (seen[r] = "admin" \/ ~IsSd(r))
    /\ \/ seen[r] # "admin" /\ Answer(r, 403) /\ UNCHANGED row
       \/ seen[r] = "admin" /\ op[r] = "state" /\ Answer(r, 409) /\ UNCHANGED row
       \/ seen[r] = "admin" /\ Go(r, "hooks") /\ Restate(r, {Me(r)})
    /\ UNCHANGED <<perm, op, who, copy, seen, events, changes, fails>>

\* addWebhooks, sync and the deploy key.
PutFinish(r) == At(r, PutOps, "hooks") /\ AddWebhooks(r, 200)

-----------------------------------------------------------------------------
(* DELETE /pipelines/{id} *)

\* A child pipeline that its config pipeline still lists is for Screwdriver admins.
RemoveFetch(r) ==
    /\ At(r, {"delete"}, "fetch")
    /\ IF row.state = "DELETING" THEN Fetch(r, TRUE, 409, "ask")
       ELSE Fetch(r, row.child /\ ~IsSd(r), 403, "ask")

RemoveAsk(r) ==
    /\ At(r, {"delete"}, "ask")
    /\ \/ /\ seen' = [seen EXCEPT ![r] = perm[Me(r)]]
          /\ (IF perm[Me(r)] = "admin" \/ IsSd(r) THEN Go(r, "remove") ELSE Answer(r, 403))
          /\ UNCHANGED fails
       \/ /\ fails < MaxFails /\ fails' = fails + 1
          /\ (IF IsSd(r) THEN Go(r, "remove") ELSE Answer(r, 500))
          /\ UNCHANGED seen
    /\ UNCHANGED <<row, perm, op, who, copy, events, changes>>

\* pipeline.remove(): the row says so while jobs, builds and secrets are
\* removed, and goes last.
RemoveStart(r) ==
    /\ At(r, {"delete"}, "remove")
    /\ Go(r, "gone")
    /\ row' = IF row.id = copy[r].id THEN [row EXCEPT !.state = "DELETING"] ELSE row
    /\ UNCHANGED <<perm, op, who, copy, seen, events, changes, fails>>

RemoveEnd(r) ==
    /\ At(r, {"delete"}, "gone")
    /\ \/ /\ Answer(r, 204) /\ UNCHANGED fails
          /\ row' = IF row.id = copy[r].id THEN NoRow ELSE row
       \/ Fails(r) /\ UNCHANGED row
    /\ UNCHANGED <<perm, op, who, copy, seen, events, changes>>

-----------------------------------------------------------------------------
(* POST /pipelines/{id}/startall: the pipeline is one of the child pipelines *)

\* The parent, the user's permission on it, and its ACTIVE children.
AllFetch(r) ==
    /\ At(r, {"all"}, "fetch")
    /\ \/ \E c \in {403, 404} : Answer(r, c) /\ UNCHANGED copy
       \/ IF row.child /\ row.state = "ACTIVE" THEN Go(r, "ask") /\ copy' = [copy EXCEPT ![r] = row]
          ELSE Answer(r, 201) /\ UNCHANGED copy
    /\ UNCHANGED <<row, perm, op, who, seen, events, changes, fails>>

\* Whatever a child is rejected for, the answer is 403.
AllAsk(r) ==
    /\ At(r, {"all"}, "ask")
    /\ \/ /\ seen' = [seen EXCEPT ![r] = perm[Me(r)]]
          /\ (IF perm[Me(r)] # "none" THEN Go(r, "start") ELSE Answer(r, 403))
          /\ UNCHANGED fails
       \/ /\ fails < MaxFails /\ fails' = fails + 1 /\ Answer(r, 403) /\ UNCHANGED seen
    /\ UNCHANGED <<row, perm, op, who, copy, events, changes>>

AllStart(r) ==
    /\ At(r, {"all"}, "start")
    /\ \/ Answer(r, 201) /\ Made(r, "built") /\ UNCHANGED fails
       \/ /\ fails < MaxFails /\ fails' = fails + 1 /\ Answer(r, 403)
          /\ (Made(r, "built") \/ UNCHANGED events)
    /\ UNCHANGED <<row, perm, op, who, copy, seen, changes>>

-----------------------------------------------------------------------------
(* Hooks: a push to the repository, and a PR merged in a repository the      *)
(* pipeline subscribes to.  Neither is refused for a missing permission.     *)

HookOps == {"hook", "merged"}

HookFetch(r) ==
    /\ At(r, HookOps, "fetch")
    /\ IF row.state = "ACTIVE" THEN Go(r, "ask") /\ copy' = [copy EXCEPT ![r] = row]
       ELSE Answer(r, 204) /\ UNCHANGED copy
    /\ UNCHANGED <<row, perm, op, who, seen, events, changes, fails>>

\* updateAdmins: the SCM is asked and the row written; errors are only logged.
HookAsk(r) ==
    /\ At(r, {"hook"}, "ask")
    /\ \/ seen' = [seen EXCEPT ![r] = perm[Me(r)]] /\ Go(r, "save") /\ UNCHANGED fails
       \/ fails < MaxFails /\ fails' = fails + 1 /\ Go(r, "start") /\ UNCHANGED seen
    /\ UNCHANGED <<row, perm, op, who, copy, events, changes>>

HookSave(r) ==
    /\ At(r, {"hook"}, "save")
    /\ Go(r, "start")
    /\ \/ /\ UNCHANGED fails
          /\ (IF Pushes(r) THEN Save(r, With(r), copy[r].ids \cup {Me(r)})
              ELSE Save(r, Without(r), Others(r)))
       \/ /\ fails < MaxFails /\ fails' = fails + 1
          /\ UNCHANGED <<row, perm, op, who, copy, seen, changes>>
    /\ UNCHANGED events

\* createPREvents passes p.id where updateAdmins expects the pipeline: asking
\* for the permission on undefined, or assigning to a number, throws.
MergedAdmins(r) ==
    /\ At(r, {"merged"}, "ask")
    /\ Go(r, "start")
    /\ UNCHANGED <<row, perm, op, who, copy, seen, events, changes, fails>>

HookStart(r) ==
    /\ At(r, HookOps, "start")
    /\ \/ Answer(r, 201) /\ Made(r, "built") /\ UNCHANGED fails
       \/ Fails(r) /\ UNCHANGED events
    /\ UNCHANGED <<row, perm, op, who, copy, seen, changes>>

-----------------------------------------------------------------------------
(* POST /pipelines *)

\* The permission first (an error counts as none), then a pipeline of the same scmUri.
CreateAsk(r) ==
    /\ At(r, {"create"}, "fetch")
    /\ seen' = [seen EXCEPT ![r] = perm[Me(r)]]
    /\ IF perm[Me(r)] = "admin" THEN Go(r, "check") ELSE Answer(r, 403)
    /\ UNCHANGED <<row, perm, op, who, copy, events, changes, fails>>

CreateCheck(r) ==
    /\ At(r, {"create"}, "check")
    /\ IF There THEN Answer(r, 409) ELSE Go(r, "row")
    /\ UNCHANGED <<row, perm, op, who, copy, seen, events, changes, fails>>

\* scmUri is unique in the table.
CreateRow(r) ==
    /\ At(r, {"create"}, "row")
    /\ IF There THEN Answer(r, 500) /\ UNCHANGED <<row, copy>>
       ELSE /\ row' = [id |-> CHOOSE i \in Ids : \A q \in Reqs : copy[q].id # i,
                       admins |-> {Me(r)}, ids |-> {Me(r)}, state |-> "ACTIVE",
                       hooked |-> FALSE, child |-> FALSE]
            /\ copy' = [copy EXCEPT ![r] = row']
            /\ Go(r, "setup")
    /\ UNCHANGED <<perm, op, who, seen, events, changes, fails>>

\* Wrong: a failed set-up is only logged.
SetUpLogged(r) ==
    /\ At(r, {"create"}, "setup")
    /\ \/ Go(r, "hooks") /\ UNCHANGED fails
       \/ fails < MaxFails /\ fails' = fails + 1 /\ Answer(r, 201)
    /\ UNCHANGED <<row, perm, op, who, copy, seen, events, changes>>

\* The default collection, sync and the deploy key.
CreateSetUp(r) ==
    /\ At(r, {"create"}, "setup")
    /\ ((Go(r, "hooks") /\ UNCHANGED fails) \/ Fails(r))
    /\ UNCHANGED <<row, perm, op, who, copy, seen, events, changes>>

CreateHooks(r) == At(r, {"create"}, "hooks") /\ AddWebhooks(r, 201)

-----------------------------------------------------------------------------
WritesOne(r) ==
    \/ op[r] \in PutOps /\ pc[r] = "save" /\ pc'[r] = "hooks"
    \/ op[r] \in AdminOps /\ pc[r] \in {"save", "late"} /\ (pc'[r] = "others" \/ code'[r] = 200)

Observe ==
    /\ mixed' = (mixed \/ \E r \in Reqs : WritesOne(r))
    /\ live'  = [r \in Reqs |-> live[r] \/ (AtWork(r)' /\ row'.state = "ACTIVE")]
    /\ could' = [r \in Reqs |-> could[r] \/ (AtWork(r)' /\ perm'[who'[r]] # "none")]

Step(r) ==
    \/ Receive(r)
    \/ EventFetch(r) \/ EventAsk(r) \/ EventSave(r) \/ EventStart(r)
    \/ BuildFetch(r) \/ BuildAsk(r) \/ BuildSave(r) \/ BuildEvent(r) \/ BuildCreate(r)
    \/ SyncFetch(r) \/ SyncAsk(r) \/ SyncSave(r)
    \/ HooksFetch(r) \/ HooksAsk(r) \/ HooksAdd(r) \/ PrsSync(r)
    \/ AdminsFetch(r) \/ AdminsAsk(r) \/ AdminsSave(r)
    \/ BatchSave(r) \/ BatchAnswer(r) \/ BatchFails(r) \/ BatchLate(r)
    \/ PutFetch(r) \/ PutAsk(r) \/ PutChild(r) \/ PutState(r) \/ PutSave(r) \/ PutFinish(r)
    \/ RemoveFetch(r) \/ RemoveAsk(r) \/ RemoveStart(r) \/ RemoveEnd(r)
    \/ AllFetch(r) \/ AllAsk(r) \/ AllStart(r)
    \/ HookFetch(r) \/ HookAsk(r) \/ HookSave(r) \/ MergedAdmins(r) \/ HookStart(r)
    \/ CreateAsk(r) \/ CreateCheck(r) \/ CreateRow(r) \/ CreateSetUp(r) \/ CreateHooks(r)

Next == ((\E r \in Reqs : Step(r)) \/ Change) /\ Observe

Spec == Init /\ [][Next]_vars

-----------------------------------------------------------------------------
(* The admins by name and the admins by id are written by eight handlers,  *)
(* each from what it has read before it asked the SCM.  Still the same     *)
(* users are in both, however the requests interleave, as long as no PUT   *)
(* (which forgets to write the ids) and no updateAdmins (which writes the  *)
(* ids only) has written the row.                                          *)
AdminsAgree == ~mixed => row.admins = row.ids

(* However requests, permission changes and state changes interleave, an   *)
(* event is made only by a request during which the pipeline was ACTIVE at *)
(* some moment (POST /builds does not ask) and its user had the push       *)
(* permission at some moment (the user's own PR and hooks need none).      *)
StartsJustified ==
    \A r \in Reqs : events[r] # "none" =>
        /\ op[r] # "build" => live[r]
        /\ op[r] \notin HookOps \cup {"own_pr"} => could[r]

(* Whoever is refused a start or a sync for the lack of the push           *)
(* permission is no admin any more when the answer is given, whatever      *)
(* other requests have written meanwhile, and has started nothing.         *)
RefusedIsOut ==
    [][\A r \in Reqs :
         code[r] = 0 /\ code'[r] = 403 /\ op[r] \in {"event", "pr", "build", "sync"}
           => /\ row.id = copy[r].id => Me(r) \notin row'.admins \cup row'.ids
              /\ events'[r] = "none"]_vars

(* A pipeline that was created but never got its webhooks is no secret:    *)
(* one of the requests that created it is still at work, or was answered   *)
(* with an error.                                                          *)
HalfMadeTold ==
    There /\ ~row.hooked =>
        \E r \in Reqs : op[r] = "create" /\ copy[r].id = row.id /\ code[r] \in {0, 500}

(* helper.js:117 promises that the user who starts an event gets to the    *)
(* head of the admins, so that its SCM token is used after this.  The code *)
(* does not do so for a merged PR of a repository subscribed to.           *)
StarterLeads ==
    \A r \in Reqs : op[r] = "merged" /\ code[r] = 201 /\ perm[Me(r)] # "none" /\ row.id = copy[r].id
        => Me(r) \in row.admins
=============================================================================
