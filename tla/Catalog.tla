------------------------------ MODULE Catalog -------------------------------
(***************************************************************************)
(* The catalogs of job templates, commands and pipeline templates          *)
(* (plugins/templates, plugins/commands, plugins/pipelines/templates): the *)
(* versions published under one name, their tags, which one is the latest, *)
(* and the files of commands in the store.  A handler reads rows, checks   *)
(* them and writes later; the writes of one Promise.all may fail one by    *)
(* one.  A request that is refused changes nothing and takes no step.      *)
(*                                                                         *)
(* Version n stands for the n-th patch: a published version gets the patch *)
(* after the newest one that exists, so the number of a removed newest     *)
(* version is given again.                                                 *)
(***************************************************************************)
EXTENDS Naturals, FiniteSets

CONSTANTS
    Kinds,        \* the catalogs, of "template", "command" and "pipeline"
    Requests,
    Creds,        \* [type, pipeline, isPR]: a build of the pipeline, a user who
                  \* administers it, or an admin of Screwdriver
    Tags,
    MaxVersions,  \* bound on the versions that exist
    MaxFails,     \* bound on the failing calls
    MaxAsked      \* bound on the requests that are started

CatalogAssumption ==
    /\ Kinds \subseteq {"template", "command", "pipeline"}
    /\ MaxVersions \in Nat \ {0} /\ MaxFails \in Nat /\ MaxAsked \in Nat
    /\ \A c \in Creds : c.type \in {"build", "user", "admin"} /\ c.isPR \in BOOLEAN

VARIABLES
    kind,    \* the catalog of this behaviour
    row,     \* row[v]: owner, latest, trusted and file of version v, or Absent
    tag,     \* tag[t]: the version t points to, or 0
    meta,    \* pipeline templates: owner, latest version and trusted since, or Absent
    store,   \* commands: store[v] is the publication whose file the store has for v
    req,     \* req[r]: what r does, where it stands and what has changed since it read
    fails, asked,   \* failed calls and started requests so far
    marred   \* history: where requests that overlapped or failed did harm

vars == <<kind, row, tag, meta, store, req, fails, asked, marred>>

Absent   == [owner |-> "none"]
NoFile   == "none"
Idle     == [pc |-> "idle"]
Versions == 1 .. MaxVersions

\* What others have changed since a request has read: the pipelines that have
\* published, the versions whose rows were removed (0 for meta) or called the
\* latest again, the tags that were written or whose rows were removed, and
\* the files that were written or deleted.
Fresh == [by |-> {}, gone |-> {}, lifted |-> {}, tags |-> {}, freed |-> {}, files |-> {}]

\* Of these, what makes a difference to a request that stands at pc.
Matters(pc) ==
    CASE pc \in {"post", "create"} -> {"by", "gone", "files"}
      [] pc = "tag"       -> {"gone", "freed"}
      [] pc = "untag"     -> {"freed"}
      [] pc = "remove"    -> {"gone", "lifted", "tags", "freed"}
      [] pc = "promote"   -> {"by", "gone"}
      [] pc = "removeAll" -> {"gone", "tags", "freed"}
      [] pc = "trust"     -> {"gone"}
      [] OTHER            -> {}

\* Versions of a pipeline template are found through its meta row.
Existing  == {v \in Versions : row[v] # Absent /\ (kind = "pipeline" => meta # Absent)}
Newest(S) == CHOOSE v \in S : \A w \in S : w <= v
NextPatch == IF Existing = {} THEN 1 ELSE Newest(Existing) + 1

Owners   == IF kind = "pipeline" THEN IF meta = Absent THEN {} ELSE {meta.owner}
            ELSE {row[v].owner : v \in Existing}
Owner(v) == IF kind = "pipeline" THEN meta.owner ELSE row[v].owner

Init ==
    /\ kind \in Kinds
    /\ row = [v \in Versions |-> Absent] /\ tag = [t \in Tags |-> 0] /\ meta = Absent
    /\ store = [v \in Versions |-> NoFile]
    /\ req = [r \in Requests |-> Idle] /\ fails = 0 /\ asked = 0
    /\ marred = [owners |-> FALSE, latest |-> FALSE, tags |-> {}, files |-> {}]

-----------------------------------------------------------------------------
What(r) == req[r].what
Aged(r) == req[r].aged

\* r becomes new; what the others have read is older by this change.
After(r, new, change) ==
    [o \in Requests |->
        IF o = r THEN new ELSE IF req[o] = Idle THEN Idle
        ELSE [req[o] EXCEPT !.aged = [f \in DOMAIN Fresh |->
                  IF f \in Matters(req[o].pc) THEN @[f] \cup change[f] ELSE {}]]]
Answer(r, change)   == req' = After(r, Idle, change)
Move(r, pc, change) == req' = After(r, [req[r] EXCEPT !.pc = pc], change)

\* The request goes on at pc with what it has read.
Go(r, pc, what) ==
    /\ req[r] = Idle /\ asked < MaxAsked /\ asked' = asked + 1
    /\ req' = After(r, [pc |-> pc, aged |-> Fresh, what |-> what], Fresh)
    /\ UNCHANGED <<kind, row, tag, meta, store, fails, marred>>

\* bad is the set of writes of one Promise.all that fail.
Failing(bad) == IF bad = {} THEN UNCHANGED fails ELSE fails < MaxFails /\ fails' = fails + 1

\* A request of which one call fails is over; the latest version is missed if
\* it was looking for it.
Fail(r) ==
    /\ req[r].pc \in {"post", "create", "tag", "untag", "list", "promote", "trust"}
    /\ fails < MaxFails /\ fails' = fails + 1
    /\ marred' = [marred EXCEPT !.latest = @ \/ req[r].pc \in {"list", "promote"}]
    /\ Answer(r, Fresh)
    /\ UNCHANGED <<kind, row, tag, meta, store>>

-----------------------------------------------------------------------------
(* Publishing: a build of the pipeline that owns the name, never of a PR *)

\* Wrong: a name belongs to whoever publishes.
AnyBuild(by) == by.type = "build" /\ ~by.isPR

MayPublish(by) == by.type = "build" /\ ~by.isPR /\ (Owners = {} \/ by.pipeline \in Owners)

\* A command comes with a file (multipart) or as JSON, without one.
Publish(r, by, filed) ==
    /\ MayPublish(by) /\ (filed => kind = "command")
    /\ NextPatch <= MaxVersions
    /\ Go(r, IF filed THEN "post" ELSE "create",
          [by |-> by.pipeline, v |-> NextPatch, file |-> IF filed THEN r ELSE NoFile])

\* A version was published or removed since r computed the next one.
Renumbered(r) == Aged(r).by # {} \/ Aged(r).gone # {}

\* publishFileToStore: the file goes to the version computed from the rows, on
\* top of that of another publication that has been faster.
PostFile(r) ==
    LET v == What(r).v
    IN  /\ req[r].pc = "post"
        /\ store' = [store EXCEPT ![v] = What(r).file]
        /\ marred' = [marred EXCEPT !.files = IF Renumbered(r) THEN @ \cup {v} ELSE @]
        /\ Move(r, "create", [Fresh EXCEPT !.files = {v}])
        /\ UNCHANGED <<kind, row, tag, meta, fails>>

\* factory.create, which computes the version itself and moves `latest` to it.
\* Two publications that overlap may give a name two owners, and a version the
\* file of another or none.
Create(r) ==
    LET new  == NextPatch
        by   == What(r).by
        torn == Renumbered(r) \/ What(r).v \in Aged(r).files
    IN  /\ req[r].pc = "create" /\ new <= MaxVersions
        /\ row' = [v \in Versions |->
                     IF v = new THEN [owner |-> by, latest |-> TRUE, trusted |-> FALSE, file |-> What(r).file]
                     ELSE IF v \in Existing THEN [row[v] EXCEPT !.latest = FALSE] ELSE Absent]
        /\ meta' = IF kind # "pipeline" THEN meta
                   ELSE IF meta = Absent THEN [owner |-> by, latest |-> new, since |-> 0]
                   ELSE [meta EXCEPT !.latest = new]
        /\ marred' = [marred EXCEPT !.owners = Existing # {} /\ (@ \/ Aged(r).by \ {by} # {}),
                                    !.latest = FALSE,
                                    !.files = IF torn THEN @ \cup {new} ELSE @ \ {new}]
        /\ Answer(r, [Fresh EXCEPT !.by = {by}])
        /\ UNCHANGED <<kind, tag, store, fails>>

-----------------------------------------------------------------------------
(* Tags *)

MayTag(by, v) == by.type = "build" /\ ~by.isPR /\ v \in Existing /\ by.pipeline = Owner(v)

\* The version of a command may be given as another tag.
SetTag(r, by, t) ==
    \E v \in Versions \cup (IF kind = "command" THEN {tag[u] : u \in Tags} \ {0} ELSE {}) :
        MayTag(by, v) /\ Go(r, "tag", [t |-> t, v |-> v, found |-> tag[t] # 0])

\* An update of the row if the tag was found, else a create, which needs it to
\* be new.  The version may be gone by now.
WriteTag(r) ==
    LET t == What(r).t
        v == What(r).v
        hits == IF What(r).found THEN t \notin Aged(r).freed ELSE tag[t] = 0
    IN  /\ req[r].pc = "tag"
        /\ tag' = IF hits THEN [tag EXCEPT ![t] = v] ELSE tag
        /\ marred' = IF ~hits THEN marred
                     ELSE [marred EXCEPT !.tags = IF v \in Aged(r).gone THEN @ \cup {t} ELSE @ \ {t}]
        /\ Answer(r, [Fresh EXCEPT !.tags = {t}])
        /\ UNCHANGED <<kind, row, meta, store, fails>>

\* A tag whose version is gone cannot be removed: reading its owner throws.
RemoveTag(r, by, t) ==
    tag[t] # 0 /\ MayTag(by, tag[t]) /\ Go(r, "untag", [t |-> t])

WriteRemoveTag(r) ==
    LET t == What(r).t
    IN  /\ req[r].pc = "untag"
        /\ tag' = IF t \in Aged(r).freed THEN tag ELSE [tag EXCEPT ![t] = 0]
        /\ Answer(r, [Fresh EXCEPT !.tags = {t}, !.freed = {t}])
        /\ UNCHANGED <<kind, row, meta, store, fails, marred>>

-----------------------------------------------------------------------------
(* Removing versions *)

CanRemove(by, owner) ==
    by.type = "admin" \/ (by.pipeline = owner /\ ~(by.type = "build" /\ by.isPR))

\* Wrong: nobody asks whether the version that is removed is the latest.
NeverLatest(v) == FALSE

\* shouldUpdateLatest; latestVersion === templateVersion.version.  Commands have neither.
IsLatest(v) ==
    CASE kind = "template" -> row[v].latest
      [] kind = "pipeline" -> meta.latest = v
      [] OTHER -> FALSE

RemoveVersion(r, by, v) ==
    /\ v \in Existing
    /\ CanRemove(by, Owner(v))
    /\ Go(r, "remove", [v |-> v, latest |-> IsLatest(v), tags |-> {t \in Tags : tag[t] = v}])

\* The row and the tags that pointed to it are removed together, each by its
\* id: what was removed before is not hit.  If one of them fails nobody looks
\* for the latest version.
RemoveRow(r) ==
    LET v    == What(r).v
        tags == What(r).tags
    IN  /\ req[r].pc = "remove"
        /\ \E bad \in SUBSET (({"tag"} \X tags) \cup {<<"row", v>>}) :
             LET hit   == <<"row", v>> \notin bad /\ v \notin Aged(r).gone
                 freed == {t \in tags \ Aged(r).freed : <<"tag", t>> \notin bad}
                 gone  == IF hit THEN {v} ELSE {}
                 left  == {t \in Aged(r).tags \cup tags : tag[t] = v} \ freed
                 on    == bad = {} /\ What(r).latest
                 change == [Fresh EXCEPT !.gone = gone, !.tags = freed, !.freed = freed]
             IN  /\ Failing(bad)
                 /\ row' = IF hit THEN [row EXCEPT ![v] = Absent] ELSE row
                 /\ tag' = [t \in Tags |-> IF t \in freed THEN 0 ELSE tag[t]]
                 /\ marred' = IF ~hit THEN marred
                              ELSE [marred EXCEPT !.tags = @ \cup left,
                                                  !.latest = @ \/ (~on /\ (What(r).latest \/ v \in Aged(r).lifted))]
                 /\ req' = After(r, IF on THEN [pc |-> "list", aged |-> Fresh, what |-> 0] ELSE Idle, change)
        /\ UNCHANGED <<kind, meta, store>>

\* The newest of the versions that are left.
ListNewest(r) ==
    /\ req[r].pc = "list"
    /\ req' = After(r, IF Existing = {} THEN Idle
                       ELSE [pc |-> "promote", aged |-> Fresh, what |-> [v |-> Newest(Existing)]], Fresh)
    /\ UNCHANGED <<kind, row, tag, meta, store, fails, marred>>

\* It is made the latest, even if it has been removed or a newer one has been
\* published by now.
Promote(r) ==
    LET v   == What(r).v
        hit == v \notin Aged(r).gone
    IN  /\ req[r].pc = "promote"
        /\ row' = IF kind = "template" /\ hit THEN [row EXCEPT ![v].latest = TRUE] ELSE row
        /\ meta' = IF kind = "pipeline" /\ 0 \notin Aged(r).gone THEN [meta EXCEPT !.latest = v] ELSE meta
        /\ marred' = [marred EXCEPT !.latest = @ \/ Renumbered(r)]
        /\ Answer(r, [Fresh EXCEPT !.lifted = {v}])
        /\ UNCHANGED <<kind, tag, store, fails>>

RemoveAll(r, by) ==
    /\ IF kind = "pipeline" THEN meta # Absent ELSE Existing # {}
    /\ \E o \in Owners : CanRemove(by, o)
    /\ Go(r, "removeAll", [vs |-> Existing, tags |-> {t \in Tags : tag[t] # 0}])

\* Every row and tag that was read, by its id; of a command the file of each
\* version first, by its name.
RemoveRows(r) ==
    LET vs   == What(r).vs
        tags == What(r).tags
        all  == ({"file", "row"} \X vs) \cup ({"tag"} \X tags) \cup {<<"meta", 0>>}
    IN  /\ req[r].pc = "removeAll"
        /\ \E bad \in {b \in SUBSET all : Cardinality(b) <= 1} :
             LET files == {v \in vs : kind = "command" /\ <<"file", v>> \notin bad}
                 stay  == {v \in vs : <<"row", v>> \in bad \/ (kind = "command" /\ <<"file", v>> \in bad)}
                 rows  == (vs \ stay) \ Aged(r).gone
                 top   == kind = "pipeline" /\ <<"meta", 0>> \notin bad /\ 0 \notin Aged(r).gone
                 freed == {t \in tags \ Aged(r).freed : <<"tag", t>> \notin bad}
                 left  == {t \in Aged(r).tags \cup tags : tag[t] # 0} \ freed
                 gone  == IF top THEN Existing \cup {0} ELSE rows
             IN  /\ Failing(bad)
                 /\ store' = [v \in Versions |-> IF v \in files THEN NoFile ELSE store[v]]
                 /\ row' = [v \in Versions |-> IF v \in rows THEN Absent ELSE row[v]]
                 /\ tag' = [t \in Tags |-> IF t \in freed THEN 0 ELSE tag[t]]
                 /\ meta' = IF top THEN Absent ELSE meta
                 /\ marred' = [marred EXCEPT !.tags = @ \cup left, !.latest = @ \/ stay # {},
                                             !.files = @ \cup (files \ rows)]
                 /\ Answer(r, [Fresh EXCEPT !.gone = gone, !.tags = freed, !.freed = freed, !.files = files])
        /\ UNCHANGED kind

-----------------------------------------------------------------------------
(* Trust: the row that is the latest; a pipeline template since a version *)

Trust(r, by, b) ==
    /\ by.type = "admin"
    /\ IF kind = "pipeline" THEN meta # Absent /\ Go(r, "trust", [b |-> b, v |-> 0])
       ELSE \E v \in Existing : row[v].latest /\ Go(r, "trust", [b |-> b, v |-> v])

WriteTrust(r) ==
    LET b == What(r).b
        v == What(r).v
    IN  /\ req[r].pc = "trust" /\ Answer(r, Fresh)
        /\ row' = IF v # 0 /\ v \notin Aged(r).gone THEN [row EXCEPT ![v].trusted = b] ELSE row
        /\ meta' = IF v # 0 \/ 0 \in Aged(r).gone THEN meta
                   ELSE [meta EXCEPT !.since = IF ~b THEN 0 ELSE IF @ = 0 THEN meta.latest ELSE @]
        /\ UNCHANGED <<kind, tag, store, fails, marred>>

-----------------------------------------------------------------------------
Receive(r, by) ==
    \/ RemoveAll(r, by) \/ \E filed \in BOOLEAN : Publish(r, by, filed)
    \/ \E t \in Tags : SetTag(r, by, t) \/ RemoveTag(r, by, t)
    \/ \E v \in Versions : RemoveVersion(r, by, v)
    \/ \E b \in BOOLEAN : Trust(r, by, b)

Proceed(r) ==
    \/ Fail(r) \/ PostFile(r) \/ Create(r) \/ WriteTag(r) \/ WriteRemoveTag(r) \/ RemoveRow(r)
    \/ ListNewest(r) \/ Promote(r) \/ RemoveRows(r) \/ WriteTrust(r)

Next ==
    \/ \E r \in Requests, by \in Creds : Receive(r, by)
    \/ UNCHANGED asked /\ \E r \in Requests : Proceed(r)

Spec == Init /\ [][Next]_vars

-----------------------------------------------------------------------------
Seeking == \E r \in Requests : req[r].pc \in {"list", "promote"}

OneOwner       == \A o, p \in Owners : o = p
Resolves(t)    == tag[t] # 0 => tag[t] \in Existing
HasFile(v)     == row[v].file # NoFile => store[v] = row[v].file
OneLatest      == \A v, w \in Existing : row[v].latest /\ row[w].latest => v = w
LatestIsNewest ==
    Existing # {} =>
        CASE kind = "template" -> {v \in Existing : row[v].latest} = {Newest(Existing)}
          [] kind = "pipeline" -> meta.latest = Newest(Existing)
          [] OTHER -> OneLatest

\* The catalog is sound whatever overlaps and fails, but for the harm of these:
\* - one pipeline owns the name, unless two had found it free at once;
\* - a tag can be resolved, unless it was set while its version was removed, or
\*   failed to be removed with it, and has not been set again;
\* - the newest version is the only latest one when nobody is looking for it,
\*   unless a removal of the latest failed half way or overlapped with another
\*   removal or with a publication, and none has been published since;
\* - a version of a command that was published with a file has that file, unless
\*   publications of commands overlapped with each other or with a removal, or
\*   a removal failed half way.
\* (templates/removeVersion.js:40, pipelines/templates/removeVersion.js:46,
\* commands/create.js:24, commands/remove.js:48)
CatalogSound ==
    /\ ~marred.owners => OneOwner
    /\ \A t \in Tags \ marred.tags : Resolves(t)
    /\ ~marred.latest /\ ~Seeking => LatestIsNewest
    /\ kind = "command" => \A v \in Existing \ marred.files : HasFile(v)
=============================================================================
