------------------------------- MODULE Lists -------------------------------
(***************************************************************************)
(* The lists of the API (events, builds, jobs, stages, pipelines,          *)
(* templates, commands, versions, tags), and a client that collects one of *)
(* them while rows are created, changed and removed.                       *)
(*                                                                         *)
(* A handler turns the query into one call of factory.list, whose filter,  *)
(* order and page the datastore applies at once; GET /pipelines makes a    *)
(* call per SCM context and then leaves out what the user may not see.     *)
(* The client asks for the whole list, or for page after page until one is *)
(* empty (some handlers answer 404 then), or, of events, for those before  *)
(* the last one it has got (id=lt:).                                       *)
(*                                                                         *)
(* `list` is the list in question, and `row` its table: a row's tag is     *)
(* what the list can be filtered by (the type of an event, the status of a *)
(* build, the namespace of a template, whether a job is archived ...), `at`*)
(* its createTime, in any order since every API process has its own clock. *)
(***************************************************************************)
EXTENDS Naturals, SequencesExt

CONSTANTS
    MaxRows,        \* bound on the rows ever created
    Contexts,       \* SCM contexts
    Count,          \* the number of rows the client asks for per page
    DefaultCount    \* the rows of a page when a handler or the datastore chooses

ListsAssumption == /\ MaxRows \in Nat /\ Count \in Nat \ {0} /\ DefaultCount \in Nat \ {0}
                   /\ Contexts # {}

VARIABLES
    list,     \* which list
    row,      \* row[i]: tag, ctx, hidden and at of the i-th row created, or Removed
    q,        \* the client's query
    pc,       \* "idle", "asking" or "done"
    left,     \* the SCM contexts the page still has to be read of
    part,     \* the rows of the page read so far
    got,      \* the rows the client has been given, in order
    steady,   \* history: rows that matched the query ever since the first page
    gone,     \* history: a row has ceased to match since then
    came      \* history: an old row has begun to match since then

client == <<q, pc, left, part, got>>
vars == <<list, row, client, steady, gone, came>>

None    == "none"
Removed == [tag |-> None]
TagRows == {"usual", "other"}

\* The lists that are sorted by createTime, and those whose rows change their tag.
Timed    == {"pipelineBuilds", "jobBuilds"}
Changing == {"jobBuilds", "jobs", "templates", "commands"}

\* Lists without parameters of their own.
Simple == {"versions", "commandVersions", "pipelineTemplateVersions", "versionsWithMetric",
           "tags", "commandTags", "pipelineTemplateTags", "pipelineTemplates"}

AllLists == Timed \cup Changing \cup Simple
           \cup {"events", "eventBuilds", "stages", "stageBuilds", "pipelines"}

Made == DOMAIN row
Live == {i \in Made : row[i] # Removed}
Tagged(t) == {i \in Live : t = None \/ row[i].tag = t}

-----------------------------------------------------------------------------
(* What the handlers ask of the datastore: rows, order, page and count;    *)
(* page and count are 0 when they are not given.                           *)

\* Page and count are passed on if one of them is given.
Asked(rows, by) == [rows |-> rows, by |-> by, page |-> q.page, count |-> q.count]

\* Wrong: lt: includes the event itself.
EventsUpTo == Asked({i \in Tagged(IF q.tag = None THEN "usual" ELSE q.tag) : q.before = 0 \/ i <= q.before}, "id")

\* Events of type pipeline unless the type or a pull request is asked for.
Events == Asked({i \in Tagged(IF q.tag = None THEN "usual" ELSE q.tag) : q.before = 0 \/ i < q.before}, "id")

PipelineBuilds == Asked(Tagged(q.tag), "createTime")   \* of a group event, if it is given
JobBuilds      == Asked(Tagged(q.tag), "createTime")   \* of a status, if it is given

\* Page and count are accepted and not passed on.
EventBuilds == [Asked(Live, "id") EXCEPT !.page = 0, !.count = 0]

\* Jobs that are not archived, unless archived ones are asked for.
Jobs        == Asked(Tagged(IF q.tag = None THEN "usual" ELSE q.tag), "id")
Stages      == Asked(Tagged(q.tag), "id")              \* with a name or of pull requests
StageBuilds == Asked(Tagged(q.tag), "id")              \* of an event
Templates   == Asked(Tagged(q.tag), "id")              \* of a namespace, or the latest versions
Commands    == Asked(Tagged(q.tag), "id")              \* likewise

Versions                 == Asked(Live, "id")
CommandVersions          == Asked(Live, "id")
PipelineTemplateVersions == Asked(Live, "id")
VersionsWithMetric       == Asked(Live, "id")
TemplateTags             == Asked(Live, "id")
CommandTags              == Asked(Live, "id")
PipelineTemplateTags     == Asked(Live, "id")
PipelineTemplates        == Asked(Live, "id")

\* Wrong: the default page replaces the one that is asked for.
FirstPage(c) == [rows |-> {i \in Tagged(q.tag) : row[i].ctx = c}, by |-> "id", page |-> 1, count |-> DefaultCount]

\* Without a search the first page of 50 is the default.
PipelineList(c) ==
    [rows  |-> {i \in Tagged(q.tag) : row[i].ctx = c}, by |-> "id",
     page  |-> IF q.page = 0 /\ q.tag = None THEN 1 ELSE q.page,
     count |-> IF q.count = 0 /\ q.tag = None THEN DefaultCount ELSE q.count]

\* Private pipelines are for administrators and those of the pipeline.
Visible(rows) == IF q.admin THEN rows ELSE SelectSeq(rows, LAMBDA i : ~row[i].hidden)

Config(c) ==
    CASE list = "events"         -> Events
      [] list = "pipelineBuilds" -> PipelineBuilds
      [] list = "jobBuilds"      -> JobBuilds
      [] list = "eventBuilds"    -> EventBuilds
      [] list = "jobs"           -> Jobs
      [] list = "stages"         -> Stages
      [] list = "stageBuilds"    -> StageBuilds
      [] list = "templates"      -> Templates
      [] list = "commands"       -> Commands
      [] list = "pipelines"      -> PipelineList(c)
      [] list = "versions"       -> Versions
      [] list = "commandVersions"          -> CommandVersions
      [] list = "pipelineTemplateVersions" -> PipelineTemplateVersions
      [] list = "versionsWithMetric"       -> VersionsWithMetric
      [] list = "tags"                     -> TemplateTags
      [] list = "commandTags"              -> CommandTags
      [] list = "pipelineTemplateTags"     -> PipelineTemplateTags
      [] list = "pipelineTemplates"        -> PipelineTemplates

\* The datastore: the rows in order, and of them the page, if there is one.
Select(conf) ==
    LET key(i) == IF conf.by = "createTime" THEN row[i].at ELSE i
        all == SetToSortSeq(conf.rows, LAMBDA i, j : IF q.ascending THEN key(i) < key(j) ELSE key(j) < key(i))
        n   == IF conf.count = 0 THEN DefaultCount ELSE conf.count
        p   == IF conf.page = 0 THEN 1 ELSE conf.page
    IN  IF conf.page = 0 /\ conf.count = 0 THEN all
        ELSE SubSeq(all, (p - 1) * n + 1, IF p * n < Len(all) THEN p * n ELSE Len(all))

-----------------------------------------------------------------------------
(* The table *)

\* The rows the client is after, whatever the handler makes of the query.
Sought ==
    IF list \in {"eventBuilds"} \cup Simple THEN Live
    ELSE Tagged(IF q.tag = None /\ list \in {"events", "jobs"} THEN "usual" ELSE q.tag)

Watch ==
    /\ UNCHANGED <<list, client>>
    /\ IF pc = "asking" THEN /\ steady' = steady \cap Sought'
                             /\ gone' = (gone \/ ~(Sought \subseteq Sought'))
                             /\ came' = (came \/ Made \cap (Sought' \ Sought) # {})
       ELSE UNCHANGED <<steady, gone, came>>

CreateRow(t, c, hidden, at) ==
    /\ Len(row) < MaxRows
    /\ list \in Timed \/ at = Len(row) + 1
    /\ \A i \in Live : row[i].at # at
    /\ list = "pipelines" \/ c = CHOOSE any \in Contexts : TRUE
    /\ hidden => list = "pipelines" /\ t = "usual"
    /\ list \in Simple \cup {"eventBuilds"} => t = "usual"
    /\ row' = Append(row, [tag |-> t, ctx |-> c, hidden |-> hidden, at |-> at])
    /\ Watch

ChangeRow(i, t) ==
    /\ list \in Changing /\ i \in Live /\ row[i].tag # t
    /\ row' = [row EXCEPT ![i].tag = t]
    /\ Watch

RemoveRow(i) ==
    /\ i \in Live
    /\ row' = [row EXCEPT ![i] = Removed]
    /\ Watch

-----------------------------------------------------------------------------
(* The client *)

Ways == IF list = "eventBuilds" THEN {"whole"} ELSE IF list = "events" THEN {"whole", "pages", "before"}
        ELSE {"whole", "pages"}

Parts == IF list = "pipelines" THEN Contexts ELSE {None}

Begin(way, t, ascending, admin) ==
    /\ pc = "idle" /\ way \in Ways
    /\ way = "before" => ~ascending
    /\ list \in Simple \cup {"eventBuilds"} => t = None
    /\ list = "pipelines" \/ admin
    /\ q' = [way |-> way, tag |-> t, ascending |-> ascending, admin |-> admin,
             page   |-> IF way = "pages" THEN 1 ELSE 0,
             count  |-> IF way = "whole" THEN 0 ELSE Count,
             before |-> IF way = "before" THEN MaxRows + 1 ELSE 0]
    /\ UNCHANGED <<list, row, part, got, gone, came>>
    /\ pc' = "asking" /\ left' = Parts
    /\ steady' = Sought'

\* One call of factory.list; the last one completes the answer.
Fetch(c) ==
    LET page == part \o Visible(Select(Config(c)))
    IN  /\ pc = "asking" /\ c \in left
        /\ IF left # {c}
           THEN part' = page /\ left' = left \ {c} /\ UNCHANGED <<q, pc, got>>
           ELSE /\ part' = <<>> /\ got' = got \o page
                /\ IF q.way = "whole" \/ page = <<>> THEN pc' = "done" /\ left' = {} /\ UNCHANGED q
                   ELSE /\ q' = IF q.way = "pages" THEN [q EXCEPT !.page = @ + 1]
                                ELSE [q EXCEPT !.before = Last(page)]
                        /\ left' = Parts /\ UNCHANGED pc
        /\ UNCHANGED <<list, row, steady, gone, came>>

-----------------------------------------------------------------------------
Init ==
    /\ list \in AllLists /\ row = <<>>
    /\ q = [way |-> None, tag |-> None, page |-> 0]
    /\ pc = "idle" /\ left = {} /\ part = <<>> /\ got = <<>>
    /\ steady = {} /\ gone = FALSE /\ came = FALSE

Others ==
    \/ \E t \in TagRows, c \in Contexts, hidden \in BOOLEAN, at \in 1 .. MaxRows : CreateRow(t, c, hidden, at)
    \/ \E i \in Made : RemoveRow(i) \/ \E t \in TagRows : ChangeRow(i, t)

\* What happens to the table after the client is done is of no interest.
Next ==
    \/ pc # "done" /\ Others
    \/ \E way \in {"whole", "pages", "before"}, t \in {None, "other"}, ascending, admin \in BOOLEAN :
         Begin(way, t, ascending, admin)
    \/ \E c \in left : Fetch(c)

Spec == Init /\ [][Next]_vars

-----------------------------------------------------------------------------
\* A client that may see all rows.
SeesAll == q.admin \/ \A i \in Live : ~row[i].hidden

\* The default of 50 pipelines is all that a client gets that asks for no page.
CutShort == list = "pipelines" /\ q.way = "whole" /\ q.tag = None

\* Nothing is skipped: rows that matched all the time are given to the client,
\* whatever rows are created meanwhile and with whatever createTime.  Rows
\* that cease to match move others to pages that were read already; a client
\* that goes on from the last event it has got does not mind.
NothingSkipped ==
    (pc = "done" /\ SeesAll /\ ~CutShort /\ (q.way = "pages" => ~gone)) => steady \subseteq ToSet(got)

\* Nothing is given twice going up by id, unless old rows begin to match, or
\* going from event to event.
NothingTwice ==
    (pc # "idle" /\ (q.way = "before" \/ (q.ascending /\ list \notin Timed /\ ~came))) => IsInjective(got)

\* The pages have an end: all the rows there ever were, and an empty page.
PagesEnd == Count * q.page <= Len(row) + 2 * Count - 1

\* What a client collects page by page while others write is the list
\* (pipelines/listEvents.js:49, pipelines/list.js:79, jobs/listBuilds.js:45).
ListIsCollected == NothingSkipped /\ NothingTwice /\ PagesEnd
=============================================================================
