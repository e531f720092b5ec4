------------------------------ MODULE Metrics -------------------------------
(***************************************************************************)
(* The metrics of a pipeline, job, event or build over a range of time     *)
(* (plugins/*/metrics.js, plugins/helper.js): which range a query means,   *)
(* which ranges are refused, and which rows of the past are then told.     *)
(* Times are numbers, Day of them a day; one row is written at each time   *)
(* that has passed, so the rows that are told stand for the work asked of  *)
(* the datastore.                                                          *)
(***************************************************************************)
EXTENDS Integers, FiniteSets

CONSTANTS
    Day,        \* units of time per day
    MaxDays,    \* MAX_DAYS
    Counts,     \* how many rows a page may have
    Horizon     \* bound on the time

MetricsAssumption == Day \in Nat \ {0} /\ MaxDays \in Nat \ {0} /\ Counts \subseteq Nat \ {0} /\ Horizon \in Nat

VARIABLES
    of,         \* what the metrics are of: "pipeline", "job", "event" or "build"
    query,      \* the range that is asked for, and the rows of a page if one is
    range,      \* the range once the defaults are filled in
    now,
    pc,         \* "idle", "get", "told" or "refused"
    told        \* the rows of the answer

vars == <<of, query, range, now, pc, told>>

None  == -1
Times == 0 .. Horizon

Init ==
    /\ of \in {"pipeline", "job", "event", "build"}
    /\ now \in Times
    /\ query = [start |-> None, end |-> None, count |-> None] /\ range = query
    /\ pc = "idle" /\ told = {}

-----------------------------------------------------------------------------
(* The helpers *)

\* setDefaultTimeRange: the end is now, the start maxDay days before the end.
\* Only one that is missing is replaced.
SetDefaultTimeRange(q, maxDay) ==
    LET end == IF q.end = None THEN now ELSE q.end
    IN  [q EXCEPT !.end = end, !.start = IF @ = None THEN end - maxDay * Day ELSE @]

\* dayjs.diff(..., 'days') cuts off what is less than a day, towards zero.
DayDiff(end, start) ==
    IF end >= start THEN (end - start) \div Day ELSE -((start - end) \div Day)

\* Wrong: a range that goes backwards is valid.
NotTooLong(q, maxDay) == DayDiff(q.end, q.start) <= maxDay

ValidTimeRange(q, maxDay) == DayDiff(q.end, q.start) \in 0 .. maxDay

-----------------------------------------------------------------------------
(* The handlers: jobs, events and builds fill in the range before they     *)
(* read their row, pipelines afterwards.                                   *)

\* Only of a pipeline can a page be asked for.
Ask(start, end, count) ==
    /\ pc = "idle" /\ (count # None => of = "pipeline")
    /\ query' = [start |-> start, end |-> end, count |-> count]
    /\ range' = IF of = "pipeline" THEN query' ELSE SetDefaultTimeRange(query', MaxDays)
    /\ pc' = "get"
    /\ UNCHANGED <<of, now, told>>

Tick == now < Horizon /\ now' = now + 1 /\ UNCHANGED <<of, query, range, pc, told>>

\* getMetrics of screwdriver-models: the rows within the range.
GetMetrics(q) == {t \in 0 .. now : t \in q.start .. q.end}

Tell(q) ==
    /\ range' = q
    /\ IF ValidTimeRange(q, MaxDays) THEN pc' = "told" /\ told' = GetMetrics(q)
       ELSE pc' = "refused" /\ UNCHANGED told
    /\ UNCHANGED <<of, query, now>>

JobMetrics   == pc = "get" /\ of = "job" /\ Tell(range)
EventMetrics == pc = "get" /\ of = "event" /\ Tell(range)
BuildMetrics == pc = "get" /\ of = "build" /\ Tell(range)

\* getMetrics of screwdriver-models with a page: so many rows, in some order,
\* from any time on.
TellPage ==
    /\ \E first \in 0 .. now : told' = {t \in 0 .. now : first <= t /\ t < first + query.count}
    /\ pc' = "told"
    /\ UNCHANGED <<of, query, range, now>>

\* Of a pipeline the last day is the default.  With a page or a count, neither
\* the default nor the limit applies, and the range is left out.
PipelineMetrics ==
    /\ pc = "get" /\ of = "pipeline"
    /\ IF query.count # None THEN TellPage ELSE Tell(SetDefaultTimeRange(range, 1))

Next ==
    \/ \E start, end \in Times \cup {None}, count \in Counts \cup {None} : Ask(start, end, count)
    \/ Tick \/ JobMetrics \/ EventMetrics \/ BuildMetrics \/ PipelineMetrics

Spec == Init /\ [][Next]_vars

-----------------------------------------------------------------------------
\* A query for a range never makes the datastore go over more than MaxDays and
\* the part of a day that is cut off, nor go backwards by a day, and one for a
\* page over more rows than a page has, whatever range comes with it; what is
\* refused is a range longer than MaxDays or backwards, and a query that leaves
\* the start to the default is not refused, however long the handler takes
\* (helper.js:19, helper.js:34, jobs/metrics.js:30, pipelines/metrics.js:46).
RangeBounded ==
    /\ pc = "told" => IF query.count # None THEN Cardinality(told) <= query.count
                      ELSE /\ Cardinality(told) <= (MaxDays + 1) * Day
                           /\ range.start < range.end + Day
    /\ pc = "refused" => /\ query.count = None /\ query.start # None
                         /\ range.end < range.start \/ range.end - range.start > MaxDays * Day
=============================================================================
