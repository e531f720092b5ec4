----------------------------- MODULE MCServices -----------------------------
(***************************************************************************)
(* The requests that write (Services), and the reads of the logs of steps  *)
(* (StepLog), of lists (Lists), artifacts (Downloads) and metrics          *)
(* (Metrics), checked in one run.  The modules share no state: a behaviour *)
(* is one of the module it has picked, and the others stay where they      *)
(* begin.                                                                  *)
(***************************************************************************)
EXTENDS Services, TLC

CONSTANTS r1, r2, u1, u2

\* Two requests of builds, users and an admin on one name of a catalog.
MCCreds == {[type |-> "build", pipeline |-> "p", isPR |-> FALSE],
            [type |-> "build", pipeline |-> "p", isPR |-> TRUE],
            [type |-> "build", pipeline |-> "q", isPR |-> FALSE],
            [type |-> "user", pipeline |-> "p", isPR |-> FALSE],
            [type |-> "admin", pipeline |-> "none", isPR |-> FALSE]}

\* An administrator and another user, of two SCM contexts.
MCContextOf == u1 :> "github" @@ u2 :> "gitlab"

-----------------------------------------------------------------------------
(* A log of up to nine lines in pages of two or four. *)

VARIABLES size, len, step, way, pc, lreq, got, count, told, wrong
lvars == <<size, len, step, way, pc, lreq, got, count, told, wrong>>

Log == INSTANCE StepLog WITH Small <- 2, Big <- 4, Pages <- 2, MaxLines <- 9, req <- lreq

ASSUME Log!LogAssumption

-----------------------------------------------------------------------------
(* A list of up to three rows that a client reads row by row. *)

VARIABLES list, trow, q, spc, left, part, had, steady, gone, came
svars == <<list, trow, q, spc, left, part, had, steady, gone, came>>

Lst == INSTANCE Lists WITH
    MaxRows <- 3, Contexts <- {"github", "gitlab"}, Count <- 1, DefaultCount <- 2,
    row <- trow, pc <- spc, got <- had

ASSUME Lst!ListsAssumption

-----------------------------------------------------------------------------
(* A build with three files, two of them in a directory. *)

VARIABLES stored, manifest, packed, what, dpc, files, zip, total, listed, changed
dvars == <<stored, manifest, packed, what, dpc, files, zip, total, listed, changed>>

MCReaders == {[scope |-> "user", pull |-> TRUE, own |-> FALSE],
              [scope |-> "user", pull |-> FALSE, own |-> FALSE],
              [scope |-> "build", pull |-> FALSE, own |-> TRUE]}

Dwn == INSTANCE Downloads WITH
    Files <- {"f", "g", "h"}, Dir <- {"f", "g"}, MaxSize <- 2, Users <- MCReaders, pc <- dpc

ASSUME Dwn!DownloadsAssumption

-----------------------------------------------------------------------------
(* Ranges over half days, of at most two days. *)

VARIABLES of, query, range, now, mpc, rows
nvars == <<of, query, range, now, mpc, rows>>

Met == INSTANCE Metrics WITH
    Day <- 2, MaxDays <- 2, Counts <- {2}, Horizon <- 8, pc <- mpc, told <- rows

ASSUME Met!MetricsAssumption

-----------------------------------------------------------------------------
VARIABLE module

mvars == <<module, vars, cvars, lvars, ovars, tvars, svars, dvars, nvars>>

MCInit ==
    /\ module \in {"credentials", "catalog", "log", "collections", "clusters",
                   "lists", "downloads", "metrics"}
    /\ Init
    /\ Cat!Init /\ (module # "catalog" => catalog = "command")
    /\ Log!Init /\ (module # "log" => size = 2 /\ way = "poll")
    /\ Col!Init
    /\ Clu!Init /\ (module # "clusters" => ~pipeline.annotated)
    /\ Lst!Init /\ (module # "lists" => list = "events")
    /\ Dwn!Init /\ (module # "downloads" => packed = {})
    /\ Met!Init /\ (module # "metrics" => of = "job" /\ now = 0)

Reads ==
    \/ module = "log" /\ Log!Next /\ UNCHANGED <<svars, dvars, nvars>>
    \/ module = "lists" /\ Lst!Next /\ UNCHANGED <<lvars, dvars, nvars>>
    \/ module = "downloads" /\ Dwn!Next /\ UNCHANGED <<lvars, svars, nvars>>
    \/ module = "metrics" /\ Met!Next /\ UNCHANGED <<lvars, svars, dvars>>

Writes ==
    \/ module = "credentials" /\ Next /\ UNCHANGED <<cvars, ovars, tvars>>
    \/ module = "catalog" /\ Cat!Next /\ UNCHANGED <<vars, ovars, tvars>>
    \/ module = "collections" /\ Col!Next /\ UNCHANGED <<vars, cvars, tvars>>
    \/ module = "clusters" /\ Clu!Next /\ UNCHANGED <<vars, cvars, ovars>>

MCNext ==
    /\ UNCHANGED module
    /\ \/ Reads /\ UNCHANGED <<vars, cvars, ovars, tvars>>
       \/ Writes /\ UNCHANGED <<lvars, svars, dvars, nvars>>

MCSpec == MCInit /\ [][MCNext]_mvars

-----------------------------------------------------------------------------
\* What a client reads while others write is whole: the log of a step in
\* pages (StepLog, logs.js:82), a list page by page (Lists, listEvents.js:49),
\* artifacts as a ZIP (Downloads, getAll.js:88); and metrics are told of the
\* range that is meant, within the limit (Metrics, helper.js:34).
ReadsAreWhole == Log!LogIsRead /\ Lst!ListIsCollected /\ Dwn!DownloadIsWhole /\ Met!RangeBounded
=============================================================================
