------------------------------ MODULE StepLog -------------------------------
(***************************************************************************)
(* The log of a step (plugins/builds/steps): the launcher reports the step *)
(* and uploads pages of lines to the store, while a client reads them      *)
(* through the API, which has to guess how many lines a page has.  Line n  *)
(* is the number n.  A page is fetched in a step of its own, so the log    *)
(* may grow between the pages of one answer.                               *)
(***************************************************************************)
EXTENDS Integers, FiniteSets

CONSTANTS
    Small, Big,  \* MAX_LINES_SMALL and MAX_LINES_BIG, the page sizes
    Pages,       \* the pages a request asks for
    MaxLines     \* bound on the log

LogAssumption ==
    /\ Small \in Nat \ {0} /\ \E k \in 2 .. Big : Big = k * Small
    /\ Pages \in Nat \ {0} /\ MaxLines \in Nat

VARIABLES
    size,   \* the page size of the launcher of this build
    len,    \* lines in the store
    step,   \* the row: started, lines and done
    way,    \* how the client reads: "poll", "tail" (descending) or "download"
    pc,
    req,    \* the request: where it reads from, what it has found
    got,    \* lines the client has received
    count,  \* how many lines it has received
    told,   \* the last answer: more data, or not; "none" before it
    wrong   \* history: a page was fetched by a wrong guess of a log that has
            \* more than a big page by now

log    == <<size, len, step>>
client == <<got, count, told, wrong>>
vars   == <<log, way, pc, req, client>>

Least(a, b) == IF a < b THEN a ELSE b

NoReq == [at |-> 0]

Init ==
    /\ size \in {Small, Big} /\ len = 0
    /\ step = [started |-> FALSE, lines |-> 0, done |-> FALSE]
    /\ way \in {"poll", "tail", "download"}
    /\ pc = "idle" /\ req = NoReq
    /\ got = {} /\ count = 0 /\ told = "none" /\ wrong = FALSE

-----------------------------------------------------------------------------
(* The launcher *)

\* PUT /builds/{id}/steps/{name}: the code, or the number of lines, or the start.
UpdateStep ==
    /\ \/ ~step.started /\ step' = [step EXCEPT !.started = TRUE]
       \/ step.started /\ step' = [step EXCEPT !.lines = len]
       \/ step.started /\ step' = [step EXCEPT !.done = TRUE]
    /\ UNCHANGED <<size, len, way, pc, req, client>>

\* Lines may still be uploaded when the step has ended.
Upload ==
    /\ step.started
    /\ len' \in len + 1 .. MaxLines
    /\ UNCHANGED <<size, step, way, pc, req, client>>

-----------------------------------------------------------------------------
(* Reading *)

\* The lines of a page of the store; none if there is no such page.
Page(k) == {n \in 0 .. len - 1 : k * size <= n /\ n < (k + 1) * size}

\* fetchLog
Fetched(k, from) == IF way = "tail" THEN {n \in Page(k) : n <= from} ELSE {n \in Page(k) : n >= from}

\* Wrong: all pages are taken to be small.
SmallPages == Small

\* getMaxLines: small pages, unless the first one has more lines than that.
MaxLinesOf == IF Cardinality(Page(0)) > Small THEN Big ELSE Small

\* The first page was small when it was looked at, and now there is a second
\* big one.
Misread == wrong \/ (req.max # MaxLinesOf /\ len > Big)

\* The row of the step is read, then the first page.  A client that polls
\* goes on from the lines it has and stops when told that there is no more;
\* one that reads backwards starts from a line it knows to exist.
Ask ==
    /\ pc = "idle" /\ (way = "poll" \/ told = "none")
    /\ IF ~step.started THEN told' = "no" /\ UNCHANGED <<pc, req>>
       ELSE /\ \E from \in (IF way = "poll" THEN {count} ELSE IF way = "tail" THEN 0 .. len - 1 ELSE {0}) :
                 req' = [at |-> from, from |-> from, left |-> Pages, had |-> len, done |-> step.done,
                         total |-> step.lines, max |-> 0, page |-> 0, lines |-> {}, n |-> 0]
            /\ pc' = "guess" /\ UNCHANGED told
    /\ told # "no"
    /\ UNCHANGED <<log, way, got, count, wrong>>

Guess ==
    /\ pc = "guess"
    /\ req' = [req EXCEPT !.max = MaxLinesOf]
    /\ pc' = "fetch"
    /\ UNCHANGED <<log, way, client>>

\* loadLines goes on: a page was read to its edge, or the start is not reached.
LoadNext(at, n) ==
    n > 0 /\ IF way = "tail" THEN at - n > 0 ELSE (at + n) % req.max = 0

\* One page of loadLines; more pages than were asked for only raise the flag.
Load ==
    LET at    == req.at
        lines == Fetched(at \div req.max, at)
        n     == Cardinality(lines)
        next  == LoadNext(at, n)
    IN  /\ pc = "fetch" /\ way # "download"
        /\ wrong' = Misread
        /\ req' = [req EXCEPT !.lines = @ \cup lines, !.n = @ + n, !.left = @ - 1,
                              !.at = IF way = "tail" THEN @ - n ELSE @ + n]
        /\ pc' = IF next /\ req.left > 1 THEN "fetch" ELSE IF next THEN "more" ELSE "end"
        /\ UNCHANGED <<log, way, got, count, told>>

\* generateLog: the pages the row of the step has lines for.
Generate ==
    /\ pc = "fetch" /\ way = "download"
    /\ IF req.page * req.max >= req.total THEN pc' = "end" /\ UNCHANGED <<req, wrong>>
       ELSE LET lines == Fetched(req.page, req.page * req.max)
            IN  /\ req' = [req EXCEPT !.lines = @ \cup lines, !.n = @ + Cardinality(lines), !.page = @ + 1]
                /\ wrong' = Misread
                /\ UNCHANGED pc
    /\ UNCHANGED <<log, way, got, count, told>>

\* X-More-Data: morePages || !isDone, of the step as it was read first.
Answer ==
    /\ pc \in {"more", "end"}
    /\ got' = got \cup req.lines /\ count' = count + req.n
    /\ told' = IF pc = "more" \/ ~req.done THEN "yes" ELSE "no"
    /\ pc' = "idle"
    /\ UNCHANGED <<log, way, req, wrong>>

\* The store does not answer: no lines, and the client asks again.
StoreFails ==
    /\ pc \in {"guess", "fetch"}
    /\ pc' = "idle"
    /\ UNCHANGED <<log, way, req, client>>

Next == UpdateStep \/ Upload \/ Ask \/ Guess \/ Load \/ Generate \/ Answer \/ StoreFails

Spec == Init /\ [][Next]_vars

-----------------------------------------------------------------------------
Once(S) == got = S /\ count = Cardinality(S)

\* What a client collects is the log: one that polls has every line up to
\* the last one, each once, and is told that there is no more only when it
\* has what was in the store when the answer began; backwards from a line it
\* gets all lines before it, or is told of more; a download has all lines
\* the launcher has reported.  A page size that was guessed wrong does no
\* harm, unless the log grows from a small page to more than a big one between
\* two reads of one request: then a client that polls may miss lines
\* (logs.js:82).
LogIsRead ==
    (~wrong /\ pc = "idle" /\ req # NoReq) =>
        CASE way = "poll"     -> /\ Once(0 .. count - 1)
                                 /\ told = "no" => count >= req.had
          [] told = "none"    -> Once({})
          [] way = "tail"     -> /\ Once(req.from - count + 1 .. req.from)
                                 /\ told = "no" => count = req.from + 1
          [] way = "download" -> \E n \in req.total .. MaxLines : Once(0 .. n - 1)
=============================================================================
