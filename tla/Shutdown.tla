----------------------------- MODULE Shutdown ------------------------------
(***************************************************************************)
(* How the API goes down (plugins/shutdown.js).  SIGTERM runs the tasks    *)
(* that the plugins registered, all at once, for the grace period at most; *)
(* then the server stops: no new connection, and five seconds for the      *)
(* requests at work.  Every signal runs the handler once more.             *)
(***************************************************************************)
CONSTANTS Tasks, Signals

VARIABLES
    handler,   \* handler[s]: what the handler of signal s does
    task,      \* task[s][t]: "off", "runs", "done" or "failed"
    server,    \* "up", "stopping" or "stopped"
    exited     \* "no", or the code of the process

vars == <<handler, task, server, exited>>

Init ==
    /\ handler = [s \in Signals |-> "off"]
    /\ task = [s \in Signals |-> [t \in Tasks |-> "off"]]
    /\ server = "up" /\ exited = "no"

Goes(s, from, to) == handler[s] = from /\ handler' = [handler EXCEPT ![s] = to]

\* onSigterm starts taskHandler, which starts every task.
Sigterm(s) ==
    /\ exited = "no" /\ Goes(s, "off", "tasks")
    /\ task' = [task EXCEPT ![s] = [t \in Tasks |-> "runs"]]
    /\ UNCHANGED <<server, exited>>

\* A task ends, well or badly, or never.
TaskEnds(s, t) ==
    /\ exited = "no" /\ task[s][t] = "runs"
    /\ \E end \in {"done", "failed"} : task' = [task EXCEPT ![s][t] = end]
    /\ UNCHANGED <<handler, server, exited>>

Failed(s) == \E t \in Tasks : task[s][t] = "failed"

\* The first task that fails is the end of taskHandler, and of the process.
TasksFail(s) ==
    /\ exited = "no" /\ handler[s] = "tasks" /\ Failed(s)
    /\ exited' = "1"
    /\ UNCHANGED <<handler, task, server>>

\* Wrong: nobody watches the clock.
NoTimer(s) == \A t \in Tasks : task[s][t] = "done"

\* promiseTimeout: the tasks are done, or the grace period is over, which it
\* may be at any time as long as no task has failed.
RaceIsOver(s) == ~Failed(s)

\* gracefulStop.  A server that is stopping already refuses to stop.
Stop(s) ==
    /\ exited = "no" /\ RaceIsOver(s)
    /\ Goes(s, "tasks", "stop")
    /\ IF server = "stopping" THEN exited' = "1" /\ UNCHANGED server
       ELSE server' = "stopping" /\ UNCHANGED exited
    /\ UNCHANGED task

\* The requests are answered, or the five seconds are over.
Stopped(s) ==
    /\ exited = "no" /\ Goes(s, "stop", "end")
    /\ server' = "stopped" /\ exited' = "0"
    /\ UNCHANGED task

React(s) == TasksFail(s) \/ Stop(s) \/ Stopped(s)

Next ==
    \E s \in Signals : Sigterm(s) \/ React(s) \/ \E t \in Tasks : TaskEnds(s, t)

\* Timers and callbacks of the process run; tasks may hang.
Fairness == \A s \in Signals : WF_vars(React(s))

Spec == Init /\ [][Next]_vars /\ Fairness

-----------------------------------------------------------------------------
\* A signal ends the process, whatever hangs or fails (shutdown.js:74).
Exits == (\E s \in Signals : handler[s] # "off") ~> exited # "no"
=============================================================================
