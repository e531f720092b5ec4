---------------------------- MODULE EventPromise ----------------------------
(***************************************************************************)
(* What an event promises of each job of its workflow (design/workflow.md, *)
(* src/plugins/builds/triggers): it is started once at most, by the success *)
(* of what it requires, and then ends once.  Who finds out that a job is    *)
(* due, in what order builds are created, joined and removed, and how often *)
(* a request looks, is left to whoever keeps the promise.                   *)
(***************************************************************************)
CONSTANTS
  Jobs, JoinEdges, OrEdges,  \* the workflow graph
  Virtual,                   \* jobs that nothing is run for
  Disabled,                  \* jobs that no other job starts
  Outcomes                   \* how a started job may end

VARIABLE state  \* state[j]: "WAITING", "QUEUED", or how job j has ended

Requires(k) == {j \in Jobs : <<j, k>> \in JoinEdges}   \* requires: [a, b]
AnyOf(k)    == {j \in Jobs : <<j, k>> \in OrEdges}     \* requires: [~a]
First       == {k \in Jobs : Requires(k) = {} /\ AnyOf(k) = {}}

PromiseInit == state = [j \in Jobs |-> IF j \in First \ Virtual THEN "QUEUED" ELSE "WAITING"]

\* All that k requires has succeeded, or one of those that start it alone.
Due(k) ==
  \/ k \in First
  \/ /\ k \notin Disabled
     /\ \/ Requires(k) # {} /\ \A j \in Requires(k) : state[j] = "SUCCESS"
        \/ \E j \in AnyOf(k) : state[j] = "SUCCESS"

Begin(k) ==
  /\ state[k] = "WAITING" /\ Due(k)
  /\ state' = [state EXCEPT ![k] = IF k \in Virtual THEN "SUCCESS" ELSE "QUEUED"]

End(k) ==
  /\ state[k] = "QUEUED" /\ state'[k] \in Outcomes
  /\ state' = [state EXCEPT ![k] = state'[k]]

PromiseNext == \E k \in Jobs : Begin(k) \/ End(k)

Promise == PromiseInit /\ [][PromiseNext]_state
=============================================================================
