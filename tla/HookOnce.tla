------------------------------ MODULE HookOnce ------------------------------
(***************************************************************************)
(* What the replay protection of the webhook plugin promises               *)
(* (src/plugins/webhooks/index.js:103, dedupStore.js): a delivery of the   *)
(* SCM starts an event in a pipeline at most once, however often it is     *)
(* sent.                                                                   *)
(***************************************************************************)
EXTENDS Naturals

CONSTANTS Hooks,      \* webhook deliveries
          Pipelines   \* the pipelines a delivery starts events in

VARIABLE effect       \* effect[h][p], the events h has started in p

OnceInit == effect = [h \in Hooks |-> [p \in Pipelines |-> 0]]

TakeEffect(h, p) ==
    /\ effect[h][p] = 0
    /\ effect' = [effect EXCEPT ![h][p] = 1]

OnceNext == \E h \in Hooks, p \in Pipelines : TakeEffect(h, p)

OnceSpec == OnceInit /\ [][OnceNext]_effect
=============================================================================
