---------------------------- MODULE MCStageBuild ----------------------------
EXTENDS StageBuild, TLC

CONSTANTS setup, x, y, z, teardown

(* setup starts x and y, x starts z; the teardown joins y and z. *)
ForkJobs == {setup, x, y, z}
ForkNext == (setup :> {x, y}) @@ (x :> {z}) @@ (y :> {}) @@ (z :> {})

(* setup starts x and y. *)
PairJobs == {setup, x, y}
PairNext == (setup :> {x, y}) @@ (x :> {}) @@ (y :> {})
=============================================================================
