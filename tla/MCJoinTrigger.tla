--------------------------- MODULE MCJoinTrigger ---------------------------
(* Workflows on which JoinTrigger is checked. *)
EXTENDS JoinTrigger, TLC

CONSTANTS a, b, c, d, e, f, v, r1, r2

Symmetry == Permutations(Requests)

(* v: [~d], virtual   c: [a, b, v]   e: [c, v] -- two joins, both fed by a    *)
(* chain through a virtual job, and a job that is a join source and a join.  *)
(* f: [~a, ~d] is started by whichever of its sources succeeds first.        *)
ChainJobs  == {a, b, c, d, e, f, v}
ChainJoins == {<<a, c>>, <<b, c>>, <<v, c>>, <<c, e>>, <<v, e>>}
ChainOrs   == {<<d, v>>, <<a, f>>, <<d, f>>}

(* b: [~d]   c: [a, b, e]: a join one of whose sources appears late, when *)
(* the row of the join may be there already.                              *)
LateJobs  == {a, b, c, d, e}
LateJoins == {<<a, c>>, <<b, c>>, <<e, c>>}
LateOrs   == {<<d, b>>}

(* c: [~d, a, b]: the mixed form of design/workflow.md. *)
MixedJobs  == {a, b, c, d}
MixedJoins == {<<a, c>>, <<b, c>>}
MixedOrs   == {<<d, c>>}
=============================================================================
