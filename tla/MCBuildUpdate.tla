--------------------------- MODULE MCBuildUpdate ---------------------------
EXTENDS BuildUpdate, TLC

CONSTANTS a, b, c, u, s

(* Independent builds. *)
TwoBuilds == {a, b}
TwoDown   == [x \in TwoBuilds |-> {}]

(* a starts b. *)
PairDown == (a :> {b}) @@ (b :> {})

(* a and b both start c. *)
ThreeBuilds == {a, b, c}
MeetDown    == (a :> {c}) @@ (b :> {c}) @@ (c :> {})
=============================================================================
