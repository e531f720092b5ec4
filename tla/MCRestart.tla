------------------------------ MODULE MCRestart ------------------------------
EXTENDS Restart
CONSTANTS a, b, m, t, w1, w2

\* requires: [~a] for m, [m, b] for t
Joins == {<<m, t>>, <<b, t>>}
Ors   == {<<a, m>>}

Symmetry == Permutations({w1, w2})
=============================================================================
