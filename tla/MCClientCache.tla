----------------------------- MODULE MCClientCache -----------------------------
EXTENDS ClientCache, TLC

CONSTANTS p1, p2, c1, c2, c3
TwoProjects == {p1, p2}
ThreeCalls == {c1, c2, c3}
TwoOfOneProject == c1 :> p1 @@ c2 :> p1 @@ c3 :> p2
Symmetry == Permutations({c1, c2})
=============================================================================
