----------------------------- MODULE MCBriefAssets -----------------------------
EXTENDS BriefAssets, TLC

CONSTANTS u1, u2, u3, u4, u5, d1, e1, e2, x1
Uploads == {u1, u2, u3, u4, u5}

\* Two assets may be stored, with no more bytes than the three small images have: three
\* small ones are too many, a small and a large one too large, the second upload of a
\* stored image neither.
Images == u1 :> "a" @@ u2 :> "a" @@ u3 :> "b" @@ u4 :> "c" @@ u5 :> "large"
Sizes == [a |-> 1, b |-> 1, c |-> 1, large |-> 3]
OneDispatch == {d1}
TwoEdits == {e1, e2}
OneDeletion == {x1}
Symmetry == Permutations({u1, u2}) \cup Permutations({u3, u4}) \cup Permutations(TwoEdits)
=============================================================================
