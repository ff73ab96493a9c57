--------------------------- MODULE MCStatsJobLease ---------------------------
EXTENDS StatsJobLease, TLC

CONSTANTS p1, p2, c1, c2, c3, k1, k2
TwoPods == {p1, p2}
ThreeCalls == {c1, c2, c3}
TwoKeys == {k1, k2}
TwoOnOnePod == c1 :> p1 @@ c2 :> p1 @@ c3 :> p2
=============================================================================
