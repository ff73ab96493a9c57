--------------------------- MODULE MCAudienceBuild ---------------------------
EXTENDS AudienceBuild, TLC

CONSTANTS b1, b2
TwoBuilds == {b1, b2}
Symmetry == Permutations(TwoBuilds)
=============================================================================
