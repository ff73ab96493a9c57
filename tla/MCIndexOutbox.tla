---------------------------- MODULE MCIndexOutbox ----------------------------
(* Small instances of IndexOutbox for TLC. *)
EXTENDS IndexOutbox

CONSTANTS brief, campaign, pod1, pod2

OneObject == {brief}
TwoObjects == {brief, campaign}
OnePod == {pod1}
TwoPods == {pod1, pod2}
NoPoison == {}
BriefIsPoison == {brief}
Symmetry == Permutations(TwoPods) \cup Permutations(TwoObjects)
=============================================================================
