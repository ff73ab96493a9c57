--------------------------- MODULE MCCampaignSlot ---------------------------
(* Small instances of CampaignSlot for TLC. *)
EXTENDS CampaignSlot, TLC

CONSTANTS j1, j2, taken, free

TwoJobs == {j1, j2}

\* Jobs are interchangeable: every action quantifies over them alike.
JobSymmetry == Permutations(Job)
=============================================================================
