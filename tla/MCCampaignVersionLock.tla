----------------------- MODULE MCCampaignVersionLock -----------------------
(* Small instances of CampaignVersionLock for TLC. *)
EXTENDS CampaignVersionLock

CONSTANTS r1, r2, c1, c2

TwoRequests == {r1, r2}
TwoConns == {c1, c2}
=============================================================================
