------------------------- MODULE MCChallengeAccount -------------------------
(* Small instances of ChallengeAccount for TLC. *)
EXTENDS ChallengeAccount, TLC

CONSTANTS listed, foreign, o1, o2

OneAsset == {listed}
TwoAssets == {listed, foreign}
OneOrder == {o1}
NoOrder == {}
TwoOrders == {o1, o2}
OnTime == {}
LateTransfers == {"toPerp", "toSpot", "send"}
=============================================================================
