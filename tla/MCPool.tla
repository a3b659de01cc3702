------------------------------- MODULE MCPool -------------------------------
(* Small instances of Pool for TLC. *)
EXTENDS Pool, TLC

CONSTANTS listed, o1

NoAsset == {}
OneAsset == {listed}
OneOrder == {o1}
NoOrder == {}
OnTime == {}
=============================================================================
