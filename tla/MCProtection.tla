---------------------------- MODULE MCProtection ----------------------------
(* Small instances of the protector for TLC. *)
EXTENDS Protection, TLC

TwoDistances == 1..2
=============================================================================
