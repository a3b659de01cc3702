------------------------------ MODULE MCKeeper -----------------------------
(* Small instances of the keeper for TLC. *)
EXTENDS Keeper, TLC

OutOfOrder == <<2, 1, 3>>
=============================================================================
