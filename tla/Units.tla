------------------------------- MODULE Units -------------------------------
(***************************************************************************)
(* Units of money shared by the modules of the shared pool (src/Types.sol).  *)
(***************************************************************************)
EXTENDS Integers

CONSTANTS
  BPS,            \* the whole, in basis points
  SpotPerPerp,    \* spot units to a perp unit
  NewAccountFee   \* in spot units, for a transfer that creates an account

ASSUME UnitsAssumption ==
  /\ {BPS, SpotPerPerp, NewAccountFee} \subseteq Nat
  /\ BPS > 0 /\ SpotPerPerp > 0
=============================================================================
