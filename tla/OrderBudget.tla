---------------------------- MODULE OrderBudget ----------------------------
(***************************************************************************)
(* What the desk's counter of orders promises, without the gateway, the     *)
(* network or the answers: an attempt is charged before anything of it      *)
(* leaves, and a charge is given back only for attempts that are not on     *)
(* Hyperliquid and can no longer get there.                                 *)
(***************************************************************************)
EXTENDS Naturals, FiniteSets

CONSTANT Attempts

VARIABLES
  charged,   \* attempts counted as spent, a number
  open,      \* attempts that may still reach Hyperliquid
  placed     \* attempts that did

vars == <<charged, open, placed>>

Init == charged = 0 /\ open = {} /\ placed = {}

Spend(a) ==
  /\ a \notin open \cup placed
  /\ charged' = charged + 1 /\ open' = open \cup {a}
  /\ UNCHANGED placed

Place(a) ==
  /\ a \in open
  /\ open' = open \ {a} /\ placed' = placed \cup {a}
  /\ UNCHANGED charged

Lapse == open' \in SUBSET open /\ UNCHANGED <<charged, placed>>

GiveBack ==
  /\ charged' \in 0..charged
  /\ Cardinality(placed \cup open) <= charged'
  /\ UNCHANGED <<open, placed>>

Next == (\E a \in Attempts : Spend(a) \/ Place(a)) \/ Lapse \/ GiveBack

Spec == Init /\ [][Next]_vars

(* No order stands on Hyperliquid that was not paid for out of the budget.   *)
NoneForFree == Cardinality(placed) <= charged
=============================================================================
