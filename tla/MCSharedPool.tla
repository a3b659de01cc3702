---------------------------- MODULE MCSharedPool ----------------------------
(* Small instances of SharedPool for TLC. *)
EXTENDS SharedPool, TLC

CONSTANTS s1, platform, alice, bob

OneSeat == {s1}
TwoHolders == {platform, alice, bob}
TicketsOfTwo == {alice, bob} \X {1}
Alike == Permutations({alice, bob})
=============================================================================
