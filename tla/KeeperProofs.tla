----------------------------- MODULE KeeperProofs ----------------------------
(***************************************************************************)
(* For any number of pools, any window, any sweep and any number of kills    *)
(* and failures: a pool with something to be done is one the keeper follows  *)
(* or will come upon, now and after a restart on its state file.            *)
(*                                                                         *)
(* BusyIsReachable is not inductive.  That a pool may be let go needs        *)
(* LettingGo: sold after its turn read it as idle, its purchase is in a      *)
(* block still to be scanned, for no scan goes past the head it read           *)
(* (Places) and none runs during the round.  That a breach that lands never    *)
(* wakes an idle pool needs WrongIsLive.                                     *)
(***************************************************************************)
EXTENDS Keeper, TLAPS

Busy(p) == ~Nothing(p)

\* The scan's place, in memory and in the file, is at most one past the head.
Places ==
  /\ {head, next, latest, disk.next} \subseteq Nat
  /\ latest <= head /\ next <= head + 1 /\ disk.next <= next
  /\ \A e \in bought : e[2] \in Nat

WrongIsLive ==
  /\ DOMAIN stage = Pools /\ DOMAIN challenge = Pools /\ DOMAIN wrong = Pools
  /\ \A p \in Pools : wrong[p] # "none" => challenge[p] = "active" \/ stage[p] = "funded"

\* A turn that read its pool as idle, and what the pool may have become since.
IdleTurn == at \in {"challenge", "stage"} /\ turn.stage = "idle" /\ ~turn.challenge
LettingGo ==
  /\ at \in {"challenge", "stage"} =>
       turn = [pool |-> turn.pool, stage |-> turn.stage, challenge |-> turn.challenge, checked |-> turn.checked]
  /\ IdleTurn => at = "stage"
  /\ IdleTurn /\ turn.pool \in Pools /\ Busy(turn.pool) =>
       \E e \in bought : e[1] = turn.pool /\ e[2] >= next

KeeperInv == Places /\ WrongIsLive /\ LettingGo /\ BusyIsReachable

LEMMA MinOfTwo ==
  ASSUME NEW a \in Nat, NEW b \in Nat
  PROVE  Min({a, b}) \in {a, b} /\ Min({a, b}) <= a /\ Min({a, b}) <= b
<1>1. \E x \in {a, b} : \A y \in {a, b} : x <= y
  OBVIOUS
<1> QED BY <1>1 DEF Min

LEMMA InitKeeperInv == Init => KeeperInv
<1> SUFFICES ASSUME Init PROVE KeeperInv
  OBVIOUS
<1>1. Places /\ LettingGo
  BY DEF Init, Places, LettingGo, IdleTurn
<1>2. WrongIsLive
  BY DEF Init, WrongIsLive
<1>3. BusyIsReachable
  BY DEF Init, BusyIsReachable, Reachable, Nothing
<1> QED BY <1>1, <1>2, <1>3 DEF KeeperInv

----------------------------------------------------------------------------
(* The chain: which steps can wake an idle pool. *)

\* Everything but a sale.
ChainSteps ==
  \/ ChallengePass \/ StagePass
  \/ \E p \in Pools \ Unread :
       /\ \/ CapitalArrives(p) \/ StartIsDoomed(p)
          \/ RuleBreaks(p) \/ Recovers(p) \/ Passes(p) \/ Abandons(p) \/ OwnerStops(p)
       /\ Outside

\* A stop lands only on an account that was live.
LEMMA CheckedStep ==
  ASSUME WrongIsLive, NEW p, NEW went, NEW s, NEW c, Checked(p, went, s, c),
         s = stage[p] \/ c = challenge[p]
  PROVE  /\ WrongIsLive'
         /\ \A q \in Pools : Busy(q)' => Busy(q)
<1>1. CASE Kept
  BY <1>1 DEF Kept, WrongIsLive, Busy, Nothing
<1>2. CASE Stopped(p, s, c) /\ (p \in Pools => wrong[p] # "none")
  BY <1>2 DEF Stopped, Set, WrongIsLive, Busy, Nothing
<1> QED BY <1>1, <1>2 DEF Checked, WhatsBroken

LEMMA ChallengePassStep ==
  ASSUME WrongIsLive, ChallengePass
  PROVE  WrongIsLive' /\ \A q \in Pools : Busy(q)' => Busy(q)
<1> PICK went \in Goes :
      LET p == turn.pool
          c == challenge[p]
      IN \/ Kept
         \/ c = "doomed" /\ Sent(p, stage[p], "stopped")
         \/ c = "arrived" /\ Sent(p, stage[p], "active")
         \/ c = "active" /\ Checked(p, went, stage[p], "stopped")
         \/ c = "stopped" /\ Sent(p, IF stage[p] = "challenge" THEN "idle" ELSE stage[p], "none")
  BY DEF ChallengePass
<1>1. CASE Kept
  BY <1>1 DEF Kept, WrongIsLive, Busy, Nothing
<1>2. CASE Checked(turn.pool, went, stage[turn.pool], "stopped")
  BY <1>2, CheckedStep
<1>3. CASE challenge[turn.pool] = "doomed" /\ Sent(turn.pool, stage[turn.pool], "stopped")
  BY <1>3 DEF Sent, Set, WrongIsLive, Busy, Nothing
<1>4. CASE challenge[turn.pool] = "arrived" /\ Sent(turn.pool, stage[turn.pool], "active")
  BY <1>4 DEF Sent, Set, WrongIsLive, Busy, Nothing
<1>5. CASE /\ challenge[turn.pool] = "stopped"
           /\ Sent(turn.pool, IF stage[turn.pool] = "challenge" THEN "idle" ELSE stage[turn.pool], "none")
  BY <1>5 DEF Sent, Set, WrongIsLive, Busy, Nothing
<1> QED BY <1>1, <1>2, <1>3, <1>4, <1>5

LEMMA StagePassStep ==
  ASSUME WrongIsLive, StagePass
  PROVE  WrongIsLive' /\ \A q \in Pools : Busy(q)' => Busy(q)
<1> PICK went \in Goes :
      LET p == turn.pool
      IN \/ Kept
         \/ stage[p] = "awaiting" /\ Sent(p, "funded", challenge[p])
         \/ Checked(p, went, "closing", challenge[p])
         \/ stage[p] = "closing" /\ Sent(p, "idle", challenge[p])
  BY DEF StagePass
<1>1. CASE Kept
  BY <1>1 DEF Kept, WrongIsLive, Busy, Nothing
<1>2. CASE Checked(turn.pool, went, "closing", challenge[turn.pool])
  BY <1>2, CheckedStep
<1>3. CASE stage[turn.pool] = "awaiting" /\ Sent(turn.pool, "funded", challenge[turn.pool])
  BY <1>3 DEF Sent, Set, WrongIsLive, Busy, Nothing
<1>4. CASE stage[turn.pool] = "closing" /\ Sent(turn.pool, "idle", challenge[turn.pool])
  BY <1>4 DEF Sent, Set, WrongIsLive, Busy, Nothing
<1> QED BY <1>1, <1>2, <1>3, <1>4

LEMMA ChainStep ==
  ASSUME WrongIsLive, ChainSteps
  PROVE  WrongIsLive' /\ \A q \in Pools : Busy(q)' => Busy(q)
<1>1. CASE ChallengePass
  BY <1>1, ChallengePassStep
<1>2. CASE StagePass
  BY <1>2, StagePassStep
<1>3. ASSUME NEW p \in Pools,
             CapitalArrives(p) \/ StartIsDoomed(p) \/ Passes(p) \/ Abandons(p)
      PROVE  WrongIsLive' /\ \A q \in Pools : Busy(q)' => Busy(q)
  BY <1>3 DEF CapitalArrives, StartIsDoomed, Passes, Abandons, Sent, Set, WrongIsLive, Busy, Nothing
<1>4. ASSUME NEW p \in Pools, RuleBreaks(p) \/ Recovers(p)
      PROVE  WrongIsLive' /\ \A q \in Pools : Busy(q)' => Busy(q)
  BY <1>4 DEF RuleBreaks, Recovers, WrongIsLive, Busy, Nothing
<1>5. ASSUME NEW p \in Pools, OwnerStops(p)
      PROVE  WrongIsLive' /\ \A q \in Pools : Busy(q)' => Busy(q)
  BY <1>5 DEF OwnerStops, Stopped, Set, WrongIsLive, Busy, Nothing
<1> QED BY <1>1, <1>2, <1>3, <1>4, <1>5 DEF ChainSteps

----------------------------------------------------------------------------
(* The pass and the process. *)

\* Where no block is scanned, nothing is written or let go, and no pool is woken, all is as it was.
LEMMA NothingMoves ==
  ASSUME KeeperInv, WrongIsLive',
         UNCHANGED <<head, bought, next, live, disk>>,
         latest' \in {0, head, latest},
         \A q \in Pools : Busy(q)' => Busy(q),
         \/ at' \notin {"challenge", "stage"}
         \/ UNCHANGED <<at, turn>>
         \/ at = "challenge" /\ at' = "stage" /\ \E b \in BOOLEAN : turn' = [turn EXCEPT !.checked = b]
  PROVE  KeeperInv'
<1>1. Places'
  BY DEF KeeperInv, Places
<1>2. BusyIsReachable'
  BY DEF KeeperInv, BusyIsReachable, Reachable, Busy
<1>3. LettingGo'
  <2>1. CASE at' \notin {"challenge", "stage"}
    BY <2>1 DEF LettingGo, IdleTurn
  <2>2. CASE UNCHANGED <<at, turn>>
    BY <2>2 DEF KeeperInv, LettingGo, IdleTurn
  <2>3. ASSUME at = "challenge", at' = "stage",
               NEW b \in BOOLEAN, turn' = [turn EXCEPT !.checked = b]
        PROVE  LettingGo'
    <3>1. turn' = [pool |-> turn.pool, stage |-> turn.stage, challenge |-> turn.challenge, checked |-> b]
      BY <2>3 DEF KeeperInv, LettingGo
    <3>2. ~IdleTurn'
      BY <2>3, <3>1 DEF KeeperInv, LettingGo, IdleTurn
    <3> QED BY <2>3, <3>1, <3>2 DEF LettingGo
  <2> QED BY <2>1, <2>2, <2>3
<1> QED BY <1>1, <1>2, <1>3 DEF KeeperInv

\* A window: what a pool's purchase is in was scanned, or is still to be.
LEMMA ScanWindowStep ==
  ASSUME KeeperInv, ScanWindow
  PROVE  KeeperInv'
<1> DEFINE hi == Min({next + Window - 1, latest})
<1>1. hi \in Nat /\ next <= hi /\ hi <= latest
  <2>1. next + Window - 1 \in Nat /\ next <= next + Window - 1 /\ latest \in Nat /\ next <= latest
    BY KeeperAssumption DEF KeeperInv, Places, ScanWindow
  <2> QED BY <2>1, MinOfTwo
<1>2. /\ next' = hi + 1 /\ live' = live \cup Created(next, hi)
      /\ disk' = [next |-> hi + 1, live |-> live', resume |-> resume]
      /\ UNCHANGED <<chainVars, latest, at, turn>>
  BY DEF ScanWindow, Scanned, passVars
<1> HIDE DEF hi
<1>3. Places'
  BY <1>1, <1>2 DEF KeeperInv, Places, chainVars
<1>4. WrongIsLive'
  BY <1>2 DEF KeeperInv, WrongIsLive, chainVars
<1>5. LettingGo'
  BY <1>2 DEF ScanWindow, LettingGo, IdleTurn
<1>6. BusyIsReachable'
  <2> SUFFICES ASSUME NEW p \in Pools, Busy(p)' PROVE Reachable(p, next, live)'
    BY <1>2 DEF BusyIsReachable, Reachable, Busy
  <2>1. Reachable(p, next, live)
    BY <1>2 DEF KeeperInv, BusyIsReachable, Busy, Nothing, chainVars
  <2>2. CASE p \in live
    BY <1>2, <2>2 DEF Reachable
  <2>3. ASSUME NEW e \in bought, e[1] = p, e[2] >= next PROVE Reachable(p, next, live)'
    <3>1. e[2] \in Nat /\ next \in Nat
      BY DEF KeeperInv, Places
    <3>2. CASE e[2] <= hi
      BY <1>1, <1>2, <2>3, <3>1, <3>2 DEF Reachable, Created
    <3>3. CASE e[2] > hi
      BY <1>1, <1>2, <2>3, <3>1, <3>3 DEF Reachable, chainVars
    <3> QED BY <1>1, <3>1, <3>2, <3>3
  <2> QED BY <2>1, <2>2, <2>3 DEF Reachable
<1> QED BY <1>3, <1>4, <1>5, <1>6 DEF KeeperInv

\* The steps that write the file without a scan: it is what memory is.
LEMMA SavedStep ==
  ASSUME KeeperInv, UNCHANGED chainVars, UNCHANGED next, live \subseteq live',
         Saved, latest' \in {0, latest}, at' \notin {"challenge", "stage"}
  PROVE  KeeperInv'
<1>1. Places'
  BY DEF KeeperInv, Places, Saved, chainVars
<1>2. WrongIsLive'
  BY DEF KeeperInv, WrongIsLive, chainVars
<1>3. LettingGo'
  BY DEF LettingGo, IdleTurn
<1>4. BusyIsReachable'
  BY DEF KeeperInv, BusyIsReachable, Reachable, Nothing, Saved, chainVars
<1> QED BY <1>1, <1>2, <1>3, <1>4 DEF KeeperInv

LEMMA TurnStartsStep ==
  ASSUME KeeperInv, TurnStarts
  PROVE  KeeperInv'
<1>1. /\ UNCHANGED <<chainVars, memory, disk, latest>>
      /\ turn' = [pool |-> todo[i], stage |-> stage[todo[i]],
                  challenge |-> challenge[todo[i]] # "none", checked |-> TRUE]
      /\ at' = (IF challenge[todo[i]] # "none" THEN "challenge" ELSE "stage")
  BY DEF TurnStarts
<1>2. Places' /\ WrongIsLive' /\ BusyIsReachable'
  BY <1>1 DEF KeeperInv, Places, WrongIsLive, BusyIsReachable, Reachable, Nothing, chainVars, memory
<1>3. LettingGo'
  BY <1>1 DEF LettingGo, IdleTurn, Busy, Nothing, chainVars
<1> QED BY <1>2, <1>3 DEF KeeperInv

LEMMA ChallengePassKeeps ==
  ASSUME KeeperInv, ChallengePass
  PROVE  KeeperInv'
<1>1. WrongIsLive' /\ \A q \in Pools : Busy(q)' => Busy(q)
  BY ChallengePassStep DEF KeeperInv
<1>2. UNCHANGED <<head, bought, next, live, disk, latest>> /\ at = "challenge"
  BY DEF ChallengePass, GoesOn, BreaksOff
<1>3. \/ at' = "turn"
      \/ at' = "stage" /\ \E b \in BOOLEAN : turn' = [turn EXCEPT !.checked = b]
  BY DEF ChallengePass, GoesOn, BreaksOff, FullyChecked, Answered
<1> QED BY <1>1, <1>2, <1>3, NothingMoves

\* The turn's end, where a pool may be let go.
LEMMA StagePassKeeps ==
  ASSUME KeeperInv, StagePass
  PROVE  KeeperInv'
<1>1. WrongIsLive' /\ \A q \in Pools : Busy(q)' => Busy(q)
  BY StagePassStep DEF KeeperInv
<1>2. UNCHANGED <<head, bought, next, disk, latest>> /\ at = "stage" /\ at' = "turn"
  BY DEF StagePass, Ends, BreaksOff
<1>3. CASE live' = live
  BY <1>1, <1>2, <1>3, NothingMoves
<1>4. CASE live' = live \ {turn.pool} /\ turn.stage = "idle" /\ ~turn.challenge
  <2>1. Places'
    BY <1>2 DEF KeeperInv, Places
  <2>2. LettingGo'
    BY <1>2 DEF LettingGo, IdleTurn
  <2>3. BusyIsReachable'
    <3> SUFFICES ASSUME NEW p \in Pools, Busy(p)'
                 PROVE  Reachable(p, next, live)' /\ Reachable(p, disk.next, disk.live)'
      BY DEF BusyIsReachable, Busy
    <3>1. Busy(p) /\ Reachable(p, next, live) /\ Reachable(p, disk.next, disk.live)
      BY <1>1 DEF KeeperInv, BusyIsReachable, Busy
    <3>2. CASE p = turn.pool
      BY <1>2, <1>4, <3>1, <3>2 DEF KeeperInv, LettingGo, IdleTurn, Reachable
    <3>3. CASE p # turn.pool
      BY <1>2, <1>4, <3>1, <3>3 DEF Reachable
    <3> QED BY <3>2, <3>3, <1>2, <3>1 DEF Reachable
  <2> QED BY <1>1, <2>1, <2>2, <2>3 DEF KeeperInv
<1>5. live' = live \/ (live' = live \ {turn.pool} /\ turn.stage = "idle" /\ ~turn.challenge)
  BY DEF StagePass, Ends, BreaksOff
<1> QED BY <1>3, <1>4, <1>5

\* Killed, the keeper is what its file says.
LEMMA KilledStep ==
  ASSUME KeeperInv, Killed
  PROVE  KeeperInv'
<1>1. /\ next' = disk.next /\ live' = disk.live /\ latest' = 0 /\ at' = "asleep"
      /\ UNCHANGED <<chainVars, disk>>
  BY DEF Killed, NoPass
<1>2. Places' /\ WrongIsLive' /\ LettingGo'
  BY <1>1 DEF KeeperInv, Places, WrongIsLive, LettingGo, IdleTurn, chainVars
<1>3. BusyIsReachable'
  BY <1>1 DEF KeeperInv, BusyIsReachable, Reachable, Nothing, chainVars
<1> QED BY <1>2, <1>3 DEF KeeperInv

\* A sale: its block is past every place.
LEMMA BuysStep ==
  ASSUME KeeperInv, NEW p \in Pools, Buys(p), Outside
  PROVE  KeeperInv'
<1>1. /\ UNCHANGED <<wrong, memory, disk, at, turn, latest>>
      /\ head' = head + 1 /\ bought' = bought \cup {<<p, head + 1>>}
      /\ stage' = [stage EXCEPT ![p] = "challenge"] /\ challenge' = [challenge EXCEPT ![p] = "waiting"]
  BY DEF Buys, Sent, Set, Outside, passVars
<1>2. Nothing(p)
  BY DEF Buys
<1>3. Places'
  BY <1>1 DEF KeeperInv, Places, memory
<1>4. WrongIsLive'
  BY <1>1, <1>2 DEF KeeperInv, WrongIsLive, Nothing
<1>5. \A q \in Pools \ {p} : Busy(q)' => Busy(q)
  BY <1>1 DEF KeeperInv, WrongIsLive, Busy, Nothing
<1>6. <<p, head + 1>> \in bought' /\ head + 1 >= next' /\ head + 1 >= disk.next'
  BY <1>1 DEF KeeperInv, Places, memory
<1>7. LettingGo'
  BY <1>1, <1>5, <1>6 DEF KeeperInv, LettingGo, IdleTurn, memory
<1>8. BusyIsReachable'
  <2> SUFFICES ASSUME NEW q \in Pools, Busy(q)'
               PROVE  Reachable(q, next, live)' /\ Reachable(q, disk.next, disk.live)'
    BY DEF BusyIsReachable, Busy
  <2>1. CASE q = p
    BY <1>6, <2>1 DEF Reachable
  <2>2. CASE q # p
    BY <1>1, <1>5, <2>2 DEF KeeperInv, BusyIsReachable, Reachable, Busy, memory
  <2> QED BY <2>1, <2>2
<1> QED BY <1>3, <1>4, <1>7, <1>8 DEF KeeperInv

LEMMA OutsideStep ==
  ASSUME KeeperInv, NEW p \in Pools, Outside,
         \/ CapitalArrives(p) \/ StartIsDoomed(p)
         \/ RuleBreaks(p) \/ Recovers(p) \/ Passes(p) \/ Abandons(p) \/ OwnerStops(p),
         p \notin Unread
  PROVE  KeeperInv'
<1>1. ChainSteps
  BY DEF ChainSteps
<1>2. WrongIsLive' /\ \A q \in Pools : Busy(q)' => Busy(q)
  BY <1>1, ChainStep DEF KeeperInv
<1>3. UNCHANGED <<head, bought, next, live, disk, latest, at, turn>>
  BY DEF Outside, memory, passVars, CapitalArrives, StartIsDoomed, RuleBreaks, Recovers, Passes,
         Abandons, OwnerStops
<1> QED BY <1>2, <1>3, NothingMoves

\* Steps of the pass that only move its place.
LEMMA QuietStep ==
  ASSUME KeeperInv, UNCHANGED <<chainVars, disk, next, live>>, latest' \in {0, head, latest},
         at' \notin {"challenge", "stage"} \/ UNCHANGED <<at, turn>>
  PROVE  KeeperInv'
<1>1. WrongIsLive' /\ \A q \in Pools : Busy(q)' => Busy(q)
  BY DEF KeeperInv, WrongIsLive, Busy, Nothing, chainVars
<1> QED BY <1>1, NothingMoves DEF chainVars

LEMMA NextKeeperInv == KeeperInv /\ [Next]_vars => KeeperInv'
<1> SUFFICES ASSUME KeeperInv, [Next]_vars PROVE KeeperInv'
  OBVIOUS
<1>1. CASE PassStarts \/ ScanEnds \/ RoundStarts \/ TurnFails
  BY <1>1, QuietStep DEF PassStarts, ScanEnds, RoundStarts, TurnFails, memory
<1>2. CASE ScanWindow
  BY <1>2, ScanWindowStep
<1>3. CASE Sweep
  <2>1. live \subseteq live'
    BY <1>3 DEF Sweep
  <2> QED BY <1>3, <2>1, SavedStep DEF Sweep, passVars
<1>4. CASE TurnStarts
  BY <1>4, TurnStartsStep
<1>5. CASE ChallengePass
  BY <1>5, ChallengePassKeeps
<1>6. CASE StagePass
  BY <1>6, StagePassKeeps
<1>7. CASE PassEnds
  BY <1>7, SavedStep DEF PassEnds, NoPass
<1>8. CASE Killed
  BY <1>8, KilledStep
<1>9. CASE FallsSilent
  <2>1. WrongIsLive' /\ \A q \in Pools : Busy(q)' => Busy(q)
    BY <1>9 DEF FallsSilent, KeeperInv, WrongIsLive, Busy, Nothing
  <2> QED BY <1>9, <2>1, NothingMoves DEF FallsSilent, memory, passVars
<1>10. ASSUME NEW p \in Pools \ Unread, Buys(p), Outside PROVE KeeperInv'
  BY <1>10, BuysStep
<1>11. ASSUME NEW p \in Pools \ Unread, Outside,
              \/ CapitalArrives(p) \/ StartIsDoomed(p)
              \/ RuleBreaks(p) \/ Recovers(p) \/ Passes(p) \/ Abandons(p) \/ OwnerStops(p)
       PROVE  KeeperInv'
  BY <1>11, OutsideStep
<1>12. CASE UNCHANGED vars
  BY <1>12, QuietStep DEF vars, memory, passVars
<1> QED
  BY <1>1, <1>2, <1>3, <1>4, <1>5, <1>6, <1>7, <1>8, <1>9, <1>10, <1>11, <1>12 DEF Next, PassSteps

(* A pool with something to be done is followed, or its purchase lies in      *)
(* blocks still to be scanned, for the keeper as it runs and for the one that  *)
(* would start on its file (one_pass, keeper.py).                            *)
THEOREM BusyAlwaysReachable == Spec => []BusyIsReachable
<1>1. Init => KeeperInv
  BY InitKeeperInv
<1>2. KeeperInv /\ [Next]_vars => KeeperInv'
  BY NextKeeperInv
<1>3. KeeperInv => BusyIsReachable
  BY DEF KeeperInv
<1> QED BY <1>1, <1>2, <1>3, PTL DEF Spec
=============================================================================
