------------------------------ MODULE Keeper -------------------------------
(***************************************************************************)
(* The keeper (src/ops/keeper.py): it learns of pools from the factory's     *)
(* events and from its list, follows those that have something to be done,   *)
(* and on every pass takes them in a round, making the calls anyone may make *)
(* on a pool and its challenge when they are due.                            *)
(*                                                                         *)
(* Reads are refused, by the node or by Hyperliquid, and a pass goes on with  *)
(* what it has; sends fail, and the process may be killed at any step, left   *)
(* with its state file.  A pool is its address, a number.  Of an account's    *)
(* rules there is only which is broken: the contracts have modules of their   *)
(* own.  Checkpoints, renewed agents and recuts change nothing the keeper      *)
(* decides by, and are left out.                                             *)
(***************************************************************************)
EXTENDS Naturals, Sequences, FiniteSets, FiniteSetsExt, SequencesExt

CONSTANTS
  List,          \* the factory's pools, in the order it made them
  Unread,        \* pools whose own reads the node always refuses
  OwnerRun,      \* pools their owner runs
  Following,     \* pools followed at the start, on the funded stage
  SweepEvery, SweepMax, Window,
  MaxHead,       \* bound: blocks
  MaxEvents      \* bound: things that go wrong

Pools == Range(List)

ASSUME KeeperAssumption ==
  /\ Pools \subseteq Nat \ {0} /\ IsInjective(List)
  /\ Unread \cup OwnerRun \cup Following \subseteq Pools
  /\ {SweepEvery, SweepMax, Window} \subseteq Nat \ {0}
  /\ {MaxHead, MaxEvents} \subseteq Nat

VARIABLES
  stage, challenge,        \* each pool's stage, and its challenge's status with what a start waits for
  wrong,                   \* what rule of its live account is broken
  deaf,                    \* Hyperliquid answers no more
  head, bought,            \* the chain's height, the ChallengeCreated events: <<pool, block>>
  next, live, resume,      \* next_block, live, resume_at
  passes, sweepAt,         \* in memory only
  disk,                    \* the state file
  at, latest,              \* where the pass is; the head it read, 0 for none
  todo, i, turn,           \* its round, its place there, what it read of the pool it is on
  left, through,           \* the turns it still has reads for; the pools it has got through
  events

chainVars == <<stage, challenge, wrong, deaf, head, bought>>
memory == <<next, live, resume, passes, sweepAt>>
passVars == <<latest, todo, i, turn, left, through>>
vars == <<chainVars, memory, disk, at, passVars, events>>

Happens == events < MaxEvents /\ events' = events + 1
NoTurn == [pool |-> 0]
NoPass == latest' = 0 /\ todo' = <<>> /\ i' = 0 /\ turn' = NoTurn /\ left' = 0 /\ through' = {}
Saved == disk' = [next |-> next', live |-> live', resume |-> resume']
Nothing(p) == stage[p] = "idle" /\ challenge[p] = "none"

Init ==
  /\ stage = [p \in Pools |-> IF p \in Following THEN "funded" ELSE "idle"]
  /\ challenge = [p \in Pools |-> "none"]
  /\ wrong = [p \in Pools |-> "none"]
  /\ deaf = FALSE /\ head = 1 /\ bought = {}
  /\ next = 1 /\ live = Following /\ resume = 0 /\ passes = 0 /\ sweepAt = 1
  /\ disk = [next |-> next, live |-> live, resume |-> resume]
  /\ at = "asleep" /\ latest = 0 /\ todo = <<>> /\ i = 0 /\ turn = NoTurn /\ left = 0 /\ through = {}
  /\ events = 0

----------------------------------------------------------------------------
(* one_pass: finding pools. *)

\* The reads there are for a pass: enough, or for one turn more than the pools that are never got through
\* may take of them.
Turns == {Cardinality(Pools)} \cup (IF deaf THEN {} ELSE {Cardinality(live \cap Unread) + 1})

\* The head may be refused: then there is no scan.
PassStarts ==
  /\ at = "asleep" /\ at' = "scan"
  /\ latest' \in {0, head}
  /\ UNCHANGED <<chainVars, memory, disk, todo, i, turn, left, through, events>>

Created(lo, hi) == {e[1] : e \in {b \in bought : b[2] \in lo..hi}}

\* One window: what it found, the place and the file move together.
\* Fault: the file has the place before it has what was found.
PlaceFirst(hi) == live' = live \cup Created(next, hi) /\ disk' = [disk EXCEPT !.next = hi + 1]
Scanned(hi) ==
  live' = live \cup Created(next, hi) /\ disk' = [next |-> hi + 1, live |-> live', resume |-> resume]

ScanWindow ==
  /\ at = "scan" /\ next <= latest
  /\ LET hi == Min({next + Window - 1, latest}) IN next' = hi + 1 /\ Scanned(hi)
  /\ UNCHANGED <<chainVars, resume, passes, sweepAt, at, passVars, events>>

\* All windows read, as many as a pass may, or one refused: the scan is over.
ScanEnds ==
  /\ at = "scan" /\ at' = (IF passes = 0 THEN "sweep" ELSE "round")
  /\ passes' = (passes + 1) % SweepEvery
  /\ latest' = 0
  /\ UNCHANGED <<chainVars, next, live, resume, sweepAt, disk, todo, i, turn, left, through, events>>

\* sweep: a few of the unfollowed, from the place in the factory's whole list where the last stopped.
FromPlace == [n \in 1..Len(List) |-> ((sweepAt + n - 2) % Len(List)) + 1]
Unfollowed == SelectSeq(FromPlace, LAMBDA n : List[n] \notin live)
After(n) == (n % Len(List)) + 1

\* Fault: a refused read holds the place.
HoldsPlace(n) == n
PastRefused(n) == After(n)

Sweep ==
  /\ at = "sweep" /\ at' = "round"
  /\ LET most == Min({SweepMax, Len(Unfollowed)})
         refused == {n \in 1..most : List[Unfollowed[n]] \in Unread}
         stopsAt(n) ==
           /\ live' = live \cup {p \in {List[Unfollowed[k]] : k \in 1..(n - 1)} : ~Nothing(p)}
           /\ sweepAt' = IF n <= most THEN PastRefused(Unfollowed[n])
                         ELSE IF most < Len(Unfollowed) THEN Unfollowed[n] ELSE sweepAt
     IN \/ /\ stopsAt(IF refused = {} THEN most + 1 ELSE Min(refused))
           /\ UNCHANGED events
        \/ \E n \in 1..most : Happens /\ (\A k \in refused : n < k) /\ stopsAt(n)
        \/ Happens /\ UNCHANGED <<live, sweepAt>>   \* the list itself
  /\ UNCHANGED <<next, resume, passes>> /\ Saved
  /\ UNCHANGED <<chainVars, passVars>>

----------------------------------------------------------------------------
(* The round. *)

\* ring: sorted, begun where the last pass broke off.
\* Fault: begun at the top.
Sorted == SetToSortSeq(live, <)
FromTheTop == Sorted
Ring ==
  LET from == {n \in DOMAIN Sorted : Sorted[n] >= resume}
      start == IF from = {} THEN 1 ELSE Min(from)
  IN [n \in DOMAIN Sorted |-> Sorted[((start + n - 2) % Len(Sorted)) + 1]]

RoundStarts ==
  /\ at = "round" /\ at' = "turn" /\ todo' = Ring /\ i' = 1
  /\ left' \in Turns
  /\ UNCHANGED <<chainVars, memory, disk, latest, turn, through, events>>

\* A turn there are no reads for, or whose reads are refused: the pool is not got through.
TurnFails ==
  /\ at = "turn" /\ i <= Len(todo) /\ (left = 0 \/ todo[i] \in Unread)
  /\ left' = (IF left = 0 THEN 0 ELSE left - 1) /\ i' = i + 1
  /\ UNCHANGED <<chainVars, memory, disk, at, latest, todo, turn, through, events>>

TurnStarts ==
  /\ at = "turn" /\ i <= Len(todo) /\ left > 0 /\ todo[i] \notin Unread
  /\ turn' = [pool |-> todo[i], stage |-> stage[todo[i]], challenge |-> challenge[todo[i]] # "none", checked |-> TRUE]
  /\ left' = left - 1 /\ at' = (IF turn'.challenge THEN "challenge" ELSE "stage")
  /\ UNCHANGED <<chainVars, memory, disk, latest, todo, i, through, events>>

----------------------------------------------------------------------------
(* What is sent.  The contract takes it only if it is due when it lands. *)

Set(p, s, c) == stage' = [stage EXCEPT ![p] = s] /\ challenge' = [challenge EXCEPT ![p] = c]
Kept == UNCHANGED <<stage, challenge, wrong>>
Sent(p, s, c) == Set(p, s, c) /\ UNCHANGED wrong
Stopped(p, s, c) == Set(p, s, c) /\ wrong' = [wrong EXCEPT ![p] = "none"]

\* How a part of a turn goes: Hyperliquid refuses, or a send fails, each something that goes wrong.
Goes == {"well", "refused", "unsent"}
As(went) == IF went = "well" THEN UNCHANGED events ELSE Happens
Answered(went) == ~deaf /\ went # "refused"

\* whats_broken: the contract first, with nothing named; Hyperliquid only for the perps to name.
\* Fault: Hyperliquid first, and nothing without it.
VenueFirst(p, answered) == IF answered THEN wrong[p] ELSE "none"
WhatsBroken(p, answered) == IF wrong[p] = "contract" \/ answered THEN wrong[p] ELSE "none"

\* A live account: a breach, an expiry (which needs no answer), or nothing.
Checked(p, went, s, c) ==
  IF (WhatsBroken(p, Answered(went)) # "none" \/ wrong[p] = "deadline") /\ went # "unsent"
  THEN Stopped(p, s, c) ELSE Kept
\* Once the contract has found a breach Hyperliquid is not asked, and the account is not fully checked.
FullyChecked(p, went) == Answered(went) /\ wrong[p] # "contract"

GoesOn(checked) == at' = "stage" /\ turn' = [turn EXCEPT !.checked = checked] /\ UNCHANGED <<i, live, through>>
BreaksOff == i' = i + 1 /\ at' = "turn" /\ turn' = NoTurn /\ UNCHANGED <<live, through>>

\* challenge_pass, by the challenge's status as it is now.  A settle step needs Hyperliquid's orders.
ChallengePass ==
  /\ at = "challenge"
  /\ \E went \in Goes :
       LET p == turn.pool
           c == challenge[p]
       IN /\ As(went)
          /\ \/ c \in {"none", "waiting"} /\ Kept /\ GoesOn(TRUE)
             \/ c = "doomed" /\ GoesOn(TRUE)
                  /\ IF went = "unsent" THEN Kept ELSE Sent(p, stage[p], "stopped")
             \/ c = "arrived" /\ GoesOn(TRUE)
                  /\ IF went = "unsent" THEN Kept ELSE Sent(p, stage[p], "active")
             \/ c = "active" /\ GoesOn(FullyChecked(p, went)) /\ Checked(p, went, stage[p], "stopped")
             \/ c = "stopped" /\ ~Answered(went) /\ BreaksOff /\ Kept
             \/ c = "stopped" /\ Answered(went) /\ GoesOn(TRUE)
                  /\ IF went = "unsent" THEN Kept
                     ELSE Kept \/ Sent(p, IF stage[p] = "challenge" THEN "idle" ELSE stage[p], "none")
  /\ UNCHANGED <<deaf, head, bought, next, resume, passes, sweepAt, disk, latest, todo, left>>

\* The turn's end: got through only if everything was checked, let go only if there was nothing to it.
Ends(checked) ==
  /\ i' = i + 1 /\ at' = "turn" /\ turn' = NoTurn
  /\ through' = (IF checked THEN through \cup {turn.pool} ELSE through)
  /\ live' = (IF checked /\ turn.stage = "idle" /\ ~turn.challenge THEN live \ {turn.pool} ELSE live)

\* The rest of pool_pass, by the stage as it was when the turn began.
StagePass ==
  /\ at = "stage"
  /\ \E went \in Goes :
       LET p == turn.pool
       IN /\ As(went)
          /\ \/ turn.stage \in {"idle", "challenge"} /\ Kept /\ Ends(turn.checked)
             \/ turn.stage = "awaiting" /\ Ends(turn.checked)
                  /\ (Kept \/ (stage[p] = "awaiting" /\ p \notin OwnerRun /\ Sent(p, "funded", challenge[p])))
             \/ turn.stage = "funded" /\ Ends(turn.checked /\ FullyChecked(p, went))
                  /\ Checked(p, went, "closing", challenge[p])
             \/ turn.stage = "closing" /\ ~Answered(went) /\ BreaksOff /\ Kept
             \/ turn.stage = "closing" /\ Answered(went) /\ Ends(turn.checked)
                  /\ (Kept \/ (stage[p] = "closing" /\ went # "unsent" /\ Sent(p, "idle", challenge[p])))
  /\ UNCHANGED <<deaf, head, bought, next, resume, passes, sweepAt, disk, latest, todo, left>>

\* The next round begins after the last pool this one got through.
PassEnds ==
  /\ at = "turn" /\ i > Len(todo) /\ at' = "asleep"
  /\ resume' = (IF through = {} THEN resume
                ELSE todo[(Max({n \in DOMAIN todo : todo[n] \in through}) % Len(todo)) + 1])
  /\ UNCHANGED <<next, live>> /\ Saved /\ NoPass
  /\ UNCHANGED <<chainVars, passes, sweepAt, events>>

----------------------------------------------------------------------------
(* The process, the chain and the traders. *)

Killed ==
  /\ Happens /\ at' = "asleep"
  /\ next' = disk.next /\ live' = disk.live /\ resume' = disk.resume /\ passes' = 0 /\ sweepAt' = 1
  /\ NoPass
  /\ UNCHANGED <<chainVars, disk>>

Outside == UNCHANGED <<deaf, memory, disk, at, passVars, events>>

Buys(p) ==
  /\ Nothing(p) /\ head < MaxHead
  /\ Sent(p, "challenge", "waiting") /\ head' = head + 1 /\ bought' = bought \cup {<<p, head'>>}
\* Doomed: its key spoiled, or past its window, when the capital may still come.
CapitalArrives(p) == challenge[p] \in {"waiting", "doomed"} /\ Sent(p, stage[p], "arrived") /\ UNCHANGED <<head, bought>>
StartIsDoomed(p) == challenge[p] \in {"waiting", "arrived"} /\ Sent(p, stage[p], "doomed") /\ UNCHANGED <<head, bought>>
RuleBreaks(p) ==
  /\ wrong[p] = "none"
  /\ \E rule \in {"contract", "asset", "deadline"} :
       /\ challenge[p] = "active" \/ (stage[p] = "funded" /\ rule # "deadline")
       /\ wrong' = [wrong EXCEPT ![p] = rule]
  /\ UNCHANGED <<stage, challenge, head, bought>>
\* The equity comes back before anyone has called.
Recovers(p) == wrong[p] = "contract" /\ wrong' = [wrong EXCEPT ![p] = "none"] /\ UNCHANGED <<stage, challenge, head, bought>>
\* The trader meets the target; the wait for a key is abandoned; the owner stops a funded stage.
Passes(p) ==
  challenge[p] = "active" /\ wrong[p] = "none" /\ Sent(p, "awaiting", "stopped") /\ UNCHANGED <<head, bought>>
Abandons(p) == stage[p] = "awaiting" /\ Sent(p, "idle", challenge[p]) /\ UNCHANGED <<head, bought>>
OwnerStops(p) == stage[p] = "funded" /\ Stopped(p, "closing", challenge[p]) /\ UNCHANGED <<head, bought>>

FallsSilent ==
  /\ Happens /\ ~deaf /\ deaf' = TRUE
  /\ UNCHANGED <<stage, challenge, wrong, head, bought, memory, disk, at, passVars>>

PassSteps ==
  \/ PassStarts \/ ScanWindow \/ ScanEnds \/ Sweep \/ RoundStarts
  \/ TurnFails \/ TurnStarts \/ ChallengePass \/ StagePass \/ PassEnds

Next ==
  \/ PassSteps \/ Killed \/ FallsSilent
  \/ \E p \in Pools \ Unread :   \* bound: at the others nothing new happens
       /\ \/ Buys(p) \/ CapitalArrives(p) \/ StartIsDoomed(p)
          \/ RuleBreaks(p) \/ Recovers(p) \/ Passes(p) \/ Abandons(p) \/ OwnerStops(p)
       /\ Outside

Spec == Init /\ [][Next]_vars

\* main calls one_pass over and over, and no read or send is without an end.
FairSpec == Spec /\ WF_vars(PassSteps)

----------------------------------------------------------------------------
(* A pool with something to be done is followed, or its purchase is in blocks  *)
(* still to be scanned: by the keeper as it runs, and by the one that would    *)
(* start on its file, wherever the process is killed and whatever was sold     *)
(* while a pass was on its way to letting the pool go.                        *)
Reachable(p, from, followed) == p \in followed \/ \E e \in bought : e[1] = p /\ e[2] >= from
BusyIsReachable ==
  \A p \in Pools : ~Nothing(p) => Reachable(p, next, live) /\ Reachable(p, disk.next, disk.live)

(* With every old event log refused for ever, such a pool is followed all the  *)
(* same, unless its own reads are refused too.                               *)
BusyIsFollowed == \A p \in Pools \ Unread : ~Nothing(p) ~> p \in live \/ Nothing(p)

(* A pool that is followed is got through again and again, however many        *)
(* others fail at every pass and however short the passes are (A-14), unless   *)
(* Hyperliquid answers for nobody.                                           *)
FollowedIsServed == \A p \in Pools \ Unread : []<>(deaf \/ p \notin live \/ p \in through)

(* An account that breaks a rule its contract can tell by itself is stopped,   *)
(* though Hyperliquid should answer no more (keeper.py :59-63): unless the      *)
(* pool's passed challenge is still to be settled, whose turn breaks off at the  *)
(* orders Hyperliquid does not name before it comes to the pool (:655).        *)
BrokenIsStopped ==
  \A p \in Pools \ Unread :
    (wrong[p] = "contract" /\ p \in live) ~> (wrong[p] # "contract" \/ (deaf /\ challenge[p] = "stopped"))
=============================================================================
