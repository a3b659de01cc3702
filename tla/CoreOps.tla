------------------------------ MODULE CoreOps ------------------------------
(***************************************************************************)
(* An account contract and its account on HyperCore (src/lib/CoreOps.sol).  *)
(*                                                                         *)
(* Reads are precompiles and answer with the START of the block; writes go  *)
(* through CoreWriter and execute on HyperCore after it, and one that cannot *)
(* be executed there is dropped without a trace.  A block is therefore two  *)
(* phases: in "evm" contract calls run, `core` stands still and what they   *)
(* send is appended to `flight`; in "core" the sent actions land while the  *)
(* trader, the market and strangers act on the account.                     *)
(*                                                                         *)
(* Money is in whole units, spot in finer ones (SPOT_PER_PERP to a perp     *)
(* unit).  A resting order holds OrderMargin of the perp side and a position  *)
(* has a notional of PosNtl: sizes and prices are not modelled, what they do to *)
(* the equity is left to the environment.                                   *)
(***************************************************************************)
EXTENDS Integers, Sequences, FiniteSets

CONSTANTS
  Assets,         \* perps a position may be in
  Orders,         \* ids of resting orders
  PosNtl,         \* notional of one open position
  OrderMargin,    \* margin held by one resting order
  SpotPerPerp,    \* Units.SPOT_PER_PERP
  NewAccountFee,  \* Units.NEW_ACCOUNT_FEE
  LateOps,        \* actions that may land after the next block has begun
  CutMayFail,     \* whether a stranger may have funded the keyless address
  MaxWealth,      \* bound: what trading can bring the account to, in spot units
  MaxDusted,      \* bound: what a donation can bring the account to, in spot units
  MaxFlight       \* bound: actions in flight

ASSUME UnitsAssumption ==
  /\ {PosNtl, OrderMargin, SpotPerPerp, NewAccountFee, MaxWealth, MaxDusted, MaxFlight} \subseteq Nat
  /\ SpotPerPerp > 0 /\ OrderMargin > 0 /\ IsFiniteSet(Orders)
  /\ CutMayFail \in BOOLEAN

VARIABLES
  block,   \* "evm" or "core"
  core,    \* the account on HyperCore
  flight   \* CoreWriter actions sent and not yet landed, oldest first

Agents == {"none", "trader", "keyless"}

NewAccount == [exists |-> FALSE, spot |-> 0, perp |-> 0, orders |-> {},
               open |-> {}, agent |-> "none"]

----------------------------------------------------------------------------
(* Reads. *)

NtlPos(c) == PosNtl * Cardinality(c.open)

Held(c) == OrderMargin * Cardinality(c.orders)

\* With a position open the code never acts on the withdrawable balance: each
\* reader of it looks at the notional first, except sweep, which only a settled
\* account has.
Withdrawable(c) == IF c.open = {} THEN c.perp - Held(c) ELSE 0

\* Fault: margin of resting orders is not looked at.
MarginIgnored == NtlPos(core) = 0
\* No position, and every unit on the perp side is withdrawable.
NothingHeldOnPerp == NtlPos(core) = 0 /\ core.perp <= Withdrawable(core)

\* Fault: the fee is not set aside.
FeeForgotten(toExists, budget) == budget
\* What can be sent so that the transfer and the fee for creating the
\* recipient's account cost the sender at most the budget.
SendableTo(toExists, budget) ==
  IF toExists THEN budget
  ELSE IF budget > NewAccountFee THEN budget - NewAccountFee ELSE 0

----------------------------------------------------------------------------
(* Writes: what a contract appends to `flight`.  A transfer of zero is not sent. *)

SetAgent(who) == <<<<"agent", who>>>>
ToPerp(usd) == IF usd = 0 THEN <<>> ELSE <<<<"toPerp", usd>>>>
ToSpot(usd) == IF usd = 0 THEN <<>> ELSE <<<<"toSpot", usd>>>>
SendUsdc(to, amount) == IF amount = 0 THEN <<>> ELSE <<<<"send", amount, to>>>>
CancelOrders(oids) == IF oids = {} THEN <<>> ELSE <<<<"cancel", oids>>>>
ClosePositions(perps) == IF perps = {} THEN <<>> ELSE <<<<"close", perps>>>>

InFlight(op) == \E i \in DOMAIN flight : flight[i][1] = op

\* Runs in the "evm" phase: the calls of a block only ever add to what is sent.
Send(actions) ==
  /\ block = "evm"
  /\ Len(flight) + Len(actions) <= MaxFlight
  /\ flight' = flight \o actions
  /\ UNCHANGED <<block, core>>

----------------------------------------------------------------------------
(* HyperCore: what an action does to the account when it lands. *)

\* What a transfer costs the sender.
SendCost(toExists, amount) == amount + (IF toExists THEN 0 ELSE NewAccountFee)

Booked(c, perp, open, orders) == [c EXCEPT !.perp = perp, !.open = open, !.orders = orders]

\* An IOC order fills or not, at the mark or below it.
Closed(c, perps) ==
  {d \in {Booked(c, e, p, c.orders) : e \in {c.perp, c.perp - 1}, p \in SUBSET c.open} :
     c.open \ perps \subseteq d.open /\ Held(d) <= d.perp /\ (d.perp = 0 => d.open = {})}

Landed(c, a, toExists, keySpoiled) ==
  CASE a[1] = "agent" ->
         IF a[2] = "trader"
         THEN {IF keySpoiled THEN c ELSE [c EXCEPT !.agent = "trader"]}
         ELSE {[c EXCEPT !.agent = "keyless"]} \cup (IF CutMayFail THEN {c} ELSE {})
    [] a[1] = "toPerp" ->
         {IF c.spot >= a[2] * SpotPerPerp
          THEN [c EXCEPT !.perp = @ + a[2], !.spot = @ - a[2] * SpotPerPerp]
          ELSE c}
    [] a[1] = "toSpot" ->
         {IF Withdrawable(c) >= a[2]
          THEN [c EXCEPT !.perp = @ - a[2], !.spot = @ + a[2] * SpotPerPerp]
          ELSE c}
    [] a[1] = "send" ->
         {IF c.spot >= SendCost(toExists, a[2])
          THEN [c EXCEPT !.spot = @ - SendCost(toExists, a[2])]
          ELSE c}
    [] a[1] = "cancel" -> {[c EXCEPT !.orders = @ \ a[2]]}
    [] a[1] = "close" -> Closed(c, a[2])

\* Actions execute in the order they were sent, except that one whose kind may
\* be late lets the others pass.
MayLand(i) ==
  /\ i \in DOMAIN flight
  /\ \A j \in 1..(i - 1) : flight[j][1] \in LateOps

Without(i) == SubSeq(flight, 1, i - 1) \o SubSeq(flight, i + 1, Len(flight))

\* The next block begins when every action that is not late has landed.
AllLanded == \A i \in DOMAIN flight : flight[i][1] \in LateOps

Wealth(c) == c.spot + c.perp * SpotPerPerp

\* What the account may look like after trading, closing or being liquidated;
\* without equity it has no position.
Rebooked(c, positions, orders) ==
  {d \in {Booked(c, e, p, o) :
            e \in 0..(MaxWealth \div SpotPerPerp), p \in SUBSET positions, o \in SUBSET orders} :
     /\ Held(d) <= d.perp /\ (d.perp = 0 => d.open = {})
     /\ Wealth(d) <= MaxWealth}

\* The trader places, fills, moves and closes whatever it likes while its key
\* is the account's agent.
Traded(c) == IF c.agent = "trader" /\ c.perp > 0 THEN Rebooked(c, Assets, Orders) ELSE {}

\* Without the trader: positions gain, lose and are liquidated, resting orders fill.
Moved(c) ==
  IF c.open = {} /\ c.orders = {} THEN {}
  ELSE {d \in Rebooked(c, Assets, c.orders) :
          Cardinality(d.open \ c.open) <= Cardinality(c.orders \ d.orders)}

\* Anyone may send the account the smallest unit, on either side.
Donated(c) ==
  {d \in {[c EXCEPT !.spot = @ + 1, !.exists = TRUE], [c EXCEPT !.perp = @ + 1, !.exists = TRUE]} :
     Wealth(d) <= MaxDusted}

----------------------------------------------------------------------------
(* Time is kept as the age of an event: unset, or how long ago it was, counted *)
(* no further than one past the wait it is compared with.                      *)

Unset == -1
Ages(wait) == Unset..(wait + 1)
Older(age, wait) == IF age = Unset \/ age > wait THEN age ELSE age + 1
=============================================================================
