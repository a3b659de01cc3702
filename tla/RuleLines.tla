----------------------------- MODULE RuleLines -----------------------------
(***************************************************************************)
(* The arithmetic of the protector (src/gateway/protect.py): how far from    *)
(* the mark a stop may stand so that the pool's nearest rule line is not     *)
(* passed (lines), what is kept of a stop that stands (reconcile), and what  *)
(* an order may add to what the account could come to hold (leverage_check). *)
(*                                                                         *)
(* One perp, whose price moves a tick at a time, with sizes and equity in    *)
(* the units that make a size of one worth a tick.  A pass reads and acts in *)
(* one step here: Protection has what happens between.                       *)
(***************************************************************************)
EXTENDS Integers, FiniteSets, FiniteSetsExt

CONSTANTS
  Marks,         \* the prices, an interval
  OrderSizes,
  Capital,       \* the equity at the start
  Floors,        \* where the nearest rule line may come to stand
  PoolLeverage,  \* the pool's leverage rule, and the perp's own cap
  PerpLeverage,
  MaxOpened        \* bound: orders opened

ASSUME RuleLinesAssumption ==
  /\ Marks \subseteq Nat \ {0, 1} /\ OrderSizes \subseteq Nat \ {0}
  /\ {Capital, PoolLeverage, PerpLeverage, MaxOpened} \subseteq Nat
  /\ Floors \subseteq 0..Capital /\ Floors # {}

VARIABLES
  mark, held, rest, stands,  \* Hyperliquid: the price, the position, the orders resting, the stop of each side
  equity,
  floor, seen,              \* RuleLimits.floor: as the contract has it, as the gateway last read it
  opened,                     \* orders opened
  ways                      \* the sides the trader opens on

linesVars == <<mark, held, rest, stands, equity, floor, seen, opened, ways>>

Sides == {"long", "short"}
Dir(side) == IF side = "long" THEN 1 ELSE -1
IsHeld(side) == Dir(side) * held > 0
SumOf(orders) == MapThenSumSet(LAMBDA o : o.size, orders)
Of(side, orders) == {o \in orders : o.side = side}

LinesInit ==
  /\ mark \in Marks /\ held = 0 /\ rest = {} /\ stands = [side \in Sides |-> 0]
  /\ equity = Capital /\ floor = Min(Floors) /\ seen = Min(Floors) /\ opened = 0
  /\ ways \in (SUBSET Sides) \ {{}}

----------------------------------------------------------------------------
\* exposure: each side's position, and all that rests on it.
\* Fault: the position alone, once there is one.
HeldAlone(side, orders) == IF held # 0 THEN Max({Dir(side) * held, 0}) ELSE SumOf(Of(side, orders))
Exposure(side, orders) == Max({Dir(side) * held, 0}) + SumOf(Of(side, orders))

\* worst_size: all the buys, or all the sells, on top of the position.
\* Fault: the two sides taken off one another.
NetSize(orders) == Max({held + SumOf(Of("long", orders)) - SumOf(Of("short", orders)), held, -held})
WorstSize(orders) ==
  Max({held + SumOf(Of("long", orders)), -(held + SumOf(Of("long", orders))),
       held - SumOf(Of("short", orders)), -(held - SumOf(Of("short", orders)))})

\* lines: the budget over the most the account may hold; half the price at most, a tick at least;
\* rounded towards the mark.
Distance(orders, line) ==
  LET size == Max({Exposure(side, orders) : side \in Sides})
      budget == Min({Max({equity - line, 0}), (size * mark) \div 2})
  IN Max({budget \div size, 1})
StopLine(side, orders, line) == mark - Dir(side) * Distance(orders, line)

Tighter(side, a, b) == IF side = "long" THEN a >= b ELSE a <= b

\* reconcile, and the sweep's clearing of a stop that stands for nothing.
Reconciled(orders, line) ==
  [side \in Sides |->
     IF Exposure(side, orders) = 0 THEN 0
     ELSE IF stands[side] # 0 /\ IsHeld(side) /\ Tighter(side, stands[side], StopLine(side, orders, line))
          THEN stands[side]
     ELSE StopLine(side, orders, line)]

\* leverage_check and asset_leverage_check: what does not raise the worst is never refused.
WithinRules(orders) ==
  \/ WorstSize(orders) <= WorstSize(rest)
  \/ \A cap \in {PoolLeverage, PerpLeverage} : equity > 0 /\ WorstSize(orders) * mark <= equity * cap

----------------------------------------------------------------------------
Alive == equity >= floor   \* past its line the account is stopped by its contract

Reaches(o) == IF o.side = "long" THEN mark <= o.px ELSE mark >= o.px
Triggered(side) == stands[side] # 0 /\ ~Tighter(side, mark - Dir(side), stands[side])

Sweep ==
  /\ Alive /\ seen' = floor /\ stands' = Reconciled(rest, floor)
  /\ UNCHANGED <<mark, held, rest, equity, floor, opened, ways>>

\* before_opening, and the order at Hyperliquid.
Opens(side, size, px) ==
  /\ Alive /\ opened < MaxOpened /\ opened' = opened + 1
  /\ Dir(side) * (mark - px) >= 0
  /\ LET o == [id |-> opened, side |-> side, size |-> size, px |-> px]
         orders == rest \cup {o}
     IN /\ WithinRules(orders) /\ equity > floor
        /\ stands' = Reconciled(orders, floor) /\ rest' = orders
  /\ seen' = floor
  /\ UNCHANGED <<mark, held, equity, floor, ways>>

TraderCancels(o) == rest' = rest \ {o} /\ UNCHANGED <<mark, held, stands, equity, floor, seen, opened, ways>>

\* A stop goes with the position it is for.
Holding(q) ==
  /\ held' = q
  /\ stands' = [side \in Sides |-> IF IsHeld(side) /\ Dir(side) * q <= 0 THEN 0 ELSE stands[side]]

TraderReduces(side) ==
  /\ IsHeld(side) /\ Holding(held - Dir(side)) /\ UNCHANGED <<mark, rest, equity, floor, seen, opened, ways>>

\* move: a stop only nearer, never at the mark or past it.
TraderMovesStop(side, to) ==
  /\ IsHeld(side) /\ stands[side] # 0
  /\ Dir(side) * (mark - to) > 0 /\ Tighter(side, to, stands[side])
  /\ stands' = [stands EXCEPT ![side] = to]
  /\ UNCHANGED <<mark, held, rest, equity, floor, seen, opened, ways>>

Fills(o) ==
  /\ Reaches(o) /\ rest' = rest \ {o} /\ Holding(held + Dir(o.side) * o.size)
  /\ UNCHANGED <<mark, equity, floor, seen, opened, ways>>

\* A stop closes what it is for, or finds nothing and is gone.
Fires(side) ==
  /\ Triggered(side)
  /\ held' = (IF IsHeld(side) THEN 0 ELSE held) /\ stands' = [stands EXCEPT ![side] = 0]
  /\ UNCHANGED <<mark, rest, equity, floor, seen, opened, ways>>

\* The price passes no order that would fill and no stop that would fire: no gaps, a bound.
PriceMoves ==
  /\ Alive /\ ~(\E o \in rest : Reaches(o)) /\ ~(\E side \in Sides : Triggered(side))
  /\ \E to \in {mark - 1, mark + 1} \cap Marks :
       mark' = to /\ equity' = equity + held * (to - mark)
  /\ UNCHANGED <<held, rest, stands, floor, seen, opened, ways>>

\* A new day's snapshot.
FloorRises ==
  /\ \E f \in Floors : f > floor /\ f <= equity /\ floor' = f
  /\ UNCHANGED <<mark, held, rest, stands, equity, seen, opened, ways>>

LinesSteps ==
  \/ Sweep \/ PriceMoves \/ FloorRises
  \/ \E side \in ways, size \in OrderSizes, px \in Marks : Opens(side, size, px)
  \/ \E o \in rest : TraderCancels(o) \/ Fills(o)
  \/ \E side \in Sides : TraderReduces(side) \/ Fires(side)
  \/ \E side \in Sides, to \in Marks : TraderMovesStop(side, to)

----------------------------------------------------------------------------
(* An account traded one way: whatever has filled, moved or been cancelled     *)
(* since, a position that runs to its stop, with every order on the way to it *)
(* filled, leaves the account at the rule line the gateway last read, but for *)
(* the tick a stop must keep from the mark.                                  *)
OnTheWay(side) == {o \in Of(side, rest) : Dir(side) * (o.px - stands[side]) > 0}
AtStop(side) ==
  equity - Dir(side) * held * Dir(side) * (mark - stands[side])
         - MapThenSumSet(LAMBDA o : o.size * Dir(side) * (o.px - stands[side]), OnTheWay(side))
StopHoldsTheFloor ==
  Alive /\ ways # Sides => \A side \in Sides :
    IsHeld(side) /\ stands[side] # 0
      => AtStop(side) >= seen - (Dir(side) * held + SumOf(OnTheWay(side)))

(* However the orders resting after a request fill, one by one or not at all, *)
(* the account holds at that price no more than its leverage rules allow, or  *)
(* no more than it could have come to before.                                *)
Outcomes(orders) == {held + SumOf(Of("long", S)) - SumOf(Of("short", S)) : S \in SUBSET orders}
Magnitudes(orders) == Outcomes(orders) \cup {-q : q \in Outcomes(orders)}
NothingGrowsPastTheRule ==
  [][opened' # opened =>
       \A q \in Magnitudes(rest)' :
         \/ q * mark <= equity * Min({PoolLeverage, PerpLeverage})
         \/ \E p \in Magnitudes(rest) : q <= p]_linesVars
=============================================================================
