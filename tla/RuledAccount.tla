---------------------------- MODULE RuledAccount ----------------------------
(***************************************************************************)
(* A contract that owns a HyperCore account, lets one agent key trade it,   *)
(* and can be stopped by anyone when the account breaks its rules           *)
(* (src/RuledAccount.sol).  Pool and ChallengeAccount extend it, as in the  *)
(* source.                                                                  *)
(***************************************************************************)
EXTENDS CoreOps

CONSTANTS
  Listed,           \* the assets of the pool's rules
  MaxDrawdownBps, DailyLossBps, MaxLeverageX100, BPS,
  MaxCancels        \* Units.MAX_CANCELS

ASSUME RulesAssumption ==
  /\ Listed \subseteq Assets
  /\ {MaxDrawdownBps, DailyLossBps, MaxLeverageX100, BPS, MaxCancels} \subseteq Nat
  /\ MaxDrawdownBps < BPS /\ DailyLossBps < BPS

VARIABLES
  agentKey,        \* the agent key approved here: "trader" or "none"
  dayStartEquity,  \* equity at the latest daily snapshot
  snapshotToday,   \* day = _today()
  inWindow         \* block.timestamp % 1 days < CHECKPOINT_WINDOW

coreVars == <<block, core, flight>>
dayVars == <<dayStartEquity, snapshotToday, inWindow>>

----------------------------------------------------------------------------
(* Which rule the account breaks right now, for a caller who names `extra`. *)

Lost(base, bps) == core.perp * BPS < base * (BPS - bps)

Violation(drawdownBase, extra) ==
  \/ Lost(drawdownBase, MaxDrawdownBps)
  \/ dayStartEquity > 0 /\ Lost(dayStartEquity, DailyLossBps)
  \/ NtlPos(core) > 0 /\ (core.perp <= 0 \/ NtlPos(core) * 100 > core.perp * MaxLeverageX100)
  \/ (extra \ Listed) \cap core.open # {}

----------------------------------------------------------------------------
(* The day's snapshot. *)

\* Fault: reads where it should be told.
StartDayFromPrecompile(equity) ==
  /\ dayStartEquity' = core.perp
  /\ snapshotToday' = TRUE
  /\ UNCHANGED inWindow
StartDay(equity) ==
  /\ dayStartEquity' = equity
  /\ snapshotToday' = TRUE
  /\ UNCHANGED inWindow

Checkpoint ==
  /\ block = "evm"
  /\ inWindow /\ ~snapshotToday
  /\ StartDay(core.perp)

\* The clock of the day as a block begins: it stays in the day, or midnight
\* passes and the block comes inside the window or after it.
SameDay == inWindow' \in {inWindow, FALSE} /\ UNCHANGED <<dayStartEquity, snapshotToday>>
Midnight == inWindow' \in BOOLEAN /\ snapshotToday' = FALSE /\ UNCHANGED dayStartEquity

----------------------------------------------------------------------------
(* The stop and the settlement: what the calls send. *)

\* What a caller may name: orders to cancel and assets outside the rules.
CancelSets == {oids \in SUBSET Orders : Cardinality(oids) <= MaxCancels}
ExtraSets == SUBSET (Assets \ Listed)

CutAgent == agentKey' = "none"
\* Fault: leaves the agent.
CutForgotten == <<>>
CutActions == SetAgent("keyless")

Named(extra) == core.open \cap (Listed \cup extra)

\* _end and _endFunded: cut the agent, cancel, close.
StopActions(oids, extra) ==
  CutActions \o CancelOrders(oids) \o ClosePositions(Named(extra))

\* _drainStep: a position blocks the drain whether or not anybody named it.
Free == Withdrawable(core)
DrainActions(oids, extra) ==
  CancelOrders(oids) \o ClosePositions(Named(extra))
    \o (IF core.open = {} THEN ToSpot(Free) ELSE <<>>)
=============================================================================
