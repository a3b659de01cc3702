-------------------------------- MODULE Pool --------------------------------
(***************************************************************************)
(* An investor's capital, sold to one trader at a time: first a challenge    *)
(* on a slice of it, then, for a trader who passes, a funded stage on the    *)
(* pool's own HyperCore account (src/Pool.sol).                             *)
(*                                                                         *)
(* The challenge is seen through the calls it makes here (ChallengeAccount   *)
(* is its own module) and the registry through how many keys it has and      *)
(* whether one is bound to this pool (see KeyRegistry).                      *)
(***************************************************************************)
EXTENDS RuledAccount

CONSTANTS
  Price, Capital, FundedCapital, TraderShareFundedBps,   \* of _terms
  PayoutWait, AwaitKeyWindow,
  Arrivals,      \* amounts that arrive on spot at once: deposits, returned capital
  MaxSpot,       \* bound: spot is counted no further
  MaxEarned,     \* bound: sale prices held on HyperEVM
  Withdrawals,   \* amounts the owner takes off spot at once
  KeysRunOut,    \* whether the registry may be without a live key
  MaxMidnights   \* bound: UTC midnights while a trader is funded

ASSUME PoolAssumption ==
  /\ {Price, Capital, FundedCapital, TraderShareFundedBps} \subseteq Nat
  /\ {PayoutWait, AwaitKeyWindow, MaxSpot, MaxEarned, MaxMidnights} \subseteq Nat
  /\ Price > 0 /\ Capital > 0 /\ FundedCapital > 0 /\ TraderShareFundedBps <= BPS
  /\ Arrivals \subseteq Nat /\ Withdrawals \subseteq Nat /\ KeysRunOut \in BOOLEAN

VARIABLES
  stage,
  accountReady,
  challenge,     \* "none" is address(0), else what the challenge has done so far
  reservedKey,   \* reservedKey # address(0)
  keyBound,      \* the registry's keyOf(pool) # address(0)
  keySpoiled,    \* HyperCore: that key has an account of its own
  registry,      \* the free list: "live" keys on it, only "spoiled" ones, or "empty"
  heldPrice, earned,
  usdc,          \* HyperEVM USDC of this contract
  withdrewNow,   \* block.number = withdrewAtBlock
  passedAt,      \* age of the pass while it waits for a key
  fundedStart, breached,   \* breached: fundedEndReason # None
  funded,        \* the fields of the closing, named as in the source without "funded"
  closingFor,    \* age of the closing (of no variable of the code: for the properties)
  traderExists, received,  \* HyperCore: the trader's account, what has reached it in this closing
  midnights

saleVars == <<accountReady, challenge, heldPrice, earned, usdc, withdrewNow>>
keyVars == <<reservedKey, keyBound, keySpoiled, registry>>
fundedVars == <<fundedStart, breached, funded, closingFor>>
traderVars == <<traderExists, received>>
worldVars == <<traderVars, midnights>>
vars == <<block, core, flight, agentKey, dayStartEquity, snapshotToday, inWindow,
          stage, accountReady, challenge, reservedKey, keyBound, keySpoiled, registry,
          heldPrice, earned, usdc, withdrewNow, passedAt, fundedStart, breached,
          funded, closingFor, traderExists, received, midnights>>

Stages == {"Idle", "Challenge", "PassedAwaitingKey", "Funded", "Closing"}

Registries == IF KeysRunOut THEN {"live", "spoiled", "empty"} ELSE {"live"}

NoPayout == [taken |-> FALSE, owed |-> 0, sent |-> 0, done |-> FALSE, spotBefore |-> 0,
             at |-> Unset, shortAt |-> Unset, drain |-> "never"]

Init ==
  /\ block = "core" /\ core = NewAccount /\ flight = <<>>
  /\ agentKey = "none"
  /\ dayStartEquity = 0 /\ snapshotToday = FALSE /\ inWindow = FALSE
  /\ stage = "Idle" /\ accountReady = FALSE /\ challenge = "none"
  /\ reservedKey = FALSE /\ keyBound = FALSE /\ keySpoiled = FALSE
  /\ registry = "live"
  /\ heldPrice = 0 /\ earned = 0 /\ usdc = 0 /\ withdrewNow = FALSE
  /\ passedAt = Unset
  /\ fundedStart = 0 /\ breached = FALSE /\ funded = NoPayout /\ closingFor = Unset
  /\ traderExists \in BOOLEAN /\ received = 0
  /\ midnights = MaxMidnights

----------------------------------------------------------------------------
(* The investor. *)

PrepareAccount ==
  /\ core.exists /\ ~accountReady
  /\ Send(<<>>)
  /\ accountReady' = TRUE
  /\ UNCHANGED <<agentKey, dayVars, stage, challenge, keyVars, heldPrice, earned, usdc,
                 withdrewNow, passedAt, fundedVars, worldVars>>

WithdrawOnCore(amount) ==
  /\ stage = "Idle"
  /\ Send(SendUsdc("owner", amount))
  /\ withdrewNow' = TRUE
  /\ UNCHANGED <<agentKey, dayVars, stage, accountReady, challenge, heldPrice, earned, usdc,
                 keyVars, passedAt, fundedVars, worldVars>>

WithdrawEarned ==
  /\ Send(<<>>)
  /\ usdc' = usdc - earned /\ earned' = 0
  /\ UNCHANGED <<agentKey, dayVars, stage, accountReady, challenge, heldPrice, withdrewNow,
                 keyVars, passedAt, fundedVars, worldVars>>

----------------------------------------------------------------------------
(* Keys.  assign skips and retires spoiled entries on its way to a live one;  *)
(* how far it may skip is KeyRegistry's subject.                             *)

Assigned == registry = "live" /\ registry' \in Registries

\* A new key is bound to the pool, or the one it has is retired.
TakeKey == keyBound' = TRUE /\ keySpoiled' = FALSE
RetireKey == keyBound' = FALSE /\ keySpoiled' = FALSE

----------------------------------------------------------------------------
(* The challenge. *)

CapitalNeeded == (Capital + FundedCapital) * SpotPerPerp + NewAccountFee

\* The challenge's account takes one key and the pool another, which the
\* registry refuses while one is bound to it.
BuyChallenge ==
  /\ stage = "Idle" /\ accountReady
  /\ ~withdrewNow
  /\ challenge = "none"
  /\ core.spot >= CapitalNeeded
  /\ ~keyBound /\ Assigned /\ TakeKey
  /\ heldPrice + earned + Price <= MaxEarned
  /\ Send(SendUsdc("challenge", Capital * SpotPerPerp))
  /\ heldPrice' = Price /\ usdc' = usdc + Price
  /\ stage' = "Challenge" /\ challenge' = "created"
  /\ reservedKey' = TRUE
  /\ UNCHANGED <<agentKey, dayVars, accountReady, earned, withdrewNow, passedAt, fundedVars,
                 worldVars>>

\* Fault: the price is counted twice.
StartedKeepsPrice ==
  /\ earned' = earned + heldPrice
  /\ UNCHANGED <<heldPrice, usdc>>
OnChallengeStarted ==
  /\ earned' = earned + heldPrice
  /\ heldPrice' = 0
  /\ UNCHANGED usdc

OnChallengeAborted ==
  /\ usdc' = usdc - heldPrice
  /\ heldPrice' = 0
  /\ UNCHANGED earned

\* The challenge starts or is aborted (its Activate, Abort).
ChallengeStartsOrAborts ==
  /\ challenge = "created"
  /\ Send(<<>>)
  /\ \/ challenge' = "active" /\ OnChallengeStarted
     \/ challenge' = "stopped" /\ OnChallengeAborted
  /\ UNCHANGED <<agentKey, dayVars, stage, accountReady, withdrewNow, keyVars, passedAt,
                 fundedVars, worldVars>>

\* Its other ends are not told to the pool.
ChallengeStops ==
  /\ challenge = "active"
  /\ Send(<<>>)
  /\ challenge' = "stopped"
  /\ UNCHANGED <<agentKey, dayVars, stage, accountReady, heldPrice, earned, usdc, withdrewNow,
                 keyVars, passedAt, fundedVars, worldVars>>

OnChallengePassed ==
  /\ challenge = "active" /\ stage = "Challenge"
  /\ Send(<<>>)
  /\ challenge' = "passed"
  /\ stage' = "PassedAwaitingKey" /\ passedAt' = 0 /\ breached' = FALSE
  /\ UNCHANGED <<agentKey, dayVars, accountReady, heldPrice, earned, usdc, withdrewNow, keyVars,
                 fundedStart, funded, closingFor, worldVars>>

\* No challenge settles in the block it was sold in: its key was live then, so it
\* is not aborted, and capital it had from elsewhere does not leave within a block.
SoldInThisBlock == \E i \in DOMAIN flight : flight[i][1] = "send" /\ flight[i][3] = "challenge"

\* Fault: the reserved key stays bound.
SettledKeepsKey ==
  /\ challenge \in {"passed", "stopped"} /\ ~SoldInThisBlock
  /\ Send(<<>>)
  /\ challenge' = "none"
  /\ stage' = IF stage = "Challenge" THEN "Idle" ELSE stage
  /\ UNCHANGED <<agentKey, dayVars, accountReady, heldPrice, earned, usdc, withdrewNow, keyVars,
                 passedAt, fundedVars, worldVars>>
\* Nobody passed, so the reserved key was never used.
OnChallengeSettled ==
  /\ challenge \in {"passed", "stopped"} /\ ~SoldInThisBlock
  /\ Send(<<>>)
  /\ challenge' = "none"
  /\ IF stage = "Challenge"
     THEN /\ stage' = "Idle" /\ reservedKey' = FALSE
          /\ RetireKey /\ UNCHANGED registry
     ELSE UNCHANGED <<stage, keyVars>>
  /\ UNCHANGED <<agentKey, dayVars, accountReady, heldPrice, earned, usdc, withdrewNow,
                 passedAt, fundedVars, worldVars>>

----------------------------------------------------------------------------
(* The funded stage opens, or the wait for a key is given up. *)

ReservedKeyWorks == reservedKey /\ ~keySpoiled

\* The stage is opened on what spot holds, up to the terms; the key is the
\* reserved one, or a fresh one if that was spoiled.
OpenFundedStage ==
  LET spot == core.spot \div SpotPerPerp
      fund == IF spot < FundedCapital THEN spot ELSE FundedCapital
  IN /\ stage = "PassedAwaitingKey"
     /\ \/ ReservedKeyWorks /\ UNCHANGED <<keyBound, keySpoiled, registry>>
        \/ ~ReservedKeyWorks /\ Assigned /\ TakeKey
     /\ reservedKey' = FALSE
     /\ stage' = "Funded" /\ passedAt' = Unset
     /\ agentKey' = "trader"
     /\ Send(SetAgent("trader") \o ToPerp(fund))
     /\ fundedStart' = core.perp + fund
     /\ StartDay(core.perp + fund)
     /\ UNCHANGED <<saleVars, breached, funded, closingFor, worldVars>>

\* Fault: does not look at the free list.
AbandonUncounted ==
  /\ stage = "PassedAwaitingKey" /\ passedAt > AwaitKeyWindow
  /\ ~ReservedKeyWorks
  /\ stage' = "Idle" /\ passedAt' = Unset /\ breached' = FALSE
  /\ reservedKey' = FALSE /\ RetireKey
  /\ Send(<<>>)
  /\ UNCHANGED <<agentKey, dayVars, saleVars, registry, fundedStart, funded, closingFor, worldVars>>
AbandonFundedStage ==
  /\ stage = "PassedAwaitingKey" /\ passedAt > AwaitKeyWindow
  /\ ~ReservedKeyWorks /\ registry = "empty"
  /\ stage' = "Idle" /\ passedAt' = Unset /\ breached' = FALSE
  /\ reservedKey' = FALSE /\ RetireKey
  /\ Send(<<>>)
  /\ UNCHANGED <<agentKey, dayVars, saleVars, registry, fundedStart, funded, closingFor, worldVars>>

----------------------------------------------------------------------------
(* While the trader is funded. *)

TakeCheckpoint ==
  /\ stage = "Funded"
  /\ Checkpoint
  /\ UNCHANGED <<coreVars, agentKey, stage, saleVars, keyVars, passedAt, fundedVars, worldVars>>

\* _endFunded: the agent's key is retired with the cut.
EndFunded(reason, oids, extra) ==
  /\ stage = "Funded"
  /\ stage' = "Closing" /\ breached' = reason /\ closingFor' = 0
  /\ Send(StopActions(oids, extra))
  /\ CutAgent /\ RetireKey
  /\ UNCHANGED <<dayVars, saleVars, reservedKey, registry, passedAt, fundedStart, funded, worldVars>>

BreachFunded(oids, extra) == Violation(fundedStart, extra) /\ EndFunded(TRUE, oids, extra)
StopFunded(oids, extra) == EndFunded(FALSE, oids, extra)

\* A recut that would only replace one keyless address by another is left out.
Recut ==
  /\ stage = "Closing" /\ core.agent = "trader" /\ ~InFlight("agent")
  /\ Send(CutActions)
  /\ CutAgent
  /\ UNCHANGED <<dayVars, stage, saleVars, keyVars, passedAt, fundedVars, worldVars>>

----------------------------------------------------------------------------
(* Closing.  A step drains first and then goes as far as it can; each of the  *)
(* following is how it ends, with the record p it leaves behind.             *)

EndStep(actions, p) ==
  /\ Send(actions)
  /\ funded' = p
  /\ UNCHANGED <<agentKey, dayVars, stage, saleVars, keyVars, passedAt, fundedStart, breached,
                 closingFor, worldVars>>

\* Everything is forgotten but since when a share was short.
Forgotten(p) == [NoPayout EXCEPT !.shortAt = p.shortAt]

BackToIdle(actions, p) ==
  /\ Send(actions)
  /\ stage' = "Idle" /\ fundedStart' = 0 /\ funded' = Forgotten(p) /\ closingFor' = Unset
  /\ received' = 0
  /\ UNCHANGED <<agentKey, dayVars, saleVars, keyVars, passedAt, breached, traderExists, midnights>>

FundedShare ==
  IF ~breached /\ core.perp > fundedStart
  THEN ((core.perp - fundedStart) * TraderShareFundedBps * SpotPerPerp) \div BPS
  ELSE 0

PayoutPending(p) ==
  p.sent # 0 /\ core.spot + p.sent > p.spotBefore /\ p.at <= PayoutWait

\* Fault: closes over a margin.
CloseUnchecked(drain, p) ==
  IF ~PayoutPending(p) THEN BackToIdle(drain, p) ELSE EndStep(drain, p)
Close(drain, p) ==
  IF ~PayoutPending(p) /\ NothingHeldOnPerp THEN BackToIdle(drain, p) ELSE EndStep(drain, p)

Pay(drain, p) ==
  LET pay == SendableTo(traderExists, IF core.spot < p.owed THEN core.spot ELSE p.owed)
      paid == [taken |-> p.taken, owed |-> p.owed, sent |-> pay, done |-> TRUE,
               spotBefore |-> core.spot, at |-> 0, shortAt |-> p.shortAt, drain |-> p.drain]
  IN IF pay # 0 THEN EndStep(drain \o SendUsdc("trader", pay), paid) ELSE Close(drain, paid)

\* Fault: money crossing is not waited for.
PayWhatIsThere(drain, p) == IF core.spot = 0 THEN EndStep(drain, p) ELSE Pay(drain, p)
\* A share that spot does not cover waits while money is crossing, on a clock
\* of its own.
PayWhenCovered(drain, p) ==
  LET short == core.spot < p.owed /\ Free # 0
      q == IF short /\ p.shortAt = Unset THEN [p EXCEPT !.shortAt = 0] ELSE p
      mustWait == short /\ q.shortAt <= PayoutWait
  IN IF mustWait \/ core.spot = 0 THEN EndStep(drain, q) ELSE Pay(drain, q)

\* Fault: every new unit is waited for.
DrainAlways(p) == Free # 0
FirstDrain(p) == Free # 0 /\ p.drain = "never"
DrainedNow(p) == p.drain = "now"

SettleFunded(oids, extra) ==
  LET drain == DrainActions(oids, extra)
      p == IF funded.taken THEN funded ELSE [funded EXCEPT !.taken = TRUE, !.owed = FundedShare]
      owing == p.owed # 0 /\ ~p.done
  IN /\ stage = "Closing"
     /\ \/ core.open # {} /\ EndStep(drain, funded)
        \/ /\ core.open = {}
           /\ \/ FirstDrain(p) /\ EndStep(drain, [p EXCEPT !.drain = "now"])
              \/ ~FirstDrain(p) /\ DrainedNow(p) /\ EndStep(drain, p)
              \/ /\ ~FirstDrain(p) /\ ~DrainedNow(p)
                 /\ \/ owing /\ ~NothingHeldOnPerp /\ EndStep(drain, [p EXCEPT !.shortAt = Unset])
                    \/ owing /\ NothingHeldOnPerp /\ PayWhenCovered(drain, p)
                    \/ ~owing /\ Close(drain, p)

----------------------------------------------------------------------------
(* HyperCore, the registry's other users and the clock. *)

contractVars == <<agentKey, stage, saleVars, keyVars, passedAt, fundedVars>>

EndBlock ==
  /\ block = "evm"
  /\ block' = "core"
  /\ UNCHANGED <<core, flight, dayVars, contractVars, worldVars>>

BeginBlock(ticks) ==
  /\ block = "core" /\ AllLanded
  /\ block' = "evm"
  /\ withdrewNow' = FALSE
  /\ LET Aged(age, wait) == IF ticks THEN Older(age, wait) ELSE age IN
     /\ passedAt' = Aged(passedAt, AwaitKeyWindow)
     /\ closingFor' = Aged(closingFor, PayoutWait)
     /\ funded' = [funded EXCEPT !.at = Aged(@, PayoutWait), !.shortAt = Aged(@, PayoutWait),
                                 !.drain = IF @ = "now" THEN "past" ELSE @]
  /\ \/ SameDay /\ UNCHANGED midnights
     \/ stage = "Funded" /\ midnights > 0 /\ Midnight /\ midnights' = midnights - 1
  /\ UNCHANGED <<core, flight, agentKey, stage, accountReady, challenge, heldPrice, earned, usdc,
                 keyVars, fundedStart, breached, traderVars>>

\* Whether the recipient of a transfer has an account: a challenge is always new.
RecipientExists(to) == to = "owner" \/ (to = "trader" /\ traderExists)

Counted(c) == [c EXCEPT !.spot = IF @ > MaxSpot THEN MaxSpot ELSE @]

Land ==
  /\ block = "core"
  /\ \E i \in DOMAIN flight :
       LET a == flight[i]
           reached == a[1] # "send" \/ RecipientExists(a[3])
       IN /\ MayLand(i)
          /\ flight' = Without(i)
          /\ core' \in {Counted(c) : c \in Landed(core, a, reached, keySpoiled)}
          /\ IF a[1] = "send" /\ a[3] = "trader" /\ core'.spot < core.spot
             THEN received' = received + a[2] /\ traderExists' = TRUE
             ELSE UNCHANGED traderVars
  /\ UNCHANGED <<block, dayVars, contractVars, midnights>>

AccountChanges(accounts) ==
  /\ block = "core"
  /\ core' \in accounts
  /\ UNCHANGED <<block, flight, dayVars, contractVars, worldVars>>

Trade == AccountChanges(Traded(core))
Move == AccountChanges(Moved(core))
Donate == AccountChanges({Counted(c) : c \in Donated(core)} \ {core})

\* The owner's deposits and what challenges return.
Arrive ==
  AccountChanges({[core EXCEPT !.exists = TRUE, !.spot = @ + n] :
                    n \in {m \in Arrivals : core.spot + m <= MaxSpot}})

\* A stranger gives the bound key, a listed key or the trader an account.
AddressAppears ==
  /\ block = "core"
  /\ \/ keyBound /\ ~keySpoiled /\ keySpoiled' = TRUE /\ UNCHANGED <<registry, traderExists>>
     \/ registry = "live" /\ registry' \in Registries \cap {"spoiled"}
        /\ UNCHANGED <<keySpoiled, traderExists>>
     \/ ~traderExists /\ traderExists' = TRUE /\ UNCHANGED <<keySpoiled, registry>>
  /\ UNCHANGED <<block, core, flight, dayVars, agentKey, stage, saleVars, reservedKey, keyBound,
                 passedAt, fundedVars, received, midnights>>

\* Keys are published, sold to other pools, and purged (KeyRegistry).
RegistryChanges(from, to) ==
  /\ registry = from /\ registry' \in Registries \cap to /\ registry' # registry
  /\ Send(<<>>)
  /\ UNCHANGED <<agentKey, dayVars, stage, saleVars, reservedKey, keyBound, keySpoiled, passedAt,
                 fundedVars, worldVars>>

PurgeSpoiled == RegistryChanges("spoiled", {"empty"})
RegistryMoves ==
  \/ \E from \in {"spoiled", "empty"} : RegistryChanges(from, {"live"})
  \/ RegistryChanges("live", {"spoiled", "empty"})
  \/ PurgeSpoiled

----------------------------------------------------------------------------

Call ==
  \/ PrepareAccount
  \/ \E amount \in Withdrawals : WithdrawOnCore(amount)
  \/ WithdrawEarned
  \/ BuyChallenge
  \/ ChallengeStartsOrAborts
  \/ ChallengeStops
  \/ OnChallengePassed
  \/ OnChallengeSettled
  \/ OpenFundedStage
  \/ AbandonFundedStage
  \/ TakeCheckpoint
  \/ \E oids \in CancelSets, extra \in ExtraSets :
       \/ BreachFunded(oids, extra)
       \/ StopFunded(oids, extra)
       \/ SettleFunded(oids, extra)
  \/ Recut

World == Trade \/ Move \/ Donate \/ Arrive \/ AddressAppears \/ RegistryMoves

Next == Call \/ EndBlock \/ (\E ticks \in BOOLEAN : BeginBlock(ticks)) \/ Land \/ World

Spec == Init /\ [][Next]_vars

KeeperNames(oids) ==
  /\ oids \in CancelSets /\ oids \subseteq core.orders
  /\ oids = core.orders \/ Cardinality(oids) = MaxCancels

\* The keeper's pass over a pool (ops/keeper.py pool_pass) opens the funded stage
\* and settles it, naming what the info API shows.
KeeperPass ==
  \/ OpenFundedStage
  \/ \E oids \in CancelSets : KeeperNames(oids) /\ SettleFunded(oids, Assets \ Listed)

BlockStep == EndBlock \/ Land \/ \E ticks \in BOOLEAN : BeginBlock(ticks)
CloseFills == Land /\ core.open # {} /\ core'.open = {}
CutLands == Land /\ core'.agent = "keyless"

\* As in ChallengeAccount.
Fairness ==
  /\ WF_vars(BlockStep) /\ SF_vars(BeginBlock(TRUE))
  /\ SF_vars(KeeperPass) /\ SF_vars(Recut)
  /\ SF_vars(CloseFills) /\ SF_vars(CutLands)

FairSpec == Spec /\ Fairness

----------------------------------------------------------------------------
(* Properties. *)

Pays == ~funded.done /\ funded'.done
Closes == stage = "Closing" /\ stage' = "Idle"

\* The price of a sale is in one place only, whichever way the challenge goes: it
\* is held until the start, and the owner can never take a buyer's refund
\* (buyChallenge, onChallengeStarted, onChallengeAborted, withdrawEarned).
PricesAccounted ==
  /\ usdc = heldPrice + earned
  /\ heldPrice # 0 <=> challenge = "created"

\* A pool that is free to sell holds no key: one left bound would make the registry
\* refuse the next sale, for ever, and one that is bound is either the reserved key
\* or the agent's (buyChallenge, openFundedStage, abandonFundedStage,
\* onChallengeSettled, _cutAgent).
KeysAccounted ==
  /\ keyBound <=> (reservedKey \/ agentKey # "none")
  /\ stage = "Idle" => ~keyBound

\* What is sent to a challenge or to the trader is there when it lands: nothing
\* that the same block sent elsewhere before it comes first (audit A-08).
SentMoneyIsThere ==
  \A i \in DOMAIN flight :
    flight[i][1] = "send" /\ flight[i][3] \in {"challenge", "trader"} =>
      /\ core.spot >= SendCost(RecipientExists(flight[i][3]), flight[i][2])
      /\ \A j \in 1..(i - 1) : flight[j][1] # "send"

\* A share is cut short only by a pool that really holds less, or after the wait
\* for what was crossing (audits A-04, A-11 and A-12).
ShortOnlyIfAllThere ==
  [][Pays => \/ core.spot >= funded'.owed
             \/ core.perp = 0
             \/ funded.shortAt > PayoutWait]_vars

\* When the pool is free again the trader has what was sent, once, unless the
\* payout had its whole wait; no position or order is left and the perp side is
\* empty or on its way to spot.
ClosedMeansDone ==
  [][Closes =>
       /\ received = funded.sent \/ funded.at > PayoutWait
       /\ core.open = {} /\ core.orders = {}
       /\ core.perp = 0 \/ InFlight("toSpot")']_vars

\* No one but the trader's stop frees a pool whose trader passed while a key is to
\* be had, in the pool or in the registry (abandonFundedStage).
PassNotDropped ==
  [][stage = "PassedAwaitingKey" /\ stage' = "Idle" =>
       registry # "live" /\ ~(keyBound /\ ~keySpoiled) /\ passedAt > AwaitKeyWindow]_vars

\* A funded trader is out when the stage is over, before the pool is sold again.
TraderIsOut ==
  stage # "Funded" /\ core.agent = "trader" => InFlight("agent")

\* The investor's capital comes back: whatever dust strangers send and however the
\* trader's orders rest, the stage closes, unless a share is owed by an account
\* with nothing left.
Emptied == funded.owed # 0 /\ ~funded.done /\ core.spot = 0 /\ core.perp = 0
ClosesOrEmptied == stage = "Closing" ~> (stage = "Idle" \/ Emptied)

\* Pool.sol:452 says a short share waits for what is crossing on a clock of its
\* own.  The clock of a stage that closed is still running in the next one, so a
\* share can be paid short, with its margin still crossing, without the wait.
ShortWaitServed ==
  [][Pays => \/ core.spot >= funded'.owed
             \/ core.perp = 0
             \/ closingFor > PayoutWait]_vars
=============================================================================
