----------------------------- MODULE PoolProofs -----------------------------
(***************************************************************************)
(* What holds of a pool for every price, capital, wait, bound and set of     *)
(* assets and orders: where the price of a sale is, which key is bound, that  *)
(* the trader's key does not outlive its stage, and that the money a pool     *)
(* sends is there.                                                          *)
(*                                                                         *)
(* KeysAccounted is not inductive.  That a pool is left without a key when   *)
(* its challenge settles, or when it stops waiting for one, needs to know    *)
(* that a pool in those stages has a reserved key and no agent; KeyStages    *)
(* says for each stage which of the two the pool has.                       *)
(*                                                                         *)
(* SentMoneyIsThere is about what is in flight, and so about what the calls   *)
(* of one block have sent between them: MoneyInv says which calls that can   *)
(* have been (ThisBlock), what each transfer leaves on spot (MoneyThere), how *)
(* the closing's records follow its one payment (SharePaid), and that a       *)
(* closing starts with none (Fresh).                                        *)
(***************************************************************************)
EXTENDS Pool, CoreProofs

\* PricesAccounted with the types its arithmetic needs.
PriceInv ==
  /\ heldPrice \in Nat /\ earned \in Nat
  /\ PricesAccounted

ReservedStages == {"Challenge", "PassedAwaitingKey"}

KeyStages ==
  /\ stage \in Stages
  /\ agentKey \in {"none", "trader"}
  /\ keyBound \in BOOLEAN /\ reservedKey \in BOOLEAN
  /\ reservedKey <=> stage \in ReservedStages
  /\ agentKey = "trader" <=> stage = "Funded"
  /\ keyBound <=> (reservedKey \/ agentKey # "none")

LEMMA InitPriceInv == Init => PriceInv
BY DEF Init, PriceInv, PricesAccounted

(* Only four calls touch the money on HyperEVM.                             *)
LEMMA PriceKept ==
  ASSUME PriceInv, UNCHANGED <<heldPrice, earned, usdc>>,
         challenge' = challenge \/ (challenge # "created" /\ challenge' # "created")
  PROVE  PriceInv'
BY DEF PriceInv, PricesAccounted

LEMMA NextPriceInv == PriceInv /\ [Next]_vars => PriceInv'
<1> SUFFICES ASSUME PriceInv, [Next]_vars PROVE PriceInv'
  OBVIOUS
<1>1. CASE BuyChallenge
  <2>1. heldPrice = 0
    BY <1>1 DEF BuyChallenge, PriceInv, PricesAccounted
  <2> QED BY <1>1, <2>1, PoolAssumption DEF BuyChallenge, PriceInv, PricesAccounted
<1>2. CASE ChallengeStartsOrAborts
  <2>1. CASE challenge' = "active" /\ OnChallengeStarted
    BY <2>1 DEF OnChallengeStarted, ChallengeStartsOrAborts, PriceInv, PricesAccounted
  <2>2. CASE challenge' = "stopped" /\ OnChallengeAborted
    BY <2>2 DEF OnChallengeAborted, ChallengeStartsOrAborts, PriceInv, PricesAccounted
  <2>3. (challenge' = "active" /\ OnChallengeStarted)
          \/ (challenge' = "stopped" /\ OnChallengeAborted)
    BY <1>2 DEF ChallengeStartsOrAborts
  <2> QED BY <2>1, <2>2, <2>3
<1>3. CASE WithdrawEarned
  BY <1>3 DEF WithdrawEarned, PriceInv, PricesAccounted
<1>4. CASE ChallengeStops \/ OnChallengePassed \/ OnChallengeSettled
  BY <1>4, PriceKept DEF ChallengeStops, OnChallengePassed, OnChallengeSettled
<1>5. CASE PrepareAccount \/ (\E amount \in Withdrawals : WithdrawOnCore(amount))
           \/ OpenFundedStage \/ AbandonFundedStage \/ TakeCheckpoint \/ Recut
  BY <1>5, PriceKept
  DEF PrepareAccount, WithdrawOnCore, OpenFundedStage, AbandonFundedStage, TakeCheckpoint,
      Recut, saleVars
<1>6. ASSUME NEW oids \in CancelSets, NEW extra \in ExtraSets,
             BreachFunded(oids, extra) \/ StopFunded(oids, extra)
      PROVE  PriceInv'
  BY <1>6, PriceKept DEF BreachFunded, StopFunded, EndFunded, saleVars
<1>7. ASSUME NEW oids \in CancelSets, NEW extra \in ExtraSets, SettleFunded(oids, extra)
      PROVE  PriceInv'
  BY <1>7, PriceKept
  DEF SettleFunded, PayWhenCovered, Pay, Close, EndStep, BackToIdle, saleVars
<1>8. CASE EndBlock \/ Land \/ (\E ticks \in BOOLEAN : BeginBlock(ticks))
  BY <1>8, PriceKept DEF EndBlock, Land, BeginBlock, contractVars, saleVars
<1>9. CASE World
  BY <1>9, PriceKept
  DEF World, Trade, Move, Donate, Arrive, AccountChanges, AddressAppears, RegistryMoves,
      RegistryChanges, PurgeSpoiled, contractVars, saleVars
<1>10. CASE UNCHANGED vars
  BY <1>10, PriceKept DEF vars
<1> QED
  BY <1>1, <1>2, <1>3, <1>4, <1>5, <1>6, <1>7, <1>8, <1>9, <1>10 DEF Next, Call

(* The buyer's refund is never the owner's to take: what the contract holds  *)
(* is the price of the challenge that has not started and the prices of      *)
(* those that have (buyChallenge, the callbacks, withdrawEarned).            *)
THEOREM PricesAlwaysAccounted == Spec => []PricesAccounted
<1>1. PriceInv => PricesAccounted
  BY DEF PriceInv
<1> QED BY InitPriceInv, NextPriceInv, <1>1, PTL DEF Spec

LEMMA InitKeyStages == Init => KeyStages
BY DEF Init, KeyStages, Stages, ReservedStages

LEMMA KeysKept ==
  ASSUME KeyStages, UNCHANGED <<stage, agentKey, keyBound, reservedKey>>
  PROVE  KeyStages'
BY DEF KeyStages

LEMMA NextKeyStages == KeyStages /\ [Next]_vars => KeyStages'
<1> SUFFICES ASSUME KeyStages, [Next]_vars PROVE KeyStages'
  OBVIOUS
<1> USE DEF Stages, ReservedStages
<1>1. CASE BuyChallenge
  BY <1>1 DEF BuyChallenge, TakeKey, KeyStages
<1>2. CASE OnChallengePassed
  BY <1>2 DEF OnChallengePassed, keyVars, KeyStages
<1>3. CASE OnChallengeSettled
  <2>1. CASE stage = "Challenge"
    BY <1>3, <2>1 DEF OnChallengeSettled, RetireKey, KeyStages
  <2>2. CASE stage # "Challenge"
    BY <1>3, <2>2, KeysKept DEF OnChallengeSettled, keyVars
  <2> QED BY <2>1, <2>2
<1>4. CASE OpenFundedStage
  <2>1. stage = "PassedAwaitingKey" /\ stage' = "Funded" /\ agentKey' = "trader" /\ reservedKey' = FALSE
    BY <1>4 DEF OpenFundedStage
  <2>2. keyBound' = TRUE
    <3>1. CASE ReservedKeyWorks
      <4>1. keyBound' = keyBound /\ reservedKey
        BY <1>4, <3>1 DEF OpenFundedStage, ReservedKeyWorks
      <4> QED BY <4>1 DEF KeyStages
    <3>2. CASE ~ReservedKeyWorks
      BY <1>4, <3>2 DEF OpenFundedStage, TakeKey
    <3> QED BY <3>1, <3>2
  <2> QED BY <2>1, <2>2 DEF KeyStages
<1>5. CASE AbandonFundedStage
  BY <1>5 DEF AbandonFundedStage, RetireKey, KeyStages
<1>6. ASSUME NEW oids \in CancelSets, NEW extra \in ExtraSets,
             BreachFunded(oids, extra) \/ StopFunded(oids, extra)
      PROVE  KeyStages'
  <2>1. /\ stage = "Funded" /\ stage' = "Closing"
        /\ agentKey' = "none" /\ keyBound' = FALSE /\ reservedKey' = reservedKey
    BY <1>6 DEF BreachFunded, StopFunded, EndFunded, CutAgent, RetireKey
  <2> QED BY <2>1 DEF KeyStages
<1>7. CASE Recut
  BY <1>7 DEF Recut, CutAgent, keyVars, KeyStages
<1>8. ASSUME NEW actions, NEW p, stage = "Closing", EndStep(actions, p) \/ BackToIdle(actions, p)
      PROVE  KeyStages'
  BY <1>8 DEF EndStep, BackToIdle, keyVars, KeyStages
<1>9. ASSUME NEW oids \in CancelSets, NEW extra \in ExtraSets, SettleFunded(oids, extra)
      PROVE  KeyStages'
  <2>1. stage = "Closing"
    BY <1>9 DEF SettleFunded
  <2>2. \E actions, p : EndStep(actions, p) \/ BackToIdle(actions, p)
    BY <1>9 DEF SettleFunded, PayWhenCovered, Pay, Close
  <2> QED BY <1>8, <2>1, <2>2
<1>10. CASE ChallengeStartsOrAborts \/ ChallengeStops \/ PrepareAccount \/ WithdrawEarned
            \/ TakeCheckpoint \/ (\E amount \in Withdrawals : WithdrawOnCore(amount))
  BY <1>10, KeysKept
  DEF ChallengeStartsOrAborts, ChallengeStops, PrepareAccount, WithdrawEarned, TakeCheckpoint,
      WithdrawOnCore, keyVars
<1>11. CASE EndBlock \/ Land \/ (\E ticks \in BOOLEAN : BeginBlock(ticks))
  BY <1>11, KeysKept DEF EndBlock, Land, BeginBlock, contractVars, keyVars
<1>12. CASE World
  BY <1>12, KeysKept
  DEF World, Trade, Move, Donate, Arrive, AccountChanges, AddressAppears, RegistryMoves,
      RegistryChanges, PurgeSpoiled, contractVars, keyVars
<1>13. CASE UNCHANGED vars
  BY <1>13, KeysKept DEF vars
<1> QED
  BY <1>1, <1>2, <1>3, <1>4, <1>5, <1>6, <1>7, <1>9, <1>10, <1>11, <1>12, <1>13 DEF Next, Call

(* A pool that can be sold has no key bound, so the registry never refuses   *)
(* the sale, and a key that is bound is the reserved or the agent's one, in  *)
(* every order of sales, passes, waits, stops and settlements.               *)
THEOREM KeysAlwaysAccounted == Spec => []KeysAccounted
<1>1. KeyStages => KeysAccounted
  BY DEF KeyStages, KeysAccounted, ReservedStages
<1> QED BY InitKeyStages, NextKeyStages, <1>1, PTL DEF Spec

----------------------------------------------------------------------------
(* A trader who passed is not dropped while there is a key for it.            *)

\* Only giving up the wait for a key frees a pool that waits for one, and that looks for one
\* in the pool and in the registry first (abandonFundedStage).
THEOREM PassNeverDropped == Spec => PassNotDropped
<1>1. KeyStages /\ [Next]_vars =>
        [stage = "PassedAwaitingKey" /\ stage' = "Idle" =>
           registry # "live" /\ ~(keyBound /\ ~keySpoiled) /\ passedAt > AwaitKeyWindow]_vars
  <2> SUFFICES ASSUME KeyStages, Next, stage = "PassedAwaitingKey", stage' = "Idle"
               PROVE  registry # "live" /\ ~(keyBound /\ ~keySpoiled) /\ passedAt > AwaitKeyWindow
    OBVIOUS
  <2>1. AbandonFundedStage
    <3>1. \A oids \in CancelSets, extra \in ExtraSets :
            ~BreachFunded(oids, extra) /\ ~StopFunded(oids, extra) /\ ~SettleFunded(oids, extra)
      BY DEF BreachFunded, StopFunded, EndFunded, SettleFunded
    <3>2. ~World /\ ~Land /\ ~EndBlock /\ \A ticks \in BOOLEAN : ~BeginBlock(ticks)
      BY DEF World, Trade, Move, Donate, Arrive, AccountChanges, AddressAppears, RegistryMoves,
         RegistryChanges, PurgeSpoiled, contractVars, Land, EndBlock, BeginBlock
    <3>3. /\ ~PrepareAccount /\ ~WithdrawEarned /\ ~BuyChallenge /\ ~ChallengeStartsOrAborts /\ ~ChallengeStops
          /\ ~OnChallengePassed /\ ~OnChallengeSettled /\ ~OpenFundedStage /\ ~TakeCheckpoint /\ ~Recut
          /\ \A amount \in Withdrawals : ~WithdrawOnCore(amount)
      BY DEF PrepareAccount, WithdrawEarned, BuyChallenge, ChallengeStartsOrAborts, ChallengeStops,
         OnChallengePassed, OnChallengeSettled, OpenFundedStage, TakeCheckpoint, Recut, WithdrawOnCore
    <3> QED BY <3>1, <3>2, <3>3 DEF Next, Call
  <2>2. keyBound => reservedKey
    BY DEF KeyStages, ReservedStages
  <2> QED BY <2>1, <2>2 DEF AbandonFundedStage, ReservedKeyWorks
<1> QED BY <1>1, InitKeyStages, NextKeyStages, PTL DEF Spec, PassNotDropped

----------------------------------------------------------------------------
(* Types, and how a closing step ends.                                       *)

Closings == [taken : BOOLEAN, owed : Nat, sent : Nat, done : BOOLEAN, spotBefore : Nat,
             at : Int, shortAt : Int, drain : {"never", "now", "past"}]

TypeInv ==
  /\ CoreTypes /\ core.spot <= MaxSpot
  /\ stage \in Stages
  /\ fundedStart \in Nat /\ funded \in Closings
  /\ traderExists \in BOOLEAN

\* What a closing step takes out of the pool's account.
ShareNow == IF funded.taken THEN funded.owed ELSE FundedShare

\* The record of the closing but for its clocks, with its share taken or not.
SameShare(p) ==
  /\ p \in Closings
  /\ p.sent = funded.sent /\ p.done = funded.done /\ p.spotBefore = funded.spotBefore /\ p.at = funded.at
  /\ p.owed \in {funded.owed, ShareNow}

\* It drains and waits,
Waits ==
  /\ \E s \in Seq(Drains) : Send(s)
  /\ SameShare(funded') /\ stage' = stage
  /\ UNCHANGED <<agentKey, saleVars, keyVars, fundedStart, worldVars>>
\* or pays the share,
PaysOut ==
  /\ \E s \in Seq(Drains) : Send(s \o SendUsdc("trader", funded'.sent))
  /\ funded' \in Closings /\ funded'.sent # 0 /\ SendCost(traderExists, funded'.sent) <= core.spot
  /\ funded'.done /\ funded'.spotBefore = core.spot /\ funded'.at = 0
  /\ ~funded.done /\ ShareNow # 0
  /\ stage' = stage
  /\ UNCHANGED <<agentKey, saleVars, keyVars, fundedStart, worldVars>>
\* or frees the pool.
Frees ==
  /\ \E s \in Seq(Drains) :
       /\ Send(s)
       /\ Free # 0 => \E i \in DOMAIN s : s[i][1] = "toSpot"
  /\ ~PayoutPending(funded) \/ ~funded.done
  /\ core.open = {} /\ NothingHeldOnPerp
  /\ stage' = "Idle" /\ fundedStart' = 0 /\ funded' \in Closings /\ received' = 0
  /\ ~funded'.taken /\ funded'.owed = 0 /\ funded'.sent = 0 /\ ~funded'.done
  /\ UNCHANGED <<agentKey, saleVars, keyVars, traderExists, midnights>>

LEMMA ShareType == ASSUME TypeInv PROVE FundedShare \in Nat /\ ShareNow \in Nat
<1>1. BPS \in Nat /\ BPS > 0 /\ core.perp \in Nat /\ fundedStart \in Nat /\ funded.owed \in Nat
  BY RulesAssumption DEF TypeInv, CoreTypes, Accounts, Closings
<1>2. \A n, m \in Nat : m > 0 => n \div m \in Nat
  OBVIOUS
<1>3. \A a, b, c \in Nat : a * b * c \in Nat
  OBVIOUS
<1>4. core.perp > fundedStart => core.perp - fundedStart \in Nat
  BY <1>1
<1>5. core.perp > fundedStart => (core.perp - fundedStart) * TraderShareFundedBps * SpotPerPerp \in Nat
  BY <1>3, <1>4, PoolAssumption, UnitsAssumption
<1>6. FundedShare \in Nat
  BY <1>1, <1>2, <1>5 DEF FundedShare
<1> QED BY <1>1, <1>6 DEF ShareNow

\* Draining an account without a position sends home what is withdrawable.
LEMMA DrainSendsHome ==
  ASSUME TypeInv, NEW oids \in CancelSets, NEW extra \in ExtraSets, core.open = {}, Free # 0
  PROVE  \E i \in DOMAIN DrainActions(oids, extra) : DrainActions(oids, extra)[i][1] = "toSpot"
<1> DEFINE a == CancelOrders(oids) \o ClosePositions(Named(extra))
           home == <<"toSpot", Free>>
<1>1. oids \in SUBSET Orders /\ Named(extra) \in SUBSET Assets /\ Free \in Nat
  BY WithdrawableType DEF CancelSets, Named, Free, TypeInv, CoreTypes, Accounts
<1>2. /\ CancelOrders(oids) \in Seq(Drains) /\ ClosePositions(Named(extra)) \in Seq(Drains)
      /\ home \in Drains /\ ToSpot(Free) = <<home>>
  <2>1. <<"cancel", oids>> \in Drains /\ <<"close", Named(extra)>> \in Drains /\ home \in Drains
    BY <1>1 DEF Drains, Stops
  <2> QED BY <2>1, Singles DEF CancelOrders, ClosePositions, ToSpot
<1>3. a \in Seq(Drains) /\ DrainActions(oids, extra) = a \o <<home>>
  BY <1>2, ConcatProperties DEF DrainActions
<1> HIDE DEF a, home
<1>4. /\ a \o <<home>> \in Seq(Drains) /\ Len(a \o <<home>>) = Len(a) + 1 /\ Len(a) \in Nat
      /\ (a \o <<home>>)[Len(a) + 1] = home
  <2>1. <<home>> \in Seq(Drains) /\ Len(<<home>>) = 1 /\ <<home>>[1] = home
    BY <1>2
  <2>2. Len(a) \in Nat
    BY <1>3, LenProperties
  <2>3. /\ a \o <<home>> \in Seq(Drains) /\ Len(a \o <<home>>) = Len(a) + Len(<<home>>)
        /\ \A i \in 1..Len(a) + Len(<<home>>) :
             (a \o <<home>>)[i] = IF i <= Len(a) THEN a[i] ELSE <<home>>[i - Len(a)]
    BY <1>3, <2>1, ConcatProperties
  <2>4. Len(a) + 1 \in 1..Len(a) + 1 /\ ~(Len(a) + 1 <= Len(a)) /\ (Len(a) + 1) - Len(a) = 1
    BY <2>2
  <2> QED BY <2>1, <2>2, <2>3, <2>4
<1>5. Len(a) + 1 \in DOMAIN (a \o <<home>>)
  BY <1>4, LenProperties
<1> QED BY <1>3, <1>4, <1>5 DEF home

LEMMA FreesIs ==
  ASSUME TypeInv, NEW s \in Seq(Drains), Free # 0 => \E i \in DOMAIN s : s[i][1] = "toSpot", core.open = {},
         ~PayoutPending(funded) \/ ~funded.done, NothingHeldOnPerp, NEW p \in Closings, BackToIdle(s, p)
  PROVE  Frees
<1>0. p.shortAt \in Int
  BY DEF Closings
<1>1. Forgotten(p) \in Closings
  <2>1. NoPayout \in Closings
    BY DEF NoPayout, Closings, Unset
  <2> QED BY <1>0, <2>1 DEF Forgotten, Closings
<1>2. ~Forgotten(p).taken /\ Forgotten(p).owed = 0 /\ Forgotten(p).sent = 0 /\ ~Forgotten(p).done
  BY DEF Forgotten, NoPayout
<1> QED BY <1>1, <1>2 DEF BackToIdle, Frees

LEMMA PayEnds ==
  ASSUME TypeInv, NEW s \in Seq(Drains), Free # 0 => \E i \in DOMAIN s : s[i][1] = "toSpot", core.open = {},
         ~funded.done, NothingHeldOnPerp, NEW p \in Closings, ShareNow # 0, stage = "Closing", Pay(s, p)
  PROVE  PaysOut \/ Frees
<1> DEFINE owed == IF core.spot < p.owed THEN core.spot ELSE p.owed
           pay == SendableTo(traderExists, owed)
           paid == [taken |-> p.taken, owed |-> p.owed, sent |-> pay, done |-> TRUE,
                    spotBefore |-> core.spot, at |-> 0, shortAt |-> p.shortAt, drain |-> p.drain]
<1>1. core.spot \in Nat /\ owed \in Nat /\ owed <= core.spot
  BY DEF TypeInv, CoreTypes, Accounts, Closings
<1> HIDE DEF owed
<1>2. pay \in Nat /\ (pay # 0 => SendCost(traderExists, pay) <= core.spot)
  <2>1. pay \in Nat /\ (pay # 0 => SendCost(traderExists, pay) <= owed)
    BY <1>1, SendableNat DEF TypeInv
  <2> HIDE DEF pay
  <2>2. SendCost(traderExists, pay) \in Nat
    BY <2>1, UnitsAssumption DEF SendCost
  <2> QED BY <1>1, <2>1, <2>2
<1>3. (pay # 0 /\ EndStep(s \o SendUsdc("trader", pay), paid)) \/ (pay = 0 /\ Close(s, paid))
  BY DEF Pay, owed
<1> HIDE DEF pay
<1>4. paid \in Closings /\ paid.sent = pay /\ paid.done /\ paid.spotBefore = core.spot /\ paid.at = 0
  BY <1>1, <1>2 DEF Closings
<1>5. CASE pay # 0 /\ EndStep(s \o SendUsdc("trader", pay), paid)
  <2>1. funded' = paid
    BY <1>5 DEF EndStep
  <2> QED BY <1>2, <1>4, <1>5, <2>1 DEF EndStep, PaysOut
<1>6. CASE pay = 0 /\ Close(s, paid)
  <2>1. BackToIdle(s, paid)
    BY <1>4, <1>6 DEF Close, PayoutPending
  <2> HIDE DEF paid
  <2> QED BY <1>4, <2>1, FreesIs
<1> QED BY <1>3, <1>5, <1>6

LEMMA SettleEnds ==
  ASSUME TypeInv, NEW oids \in CancelSets, NEW extra \in ExtraSets, SettleFunded(oids, extra)
  PROVE  stage = "Closing" /\ (Waits \/ PaysOut \/ Frees)
<1> DEFINE drain == DrainActions(oids, extra)
           p == IF funded.taken THEN funded ELSE [funded EXCEPT !.taken = TRUE, !.owed = FundedShare]
           owing == p.owed # 0 /\ ~p.done
           q == IF core.spot < p.owed /\ Free # 0 /\ p.shortAt = Unset THEN [p EXCEPT !.shortAt = 0] ELSE p
           n == [p EXCEPT !.drain = "now"]
           u == [p EXCEPT !.shortAt = Unset]
<1>1. drain \in Seq(Drains)
  BY DrainType DEF TypeInv, CoreTypes
<1>2. core.open = {} /\ Free # 0 => \E i \in DOMAIN drain : drain[i][1] = "toSpot"
  BY DrainSendsHome
<1>3. SameShare(funded) /\ SameShare(p) /\ p.owed = ShareNow
  BY ShareType DEF TypeInv, Closings, SameShare, ShareNow
<1>4. stage = "Closing"
  BY DEF SettleFunded
<1> HIDE DEF drain, p
<1>5. SameShare(q) /\ SameShare(n) /\ SameShare(u) /\ q.owed = ShareNow
  BY <1>3 DEF SameShare, Closings, Unset
<1>6. \/ EndStep(drain, funded) \/ EndStep(drain, n) \/ EndStep(drain, p) \/ EndStep(drain, u) \/ EndStep(drain, q)
      \/ core.open = {} /\ owing /\ NothingHeldOnPerp /\ Pay(drain, q)
      \/ core.open = {} /\ ~owing /\ Close(drain, p)
  BY DEF SettleFunded, PayWhenCovered, drain, p
<1>7. ASSUME NEW r, SameShare(r), EndStep(drain, r) PROVE Waits
  BY <1>1, <1>7 DEF EndStep, Waits
<1>8. CASE core.open = {} /\ owing /\ NothingHeldOnPerp /\ Pay(drain, q)
  <2>1. ~funded.done /\ ShareNow # 0 /\ q \in Closings
    BY <1>3, <1>5, <1>8 DEF SameShare
  <2> HIDE DEF q
  <2> QED BY <1>1, <1>2, <1>4, <1>8, <2>1, PayEnds
<1>9. CASE core.open = {} /\ ~owing /\ Close(drain, p)
  <2>1. CASE ~PayoutPending(p) /\ NothingHeldOnPerp /\ BackToIdle(drain, p)
    <3>1. ~PayoutPending(funded) /\ p \in Closings
      BY <1>3, <2>1 DEF SameShare, PayoutPending
    <3> QED BY <1>1, <1>2, <1>4, <1>9, <2>1, <3>1, FreesIs
  <2> QED BY <1>3, <1>4, <1>7, <1>9, <2>1 DEF Close
<1> QED BY <1>3, <1>4, <1>5, <1>6, <1>7, <1>8, <1>9

----------------------------------------------------------------------------
(* Types. *)

LEMMA InitTypeInv == Init => TypeInv
<1> SUFFICES ASSUME Init PROVE TypeInv
  OBVIOUS
<1>1. NewAccount \in Accounts
  <2>1. Cardinality({}) = 0
    BY FS_EmptySet
  <2>2. NewAccount.orders = {}
    BY DEF NewAccount
  <2>3. Held(NewAccount) = 0
    BY <2>1, <2>2, UnitsAssumption DEF Held
  <2> QED BY <2>3 DEF NewAccount, Accounts, Agents
<1>2. core.spot <= MaxSpot
  BY PoolAssumption DEF Init, NewAccount
<1> QED BY <1>1, <1>2 DEF Init, TypeInv, CoreTypes, Closings, NoPayout, Unset, Stages

LEMMA CallType ==
  ASSUME TypeInv, NEW s \in Seq(Sendable), Send(s), stage' \in Stages, funded' \in Closings,
         fundedStart' \in Nat, traderExists' = traderExists
  PROVE  TypeInv'
<1>1. flight' = flight \o s /\ core' = core /\ flight \in Seq(Sendable)
  BY DEF Send, TypeInv, CoreTypes
<1>2. flight' \in Seq(Sendable)
  BY <1>1, ConcatProperties
<1> QED BY <1>1, <1>2 DEF TypeInv, CoreTypes

\* Counting spot no further than the bound loses nothing that was there.
LEMMA CountedType ==
  ASSUME NEW c \in Accounts
  PROVE  /\ Counted(c) \in Like(c) /\ Counted(c).spot <= MaxSpot
         /\ Counted(c).agent = c.agent /\ Counted(c).perp = c.perp
         /\ \A n \in Nat : n <= MaxSpot /\ n <= c.spot => n <= Counted(c).spot
         /\ c.spot <= MaxSpot => Counted(c).spot = c.spot
<1> DEFINE n == IF c.spot > MaxSpot THEN MaxSpot ELSE c.spot
<1>1. n \in Nat /\ n <= MaxSpot /\ (c.spot <= MaxSpot => n = c.spot) /\ (n = MaxSpot \/ n = c.spot)
  BY PoolAssumption DEF Accounts
<1>2. Counted(c) = [c EXCEPT !.spot = n]
  BY DEF Counted
<1> HIDE DEF n
<1>3. [c EXCEPT !.spot = n] \in Like(c)
  BY <1>1, AccountWith
<1>4. /\ [c EXCEPT !.spot = n].spot = n /\ [c EXCEPT !.spot = n].agent = c.agent
      /\ [c EXCEPT !.spot = n].perp = c.perp
  BY DEF Accounts
<1> QED BY <1>1, <1>2, <1>3, <1>4

\* Nobody but the contract takes from an account's spot.
LEMMA WorldAccount ==
  ASSUME CoreTypes, core.spot <= MaxSpot, Trade \/ Move \/ Donate \/ Arrive
  PROVE  core' \in Like(core) /\ core'.spot >= core.spot /\ core'.spot <= MaxSpot
<1>0. core \in Accounts /\ core.spot \in Nat
  BY DEF CoreTypes, Accounts
<1>1. CASE Trade \/ Move
  <2>1. core' \in Traded(core) \cup Moved(core)
    BY <1>1 DEF Trade, Move, AccountChanges
  <2>2. core' \in Like(core) /\ core'.spot = core.spot
    BY <1>0, <2>1, TradedType
  <2> QED BY <1>0, <2>2
<1>2. CASE Donate
  <2>1. PICK c \in Donated(core) : core' = Counted(c)
    BY <1>2 DEF Donate, AccountChanges
  <2>2. c \in Like(core) /\ c.spot >= core.spot
    BY <1>0, <2>1, DonatedType
  <2>3. c \in Accounts /\ c.agent = core.agent
    BY <2>2 DEF Like
  <2>4. core' \in Like(c) /\ core'.spot <= MaxSpot /\ core'.spot >= core.spot
    BY <1>0, <2>1, <2>2, <2>3, CountedType
  <2> QED BY <2>3, <2>4 DEF Like
<1>3. CASE Arrive
  <2>1. PICK n \in Arrivals : core.spot + n <= MaxSpot /\ core' = [core EXCEPT !.exists = TRUE, !.spot = core.spot + n]
    BY <1>3 DEF Arrive, AccountChanges
  <2>2. core.spot + n \in Nat /\ core.spot + n >= core.spot
    BY <1>0, PoolAssumption
  <2>3. core'.spot = core.spot + n
    BY <1>0, <2>1 DEF Accounts
  <2> QED BY <1>0, <2>1, <2>2, <2>3, FundedType
<1> QED BY <1>1, <1>2, <1>3

LEMMA LandedAccount ==
  ASSUME TypeInv, NEW i \in DOMAIN flight, NEW t, NEW k, NEW d \in Landed(core, flight[i], t, k)
  PROVE  flight[i] \in Sendable /\ core \in Accounts /\ d \in Accounts
<1>1. flight[i] \in Sendable /\ core \in Accounts
  BY DEF TypeInv, CoreTypes
<1> QED BY <1>1, LandedType

\* Action i lands.
Reaches(a) == a[1] # "send" \/ RecipientExists(a[3])
Lands(i) ==
  /\ MayLand(i) /\ flight' = Without(i)
  /\ \E d \in Landed(core, flight[i], Reaches(flight[i]), keySpoiled) : core' = Counted(d)
  /\ IF flight[i][1] = "send" /\ flight[i][3] = "trader" /\ core'.spot < core.spot
     THEN received' = received + flight[i][2] /\ traderExists' = TRUE
     ELSE UNCHANGED traderVars

LEMMA LandIs ==
  ASSUME Land
  PROVE  block = "core" /\ UNCHANGED <<block, dayVars, contractVars, midnights>> /\ \E i \in DOMAIN flight : Lands(i)
BY DEF Land, Lands, Reaches

LEMMA EmptySend == <<>> \in Seq(Harmless) /\ <<>> \in Seq(Sendable)
OBVIOUS

LEMMA FreesSends == ASSUME Waits \/ Frees PROVE \E s \in Seq(Drains) : Send(s)
BY DEF Waits, Frees

LEMMA PaysOutSends ==
  ASSUME PaysOut
  PROVE  \E s \in Seq(Harmless) : Send(s)
<1>1. PICK s \in Seq(Drains) : Send(s \o SendUsdc("trader", funded'.sent))
  BY DEF PaysOut
<1>2. funded'.sent \in Nat
  BY DEF PaysOut, Closings
<1>3. SendUsdc("trader", funded'.sent) \in Seq(Harmless) /\ s \in Seq(Harmless)
  BY <1>2, DrainsAre, SendsType DEF Recipients
<1>4. s \o SendUsdc("trader", funded'.sent) \in Seq(Harmless)
  BY <1>3, ConcatProperties
<1> QED BY <1>1, <1>4

\* Whatever way a closing step ends, it gives nobody a key and keeps its record's type.
LEMMA EndedSends ==
  ASSUME TypeInv, Waits \/ PaysOut \/ Frees
  PROVE  /\ \E s \in Seq(Harmless) : Send(s)
         /\ stage' \in {stage, "Idle"} /\ funded' \in Closings /\ fundedStart' \in Nat /\ traderExists' = traderExists
<1>1. \E s \in Seq(Harmless) : Send(s)
  BY FreesSends, PaysOutSends, DrainsAre
<1>2. fundedStart \in Nat
  BY DEF TypeInv
<1> QED BY <1>1, <1>2 DEF Waits, PaysOut, Frees, SameShare, worldVars, traderVars

\* What an opening takes to the perp side.
Fund == IF core.spot \div SpotPerPerp < FundedCapital THEN core.spot \div SpotPerPerp ELSE FundedCapital

LEMMA FundType ==
  ASSUME TypeInv
  PROVE  Fund \in Nat /\ Fund <= FundedCapital /\ core.perp + Fund \in Nat /\ core.perp \in Nat
<1>1. core.spot \in Nat /\ core.perp \in Nat
  BY DEF TypeInv, CoreTypes, Accounts
<1>2. \A n, m \in Nat : m > 0 => n \div m \in Nat
  OBVIOUS
<1>3. core.spot \div SpotPerPerp \in Nat
  BY <1>1, <1>2, UnitsAssumption
<1> QED BY <1>1, <1>3, PoolAssumption DEF Fund

LEMMA OpenSends ==
  ASSUME TypeInv, OpenFundedStage
  PROVE  /\ SetAgent("trader") \o ToPerp(Fund) \in Seq(Sendable)
         /\ Send(SetAgent("trader") \o ToPerp(Fund)) /\ fundedStart' = core.perp + Fund
<1>1. ToPerp(Fund) \in Seq(Sendable) /\ SetAgent("trader") \in Seq(Sendable)
  BY FundType, SendsType, HarmlessIs, Singles DEF SetAgent, Approval, Sendable
<1> QED BY <1>1, ConcatProperties DEF OpenFundedStage, Fund

LEMMA NextTypeInv == TypeInv /\ [Next]_vars => TypeInv'
<1> SUFFICES ASSUME TypeInv, [Next]_vars PROVE TypeInv'
  OBVIOUS
<1>0. core \in Accounts /\ CoreTypes /\ fundedStart \in Nat /\ funded \in Closings /\ stage \in Stages
  BY DEF TypeInv, CoreTypes
<1>1. CASE \/ PrepareAccount \/ WithdrawEarned \/ ChallengeStartsOrAborts \/ ChallengeStops
           \/ OnChallengePassed \/ OnChallengeSettled \/ AbandonFundedStage
  <2>1. Send(<<>>) /\ UNCHANGED <<funded, fundedStart, traderExists>>
    BY <1>1 DEF PrepareAccount, WithdrawEarned, ChallengeStartsOrAborts, ChallengeStops, OnChallengePassed,
       OnChallengeSettled, AbandonFundedStage, fundedVars, worldVars, traderVars
  <2>2. stage' \in Stages
    BY <1>0, <1>1 DEF PrepareAccount, WithdrawEarned, ChallengeStartsOrAborts, ChallengeStops, OnChallengePassed,
       OnChallengeSettled, AbandonFundedStage, Stages
  <2> QED BY <1>0, <2>1, <2>2, EmptySend, CallType
<1>2. ASSUME NEW amount \in Withdrawals, WithdrawOnCore(amount) PROVE TypeInv'
  <2>1. SendUsdc("owner", amount) \in Seq(Sendable)
    BY PoolAssumption, SendsType, HarmlessIs DEF Recipients
  <2> QED BY <1>0, <1>2, <2>1, CallType DEF WithdrawOnCore, fundedVars, worldVars, traderVars
<1>3. CASE BuyChallenge
  <2>1. Capital * SpotPerPerp \in Nat
    BY PoolAssumption, UnitsAssumption
  <2>2. SendUsdc("challenge", Capital * SpotPerPerp) \in Seq(Sendable)
    BY <2>1, SendsType, HarmlessIs DEF Recipients
  <2> QED BY <1>0, <1>3, <2>2, CallType DEF BuyChallenge, fundedVars, worldVars, traderVars, Stages
<1>4. CASE OpenFundedStage
  <2>1. fundedStart' \in Nat
    BY <1>4, FundType, OpenSends
  <2> QED BY <1>0, <1>4, <2>1, OpenSends, CallType DEF OpenFundedStage, worldVars, traderVars, Stages
<1>5. ASSUME NEW oids \in CancelSets, NEW extra \in ExtraSets,
             BreachFunded(oids, extra) \/ StopFunded(oids, extra)
      PROVE  TypeInv'
  <2>1. StopActions(oids, extra) \in Seq(Sendable)
    BY <1>0, StopType, StopsAre
  <2> QED BY <1>0, <1>5, <2>1, CallType DEF BreachFunded, StopFunded, EndFunded, worldVars, traderVars, Stages
<1>6. CASE Recut
  <2>1. CutActions \in Seq(Sendable)
    BY SendsType, HarmlessIs
  <2> QED BY <1>0, <1>6, <2>1, CallType DEF Recut, fundedVars, worldVars, traderVars
<1>7. ASSUME NEW oids \in CancelSets, NEW extra \in ExtraSets, SettleFunded(oids, extra)
      PROVE  TypeInv'
  <2>1. Waits \/ PaysOut \/ Frees
    BY <1>7, SettleEnds
  <2>2. PICK s \in Seq(Harmless) : Send(s)
    BY <2>1, EndedSends
  <2>3. s \in Seq(Sendable)
    BY HarmlessIs
  <2> QED BY <1>0, <2>1, <2>2, <2>3, EndedSends, CallType DEF Stages
<1>8. CASE TakeCheckpoint \/ EndBlock \/ UNCHANGED vars
  BY <1>8 DEF TakeCheckpoint, EndBlock, TypeInv, CoreTypes, vars, coreVars, contractVars, worldVars, fundedVars, traderVars
<1>9. ASSUME NEW ticks \in BOOLEAN, BeginBlock(ticks)
      PROVE  TypeInv'
  <2>1. funded' \in Closings
    BY <1>0, <1>9, OlderType, PoolAssumption DEF BeginBlock, Closings
  <2> QED BY <1>9, <2>1 DEF BeginBlock, TypeInv, CoreTypes, traderVars
<1>10. CASE Land
  <2>1. PICK i \in DOMAIN flight : Lands(i)
    BY <1>10, LandIs
  <2>0. PICK d \in Landed(core, flight[i], Reaches(flight[i]), keySpoiled) : core' = Counted(d)
    BY <2>1 DEF Lands
  <2>2. flight' \in Seq(Sendable)
    BY <1>0, <2>1, LeftSeq DEF CoreTypes, Lands
  <2>3. d \in Accounts
    BY <2>0, LandedAccount
  <2>4. core' \in Accounts /\ core'.spot <= MaxSpot
    BY <2>0, <2>3, CountedType DEF Like
  <2>5. traderExists' \in BOOLEAN
    BY <1>10 DEF Land, TypeInv, traderVars
  <2>6. UNCHANGED <<stage, funded, fundedStart>>
    BY <1>10 DEF Land, contractVars, fundedVars
  <2> QED BY <1>0, <2>2, <2>4, <2>5, <2>6 DEF TypeInv, CoreTypes
<1>11. CASE Trade \/ Move \/ Donate \/ Arrive
  <2>1. core' \in Accounts /\ core'.spot <= MaxSpot
    BY <1>0, <1>11, WorldAccount DEF Like, TypeInv
  <2>2. UNCHANGED <<flight, stage, funded, fundedStart, traderExists>>
    BY <1>11 DEF Trade, Move, Donate, Arrive, AccountChanges, contractVars, fundedVars, worldVars, traderVars
  <2> QED BY <2>1, <2>2 DEF TypeInv, CoreTypes
<1>12. CASE AddressAppears
  BY <1>12 DEF AddressAppears, TypeInv, CoreTypes, fundedVars
<1>13. CASE RegistryMoves
  BY <1>0, <1>13, EmptySend, CallType DEF RegistryMoves, PurgeSpoiled, RegistryChanges, fundedVars, worldVars, traderVars
<1> QED BY <1>1, <1>2, <1>3, <1>4, <1>5, <1>6, <1>7, <1>8, <1>9, <1>10, <1>11, <1>12, <1>13 DEF Next, Call, World

LEMMA AlwaysTypes == Spec => []TypeInv
BY InitTypeInv, NextTypeInv, PTL DEF Spec

----------------------------------------------------------------------------
(* A share is cut short only by a pool that holds no more.                   *)

LEMMA PayRecords ==
  ASSUME NEW s, NEW p, Pay(s, p), funded'.done
  PROVE  funded'.owed = p.owed
BY DEF Pay, EndStep, Close, BackToIdle, Forgotten, NoPayout

LEMMA OnlySettlePays ==
  ASSUME TypeInv, Next, Pays
  PROVE  \E oids \in CancelSets, extra \in ExtraSets : SettleFunded(oids, extra)
<1>0. funded \in Closings /\ ~funded.done /\ funded'.done
  BY DEF TypeInv, Pays
<1>1. \A oids \in CancelSets, extra \in ExtraSets : ~BreachFunded(oids, extra) /\ ~StopFunded(oids, extra)
  BY <1>0 DEF BreachFunded, StopFunded, EndFunded
<1>2. ~World /\ ~Land /\ ~EndBlock
  BY <1>0 DEF World, Trade, Move, Donate, Arrive, AccountChanges, AddressAppears, RegistryMoves,
     RegistryChanges, PurgeSpoiled, contractVars, Land, EndBlock, fundedVars
<1>3. \A ticks \in BOOLEAN : ~BeginBlock(ticks)
  <2> SUFFICES ASSUME NEW ticks \in BOOLEAN, BeginBlock(ticks) PROVE FALSE
    OBVIOUS
  <2>1. funded'.done = funded.done
    BY <1>0 DEF BeginBlock, Closings
  <2> QED BY <1>0, <2>1
<1>4. /\ ~PrepareAccount /\ ~WithdrawEarned /\ ~BuyChallenge /\ ~ChallengeStartsOrAborts /\ ~ChallengeStops
      /\ ~OnChallengePassed /\ ~OnChallengeSettled /\ ~OpenFundedStage /\ ~TakeCheckpoint /\ ~Recut
      /\ ~AbandonFundedStage /\ \A amount \in Withdrawals : ~WithdrawOnCore(amount)
  BY <1>0 DEF PrepareAccount, WithdrawEarned, BuyChallenge, ChallengeStartsOrAborts, ChallengeStops, AbandonFundedStage,
     OnChallengePassed, OnChallengeSettled, OpenFundedStage, TakeCheckpoint, Recut, WithdrawOnCore, fundedVars
<1> QED BY <1>1, <1>2, <1>3, <1>4 DEF Next, Call

\* When a pool pays less than it owes, spot does not cover it, and then nothing is left on the
\* perp side that could still cross, or the short share has had its wait (settleFunded).
THEOREM ShortOnlyOfWhatIsThere == Spec => ShortOnlyIfAllThere
<1>1. TypeInv /\ [Next]_vars =>
        [Pays => core.spot >= funded'.owed \/ core.perp = 0 \/ funded.shortAt > PayoutWait]_vars
  <2> SUFFICES ASSUME TypeInv, Next, Pays
               PROVE  core.spot >= funded'.owed \/ core.perp = 0 \/ funded.shortAt > PayoutWait
    OBVIOUS
  <2>1. PICK oids \in CancelSets, extra \in ExtraSets : SettleFunded(oids, extra)
    BY OnlySettlePays
  <2> DEFINE drain == DrainActions(oids, extra)
             p == IF funded.taken THEN funded ELSE [funded EXCEPT !.taken = TRUE, !.owed = FundedShare]
             short == core.spot < p.owed /\ Free # 0
             q == IF short /\ p.shortAt = Unset THEN [p EXCEPT !.shortAt = 0] ELSE p
             n == [p EXCEPT !.drain = "now"]
             u == [p EXCEPT !.shortAt = Unset]
  <2>2. ~funded.done /\ funded'.done /\ funded \in Closings
    BY DEF Pays, TypeInv
  <2>3. p \in Closings /\ ~p.done /\ p.shortAt = funded.shortAt /\ core.spot \in Nat
    BY <2>2, ShareType DEF Closings, TypeInv, CoreTypes, Accounts
  <2> HIDE DEF p
  <2>4. ~q.done /\ ~n.done /\ ~u.done /\ q.owed = p.owed /\ p.owed \in Nat
    BY <2>3 DEF Closings
  <2>6. /\ core.open = {} /\ NothingHeldOnPerp /\ ~(short /\ q.shortAt <= PayoutWait) /\ Pay(drain, q)
    <3>1. \/ EndStep(drain, funded) \/ EndStep(drain, n) \/ EndStep(drain, p) \/ EndStep(drain, u) \/ EndStep(drain, q)
          \/ core.open = {} /\ NothingHeldOnPerp /\ ~(short /\ q.shortAt <= PayoutWait) /\ Pay(drain, q)
          \/ Close(drain, p)
      BY <2>1 DEF SettleFunded, PayWhenCovered, p
    <3>2. \A r : EndStep(drain, r) => funded' = r
      BY DEF EndStep
    <3>3. ~Close(drain, p)
      BY <2>2, <2>3 DEF Close, EndStep, BackToIdle, Forgotten, NoPayout
    <3> QED BY <2>2, <2>3, <2>4, <3>1, <3>2, <3>3
  <2>7. funded'.owed = p.owed
    BY <2>2, <2>4, <2>6, PayRecords
  <2>5. core.open = {} /\ NothingHeldOnPerp /\ core \in Accounts
    BY <2>6 DEF TypeInv, CoreTypes
  <2>8. Free = core.perp
    BY <2>5, NothingHeld
  <2>9. CASE short
    <3>1. q.shortAt > PayoutWait
      <4>1. q.shortAt \in Int
        BY <2>3 DEF Closings
      <4> QED BY <2>6, <2>9, <4>1, PoolAssumption
    <3>2. q.shortAt = funded.shortAt
      BY <2>3, <3>1, PoolAssumption DEF Closings, Unset
    <3> QED BY <3>1, <3>2
  <2>10. CASE ~short
    BY <2>3, <2>4, <2>7, <2>8, <2>10
  <2> QED BY <2>9, <2>10
<1> QED BY <1>1, AlwaysTypes, PTL DEF Spec, ShortOnlyIfAllThere

----------------------------------------------------------------------------
(* A funded trader's key does not outlive its stage, where a replacement       *)
(* cannot fail and agent actions land in order.                              *)

CutInv == TypeInv /\ (stage # "Funded" => Replaced)

LEMMA NextCutInv ==
  ASSUME ~CutMayFail, "agent" \notin LateOps
  PROVE  CutInv /\ [Next]_vars => CutInv'
<1> SUFFICES ASSUME CutInv, [Next]_vars PROVE CutInv'
  OBVIOUS
<1>1. TypeInv /\ TypeInv' /\ CoreTypes
  BY NextTypeInv DEF CutInv, TypeInv
<1>2. ASSUME NEW s \in Seq(Harmless), Send(s), stage # "Funded" PROVE CutInv'
  BY <1>1, <1>2, HarmlessKeeps DEF CutInv
<1>3. CASE \/ PrepareAccount \/ WithdrawEarned \/ ChallengeStartsOrAborts \/ ChallengeStops
           \/ OnChallengePassed \/ OnChallengeSettled \/ AbandonFundedStage \/ RegistryMoves
  <2>1. Send(<<>>) /\ (stage = "Funded" => stage' = "Funded")
    BY <1>3 DEF PrepareAccount, WithdrawEarned, ChallengeStartsOrAborts, ChallengeStops, OnChallengePassed,
       OnChallengeSettled, AbandonFundedStage, RegistryMoves, PurgeSpoiled, RegistryChanges
  <2>2. CASE stage = "Funded"
    BY <1>1, <2>1, <2>2 DEF CutInv
  <2> QED BY <1>2, <2>1, <2>2, EmptySend
<1>4. ASSUME NEW amount \in Withdrawals, WithdrawOnCore(amount) PROVE CutInv'
  <2>1. SendUsdc("owner", amount) \in Seq(Harmless)
    BY PoolAssumption, SendsType DEF Recipients
  <2> QED BY <1>2, <1>4, <2>1 DEF WithdrawOnCore
<1>5. CASE BuyChallenge
  <2>1. Capital * SpotPerPerp \in Nat
    BY PoolAssumption, UnitsAssumption
  <2>2. SendUsdc("challenge", Capital * SpotPerPerp) \in Seq(Harmless)
    BY <2>1, SendsType DEF Recipients
  <2> QED BY <1>2, <1>5, <2>2 DEF BuyChallenge
<1>6. CASE OpenFundedStage
  BY <1>1, <1>6 DEF OpenFundedStage, CutInv
<1>7. ASSUME NEW oids \in CancelSets, NEW extra \in ExtraSets,
             BreachFunded(oids, extra) \/ StopFunded(oids, extra)
      PROVE  CutInv'
  <2>1. StopActions(oids, extra) \in Seq(Harmless) /\ Len(StopActions(oids, extra)) > 0
        /\ StopActions(oids, extra)[1] = Replacement
    BY <1>1, StopType, StopsAre DEF CoreTypes
  <2>2. Send(StopActions(oids, extra))
    BY <1>7 DEF BreachFunded, StopFunded, EndFunded
  <2>3. Replaced'
    BY <1>1, <2>1, <2>2, CutReplaces
  <2> QED BY <1>1, <2>3 DEF CutInv
<1>8. CASE Recut
  <2>1. CutActions \in Seq(Harmless) /\ Len(CutActions) > 0 /\ CutActions[1] = Replacement
    BY SendsType DEF CutActions, SetAgent, Replacement
  <2>2. Replaced'
    BY <1>1, <1>8, <2>1, CutReplaces DEF Recut
  <2> QED BY <1>1, <2>2 DEF CutInv
<1>9. ASSUME NEW oids \in CancelSets, NEW extra \in ExtraSets, SettleFunded(oids, extra)
      PROVE  CutInv'
  <2>1. stage = "Closing" /\ \E s \in Seq(Harmless) : Send(s)
    BY <1>1, <1>9, SettleEnds, EndedSends
  <2> QED BY <1>2, <2>1
<1>10. CASE Land
  <2>1. PICK i \in DOMAIN flight : Lands(i)
    BY <1>10, LandIs
  <2>2. PICK d \in Landed(core, flight[i], Reaches(flight[i]), keySpoiled) : core' = Counted(d)
    BY <2>1 DEF Lands
  <2>3. core'.agent = d.agent
    BY <1>1, <2>2, LandedAccount, CountedType
  <2>4. stage' = stage
    BY <1>10 DEF Land, contractVars
  <2>5. stage # "Funded" => Replaced'
    BY <1>1, <2>1, <2>2, <2>3, LandKeeps DEF CutInv, Lands
  <2> QED BY <1>1, <2>4, <2>5 DEF CutInv
<1>11. ASSUME stage' = stage, flight' = flight, core'.agent = core.agent
       PROVE  CutInv'
  BY <1>1, <1>11 DEF CutInv, Replaced
<1>12. CASE Trade \/ Move \/ Donate \/ Arrive
  <2>1. core'.agent = core.agent
    BY <1>1, <1>12, WorldAccount DEF TypeInv, Like
  <2>2. stage' = stage /\ flight' = flight
    BY <1>12 DEF Trade, Move, Donate, Arrive, AccountChanges, contractVars
  <2> QED BY <1>11, <2>1, <2>2
<1>13. CASE AddressAppears \/ TakeCheckpoint \/ EndBlock \/ (\E ticks \in BOOLEAN : BeginBlock(ticks)) \/ UNCHANGED vars
  BY <1>11, <1>13 DEF AddressAppears, TakeCheckpoint, EndBlock, BeginBlock, vars, coreVars, contractVars
<1> QED BY <1>3, <1>4, <1>5, <1>6, <1>7, <1>8, <1>9, <1>10, <1>12, <1>13 DEF Next, Call, World

LEMMA InitCutInv == Init => CutInv
BY InitTypeInv DEF CutInv, Init, NewAccount, Replaced

\* When the stage is over the trader's key is replaced on HyperCore, or its replacement is on
\* its way, behind its approval if both are sent in one block (openFundedStage, _endFunded).
THEOREM TraderAlwaysOut ==
  ASSUME ~CutMayFail, "agent" \notin LateOps
  PROVE  Spec => []TraderIsOut
<1>1. CutInv => TraderIsOut
  BY NoAgentNoKey DEF CutInv, TraderIsOut, Replaced, TypeInv
<1> QED BY <1>1, InitCutInv, NextCutInv, PTL DEF Spec

----------------------------------------------------------------------------
(* What is sent to a challenge or to the trader is there when it lands, and a  *)
(* pool that is free again has paid.  The calls of one block may sell, open,   *)
(* stop, settle and withdraw in any order the guards allow.                  *)

IsSend(a) == a[1] = "send"
ToTrader(a) == a[1] = "send" /\ a[3] = "trader"
Money(a) == a[1] = "send" /\ a[3] \in {"challenge", "trader"}

CostIf(exists, a) == SendCost(a[3] = "owner" \/ (a[3] = "trader" /\ exists), a[2])
FundedInSpot == FundedCapital * SpotPerPerp

Opened == \E i \in DOMAIN flight : flight[i] = Approval
Flying == \E i \in DOMAIN flight : ToTrader(flight[i])
Early == stage \in {"Idle", "Challenge", "PassedAwaitingKey"}

\* A closing's record belongs to a closing, and nothing is sent before it is done.
Fresh ==
  /\ stage # "Closing" => ~funded.taken /\ funded.owed = 0 /\ ~funded.done
  /\ ~funded.done => funded.sent = 0

\* Before money sent to a challenge or to the trader no other is sent, and at most one stage
\* takes its capital to the perp side, which spot covers as well.
MoneyThere ==
  \A i \in DOMAIN flight : Money(flight[i]) =>
    /\ core.spot >= CostIf(traderExists, flight[i])
    /\ \A j \in DOMAIN flight : j < i =>
         /\ ~IsSend(flight[j])
         /\ flight[j][1] = "toPerp" =>
              flight[j][2] <= FundedCapital /\ core.spot >= CostIf(traderExists, flight[i]) + FundedInSpot
    /\ \A j, l \in DOMAIN flight :
         j < i /\ l < i /\ flight[j][1] = "toPerp" /\ flight[l][1] = "toPerp" => j = l

\* A share on its way is all that is, and it arrives.
SharePaid ==
  /\ \A i \in DOMAIN flight : ToTrader(flight[i]) =>
       /\ stage = "Closing" /\ funded.done /\ flight[i][2] = funded.sent /\ funded.sent > 0
       /\ funded.at = 0 /\ core.spot >= funded.spotBefore
       /\ ~InFlight("toPerp")
       /\ \A j \in DOMAIN flight : IsSend(flight[j]) => j = i
  /\ Flying => received = 0
  /\ ~Flying => received = funded.sent

\* What has been sent in this block tells what calls were made in it.
ThisBlock ==
  block = "evm" =>
    /\ \A i \in DOMAIN flight : IsSend(flight[i]) /\ ~Money(flight[i]) => withdrewNow
    /\ \A i \in DOMAIN flight : flight[i][1] = "toPerp" => flight[i][2] <= FundedCapital /\ Opened
    /\ \A i \in DOMAIN flight : IsSend(flight[i]) /\ ~ToTrader(flight[i]) => Early \/ Opened
    /\ SoldInThisBlock => challenge # "none"
    /\ Opened /\ ~Early => fundedStart >= core.perp /\ funded.owed = 0 /\ ~funded.done
    /\ Opened /\ ~SoldInThisBlock =>
         /\ stage \in {"Idle", "Funded", "Closing"}
         /\ \A i, j \in DOMAIN flight : flight[i][1] = "toPerp" /\ flight[j][1] = "toPerp" => i = j

MoneyInv == TypeInv /\ Fresh /\ MoneyThere /\ SharePaid /\ ThisBlock

LEMMA CostIfType ==
  ASSUME NEW a, a[2] \in Nat, NEW ex \in BOOLEAN, NEW later \in BOOLEAN, ex => later
  PROVE  /\ CostIf(ex, a) \in Nat /\ CostIf(later, a) <= CostIf(ex, a)
         /\ CostIf(ex, a) >= a[2] /\ FundedInSpot \in Nat
BY PoolAssumption, UnitsAssumption DEF CostIf, SendCost, FundedInSpot

LEMMA MoneyIs ==
  ASSUME TypeInv, NEW i \in DOMAIN flight
  PROVE  /\ IsSend(flight[i]) => flight[i][2] \in Nat
         /\ Money(flight[i]) => IsSend(flight[i])
         /\ ToTrader(flight[i]) => Money(flight[i])
<1>1. flight[i] \in Sendable
  BY DEF TypeInv, CoreTypes
<1> QED BY <1>1 DEF IsSend, Money, ToTrader, Sendable, Harmless, Transfers, Stops, Approval, Replacement

LEMMA InitMoneyInv == Init => MoneyInv
<1> SUFFICES ASSUME Init PROVE MoneyInv
  OBVIOUS
<1>1. flight = <<>> /\ block = "core" /\ funded = NoPayout /\ received = 0
  BY DEF Init
<1> QED BY <1>1, InitTypeInv DEF MoneyInv, Fresh, MoneyThere, SharePaid, ThisBlock, Flying, NoPayout

\* Sending no money leaves what is on its way where it was.
LEMMA MoneyKept ==
  ASSUME TypeInv, MoneyThere, NEW s \in Seq(Sendable), Send(s), \A k \in DOMAIN s : ~Money(s[k]),
         traderExists' = traderExists
  PROVE  MoneyThere'
<1>1. flight' = flight \o s /\ flight \in Seq(Sendable) /\ core' = core
  BY DEF Send, TypeInv, CoreTypes
<1>2. /\ \A i \in DOMAIN flight : i \in DOMAIN flight' /\ flight'[i] = flight[i]
      /\ \A i \in DOMAIN flight' : \/ i \in DOMAIN flight /\ flight'[i] = flight[i]
                                   \/ i > Len(flight) /\ i - Len(flight) \in DOMAIN s /\ flight'[i] = s[i - Len(flight)]
      /\ \A i \in DOMAIN flight, j \in DOMAIN flight' : j < i => j \in DOMAIN flight
  BY <1>1, SentWhat
<1>3. \A i \in DOMAIN flight' : Money(flight'[i]) => i \in DOMAIN flight /\ flight'[i] = flight[i]
  BY <1>2
<1> SUFFICES ASSUME NEW i \in DOMAIN flight', Money(flight'[i])
             PROVE  /\ core'.spot >= CostIf(traderExists', flight'[i])
                    /\ \A j \in DOMAIN flight' : j < i =>
                         /\ ~IsSend(flight'[j])
                         /\ flight'[j][1] = "toPerp" =>
                              /\ flight'[j][2] <= FundedCapital
                              /\ core'.spot >= CostIf(traderExists', flight'[i]) + FundedInSpot
                    /\ \A j, l \in DOMAIN flight' :
                         j < i /\ l < i /\ flight'[j][1] = "toPerp" /\ flight'[l][1] = "toPerp" => j = l
  BY DEF MoneyThere
<1>4. i \in DOMAIN flight /\ flight'[i] = flight[i]
  BY <1>3
<1>5. \A j \in DOMAIN flight' : j < i => j \in DOMAIN flight /\ flight'[j] = flight[j]
  BY <1>2, <1>4
<1> QED BY <1>1, <1>4, <1>5 DEF MoneyThere

\* Money sent last, with no other on its way and spot for what crosses before it.
LEMMA MoneyAdded ==
  ASSUME TypeInv, TypeInv', core' = core, traderExists' = traderExists, ~InFlight("send"),
         NEW a, NEW n \in DOMAIN flight', flight'[n] = a, Money(a),
         \A i \in DOMAIN flight' : i # n => i < n /\ ((i \in DOMAIN flight /\ flight'[i] = flight[i]) \/ flight'[i] \in Drains),
         core.spot >= CostIf(traderExists, a),
         \A j \in DOMAIN flight : flight[j][1] = "toPerp" =>
            flight[j][2] <= FundedCapital /\ core.spot >= CostIf(traderExists, a) + FundedInSpot,
         \A j, l \in DOMAIN flight : flight[j][1] = "toPerp" /\ flight[l][1] = "toPerp" => j = l
  PROVE  MoneyThere' /\ \A i \in DOMAIN flight' : IsSend(flight'[i]) => i = n
<1>1. \A b \in Drains : ~IsSend(b) /\ b[1] # "toPerp" /\ ~Money(b)
  BY DEF Drains, Stops, IsSend, Money
<1>2. \A i \in DOMAIN flight : ~IsSend(flight[i]) /\ ~Money(flight[i])
  BY DEF InFlight, IsSend, Money
<1>3. \A i \in DOMAIN flight' : i # n => ~IsSend(flight'[i]) /\ ~Money(flight'[i])
  BY <1>1, <1>2
<1>4. \A i \in DOMAIN flight' : i # n /\ flight'[i][1] = "toPerp" => i \in DOMAIN flight /\ flight'[i] = flight[i]
  BY <1>1
<1>5. \A j \in DOMAIN flight' : j < n => j # n
  <2>1. n \in Nat
    BY LenProperties DEF TypeInv, CoreTypes
  <2> QED BY <2>1
<1> QED BY <1>3, <1>4, <1>5 DEF MoneyThere

\* Opened in this block, a stage owes nothing: its equity has not moved.
LEMMA OpenedOwes ==
  ASSUME MoneyInv, block = "evm", Opened, ~Early
  PROVE  ShareNow = 0 /\ funded.owed = 0 /\ ~funded.done /\ fundedStart >= core.perp
<1>1. fundedStart >= core.perp /\ funded.owed = 0 /\ ~funded.done
  BY DEF MoneyInv, ThisBlock
<1>2. fundedStart \in Nat /\ core.perp \in Nat
  BY DEF MoneyInv, TypeInv, CoreTypes, Accounts
<1>3. ~(core.perp > fundedStart)
  BY <1>1, <1>2
<1> QED BY <1>1, <1>3 DEF ShareNow, FundedShare

\* A call that sends no transfer, or only one to spot.
LEMMA QuietKeepsMoney ==
  ASSUME MoneyInv, TypeInv', Fresh', NEW s \in Seq(Quiet), Send(s), UNCHANGED <<withdrewNow, traderExists>>,
         Flying => /\ stage' = "Closing" /\ funded'.done /\ received' = received
                   /\ funded'.sent = funded.sent /\ funded'.at = funded.at /\ funded'.spotBefore = funded.spotBefore,
         ~Flying => received' = funded'.sent,
         SoldInThisBlock => challenge' # "none" \/ challenge = "none",
         stage' \in {"Challenge", "PassedAwaitingKey"} => stage \in {"Challenge", "PassedAwaitingKey"},
         stage' \in {"Funded", "Closing"} => stage \in {"Funded", "Closing"},
         Opened /\ stage' \in {"Funded", "Closing"} =>
            fundedStart' >= core.perp /\ funded'.owed = 0 /\ ~funded'.done
  PROVE  MoneyInv'
<1>0. TypeInv /\ Fresh /\ MoneyThere /\ SharePaid /\ ThisBlock
  BY DEF MoneyInv
<1>1. /\ \A i \in DOMAIN flight' : flight'[i][1] \in {"send", "toPerp"} =>
           i \in DOMAIN flight /\ flight'[i] = flight[i]
      /\ \A i \in DOMAIN flight' : flight'[i] = Approval => i \in DOMAIN flight /\ flight'[i] = flight[i]
      /\ \A i \in DOMAIN flight : i \in DOMAIN flight' /\ flight'[i] = flight[i]
      /\ core' = core /\ block' = "evm" /\ block = "evm"
  BY <1>0, QuietSend DEF TypeInv
<1>2. (Opened' <=> Opened) /\ (Flying' <=> Flying) /\ (SoldInThisBlock' <=> SoldInThisBlock)
      /\ (InFlight("toPerp")' <=> InFlight("toPerp"))
  BY <1>1 DEF Opened, Flying, SoldInThisBlock, InFlight, ToTrader
<1>3. MoneyThere'
  <2>1. Quiet \subseteq Sendable /\ \A a \in Quiet : ~Money(a)
    BY DEF Quiet, Drains, Stops, Sendable, Harmless, Transfers, Replacement, Money
  <2>2. s \in Seq(Sendable) /\ \A k \in DOMAIN s : ~Money(s[k])
    BY <2>1, SeqMonotonic
  <2> QED BY <1>0, <2>2, MoneyKept
<1>4. SharePaid'
  <2>1. ASSUME NEW i \in DOMAIN flight', ToTrader(flight'[i])
        PROVE  /\ stage' = "Closing" /\ funded'.done /\ flight'[i][2] = funded'.sent /\ funded'.sent > 0
               /\ funded'.at = 0 /\ core'.spot >= funded'.spotBefore
               /\ ~InFlight("toPerp")'
               /\ \A j \in DOMAIN flight' : IsSend(flight'[j]) => j = i
    <3>1. i \in DOMAIN flight /\ flight'[i] = flight[i] /\ ToTrader(flight[i]) /\ Flying
      BY <1>1, <2>1 DEF ToTrader, Flying
    <3>2. /\ flight[i][2] = funded.sent /\ funded.sent > 0 /\ funded.at = 0 /\ core.spot >= funded.spotBefore
          /\ ~InFlight("toPerp") /\ \A j \in DOMAIN flight : IsSend(flight[j]) => j = i
      BY <1>0, <3>1 DEF SharePaid
    <3>3. \A j \in DOMAIN flight' : IsSend(flight'[j]) => j = i
      BY <1>1, <3>2 DEF IsSend
    <3> QED BY <1>1, <1>2, <3>1, <3>2, <3>3
  <2>2. Flying' => received' = 0
    BY <1>0, <1>2 DEF SharePaid
  <2>3. ~Flying' => received' = funded'.sent
    BY <1>2
  <2> QED BY <2>1, <2>2, <2>3 DEF SharePaid
<1>5. ThisBlock'
  <2>1. \A i \in DOMAIN flight' : IsSend(flight'[i]) /\ ~Money(flight'[i]) => withdrewNow'
    BY <1>0, <1>1 DEF ThisBlock, IsSend
  <2>2. \A i \in DOMAIN flight' : flight'[i][1] = "toPerp" => flight'[i][2] <= FundedCapital /\ Opened'
    BY <1>0, <1>1, <1>2 DEF ThisBlock
  <2>3. Early => Early' \/ Opened'
    BY <1>0 DEF Early, TypeInv, Stages
  <2>4. \A i \in DOMAIN flight' : IsSend(flight'[i]) /\ ~ToTrader(flight'[i]) => Early' \/ Opened'
    BY <1>0, <1>1, <1>2, <2>3 DEF ThisBlock, IsSend
  <2>5. SoldInThisBlock' => challenge' # "none"
    BY <1>0, <1>1, <1>2 DEF ThisBlock
  <2>6. Opened' /\ ~Early' => fundedStart' >= core'.perp /\ funded'.owed = 0 /\ ~funded'.done
    BY <1>1, <1>2 DEF Early, TypeInv, Stages
  <2>7. Opened' /\ ~SoldInThisBlock' =>
         /\ stage' \in {"Idle", "Funded", "Closing"}
         /\ \A i, j \in DOMAIN flight' : flight'[i][1] = "toPerp" /\ flight'[j][1] = "toPerp" => i = j
    BY <1>0, <1>1, <1>2 DEF ThisBlock, TypeInv, Stages
  <2> QED BY <2>1, <2>2, <2>4, <2>5, <2>6, <2>7 DEF ThisBlock
<1> QED BY <1>3, <1>4, <1>5 DEF MoneyInv

\* The owner takes money out of a pool that is free; no share is on its way then.
LEMMA WithdrawKeeps ==
  ASSUME MoneyInv, TypeInv', NEW amount \in Withdrawals, WithdrawOnCore(amount)
  PROVE  MoneyInv'
<1> DEFINE s == SendUsdc("owner", amount)
           a == <<"send", amount, "owner">>
<1>0. TypeInv /\ Fresh /\ MoneyThere /\ SharePaid /\ ThisBlock
  BY DEF MoneyInv
<1>1. s \in Seq({a}) /\ a \in Sendable /\ s \in Seq(Sendable)
  <2>1. a \in Sendable
    BY PoolAssumption DEF Sendable, Harmless, Transfers, Recipients
  <2> HIDE DEF a
  <2>2. s \in Seq({a})
    BY Singles DEF SendUsdc, a
  <2> QED BY <2>1, <2>2, SeqMonotonic
<1>2. \A k \in DOMAIN s : s[k] = a
  BY <1>1
<1>3. ~Money(a) /\ ~ToTrader(a) /\ a # Approval /\ a[1] # "toPerp" /\ a[3] # "challenge"
  BY DEF Money, ToTrader, Approval
<1> HIDE DEF a, s
<1>4. /\ block = "evm" /\ block' = "evm" /\ core' = core /\ flight' = flight \o s /\ flight \in Seq(Sendable)
      /\ stage = "Idle" /\ stage' = "Idle" /\ withdrewNow' = TRUE
      /\ UNCHANGED <<challenge, fundedStart, funded, traderExists, received>> /\ Send(s)
  BY <1>0 DEF WithdrawOnCore, Send, TypeInv, CoreTypes, fundedVars, worldVars, traderVars, s
<1>5. /\ \A i \in DOMAIN flight : i \in DOMAIN flight' /\ flight'[i] = flight[i]
      /\ \A i \in DOMAIN flight' : (i \in DOMAIN flight /\ flight'[i] = flight[i]) \/ flight'[i] = a
  BY <1>1, <1>2, <1>4, SentWhat
<1>6. (Opened' <=> Opened) /\ (SoldInThisBlock' <=> SoldInThisBlock) /\ ~Flying /\ ~Flying'
  <2>1. ~Flying
    BY <1>0, <1>4 DEF SharePaid, Flying
  <2>2. ~Flying'
    BY <1>3, <1>5, <2>1 DEF Flying
  <2>3. (Opened' <=> Opened) /\ (SoldInThisBlock' <=> SoldInThisBlock)
    BY <1>3, <1>5 DEF Opened, SoldInThisBlock
  <2> QED BY <2>1, <2>2, <2>3
<1>7. MoneyThere'
  BY <1>0, <1>1, <1>2, <1>3, <1>4, MoneyKept
<1>8. SharePaid' /\ Fresh'
  BY <1>0, <1>4, <1>6 DEF SharePaid, Flying, Fresh
<1>9. ThisBlock'
  <2>1. \A i \in DOMAIN flight' : flight'[i][1] = "toPerp" => i \in DOMAIN flight /\ flight'[i] = flight[i]
    BY <1>3, <1>5
  <2>2. Early /\ Early'
    BY <1>4 DEF Early
  <2> QED BY <1>0, <1>4, <1>6, <2>1, <2>2 DEF ThisBlock
<1> QED BY <1>0, <1>7, <1>8, <1>9 DEF MoneyInv

\* A sale: the owner has not withdrawn in this block, and what a stage that was opened and
\* settled in it takes across is set aside by the capital that is needed.
LEMMA BuyKeeps ==
  ASSUME MoneyInv, TypeInv', BuyChallenge
  PROVE  MoneyInv'
<1> DEFINE a == <<"send", Capital * SpotPerPerp, "challenge">>
<1>0. TypeInv /\ Fresh /\ MoneyThere /\ SharePaid /\ ThisBlock
  BY DEF MoneyInv
<1>1. Capital * SpotPerPerp \in Nat /\ Capital * SpotPerPerp # 0
  BY PoolAssumption, UnitsAssumption
<1>2. SendUsdc("challenge", Capital * SpotPerPerp) = <<a>> /\ a \in Sendable
  BY <1>1 DEF SendUsdc, Sendable, Harmless, Transfers, Recipients
<1>3. Money(a) /\ ~ToTrader(a) /\ a # Approval /\ a[1] = "send" /\ a[3] = "challenge"
  BY DEF Money, ToTrader, Approval
<1>4. CostIf(traderExists, a) \in Nat /\ FundedInSpot \in Nat /\ core.spot \in Nat
      /\ core.spot >= CostIf(traderExists, a) + FundedInSpot
  <2>1. \A x, y, z \in Nat : (x + y) * z = x * z + y * z
    OBVIOUS
  <2>2. CapitalNeeded = Capital * SpotPerPerp + FundedInSpot + NewAccountFee
    BY <2>1, PoolAssumption, UnitsAssumption DEF CapitalNeeded, FundedInSpot
  <2>3. CostIf(traderExists, a) = Capital * SpotPerPerp + NewAccountFee /\ FundedInSpot \in Nat
    BY PoolAssumption, UnitsAssumption DEF CostIf, SendCost, FundedInSpot
  <2>4. core.spot \in Nat /\ core.spot >= CapitalNeeded
    BY <1>0 DEF TypeInv, CoreTypes, Accounts, BuyChallenge
  <2> HIDE DEF a
  <2> QED BY <1>1, <2>2, <2>3, <2>4, UnitsAssumption
<1>5. /\ block = "evm" /\ block' = "evm" /\ core' = core /\ flight' = flight \o <<a>> /\ flight \in Seq(Sendable)
      /\ stage = "Idle" /\ stage' = "Challenge" /\ challenge = "none" /\ challenge' = "created" /\ ~withdrewNow
      /\ UNCHANGED <<withdrewNow, fundedStart, funded, traderExists, received>>
  BY <1>0, <1>2 DEF BuyChallenge, Send, TypeInv, CoreTypes, fundedVars, worldVars, traderVars
<1> HIDE DEF a
<1>6. ~Flying /\ ~SoldInThisBlock /\ ~InFlight("send")
  <2>1. ~Flying
    BY <1>0, <1>5 DEF SharePaid, Flying
  <2>2. ~SoldInThisBlock
    BY <1>0, <1>5 DEF ThisBlock
  <2>3. \A i \in DOMAIN flight : IsSend(flight[i]) => Money(flight[i])
    BY <1>0, <1>5 DEF ThisBlock
  <2> QED BY <2>1, <2>2, <2>3 DEF InFlight, IsSend, Money, Flying, ToTrader, SoldInThisBlock
<1>7. /\ \A j \in DOMAIN flight : flight[j][1] = "toPerp" => flight[j][2] <= FundedCapital /\ Opened
      /\ \A i, j \in DOMAIN flight : flight[i][1] = "toPerp" /\ flight[j][1] = "toPerp" => i = j
  BY <1>0, <1>5, <1>6 DEF ThisBlock
<1>8. PICK n \in DOMAIN flight' :
        /\ flight'[n] = a
        /\ \A i \in DOMAIN flight' : i # n => i < n /\ i \in DOMAIN flight /\ flight'[i] = flight[i]
  <2>1. <<>> \in Seq(Sendable) /\ \A j \in DOMAIN <<>> : FALSE
    OBVIOUS
  <2>2. <<a>> \in Seq(Sendable)
    BY <1>2
  <2>3. <<>> \o <<a>> = <<a>>
    BY <2>2, ConcatEmptySeq
  <2>4. flight' = flight \o (<<>> \o <<a>>)
    BY <1>5, <2>3
  <2>5. \E n \in DOMAIN flight' :
          /\ flight'[n] = a
          /\ \A i \in DOMAIN flight' : i # n =>
                i < n /\ ((i \in DOMAIN flight /\ flight'[i] = flight[i]) \/ \E j \in DOMAIN <<>> : flight'[i] = <<>>[j])
          /\ n > Len(flight)
    BY <1>2, <1>5, <2>1, <2>4, SentLast
  <2> QED BY <2>1, <2>5
<1>9. MoneyThere' /\ \A i \in DOMAIN flight' : IsSend(flight'[i]) => i = n
  <2>1. core.spot >= CostIf(traderExists, a)
    BY <1>4
  <2> QED BY <1>0, <1>3, <1>4, <1>5, <1>6, <1>7, <1>8, <2>1, MoneyAdded
<1>10. ~Flying' /\ SoldInThisBlock'
  <2>1. ~Flying'
    BY <1>3, <1>8, <1>9 DEF Flying, ToTrader, IsSend
  <2>2. SoldInThisBlock'
    BY <1>3, <1>8 DEF SoldInThisBlock
  <2> QED BY <2>1, <2>2
<1>11. SharePaid' /\ Fresh'
  BY <1>0, <1>5, <1>6, <1>10 DEF SharePaid, Flying, Fresh
<1>12. ThisBlock'
  <2>0. \A i \in DOMAIN flight : i \in DOMAIN flight' /\ flight'[i] = flight[i]
    BY <1>2, <1>5, SentWhat
  <2>1. Opened => Opened'
    BY <2>0 DEF Opened
  <2>2. \A i \in DOMAIN flight' : flight'[i][1] = "toPerp" => flight'[i][2] <= FundedCapital /\ Opened'
    BY <1>3, <1>7, <1>8, <2>1
  <2>3. \A i \in DOMAIN flight' : IsSend(flight'[i]) => Money(flight'[i])
    BY <1>3, <1>8, <1>9
  <2>4. Early'
    BY <1>5 DEF Early
  <2> QED BY <1>5, <1>10, <2>2, <2>3, <2>4 DEF ThisBlock
<1> QED BY <1>0, <1>9, <1>11, <1>12 DEF MoneyInv

\* The stage opens once in a block, or again after a sale of that block.
LEMMA OpenKeeps ==
  ASSUME MoneyInv, TypeInv', OpenFundedStage
  PROVE  MoneyInv'
<1> DEFINE x == <<"toPerp", Fund>>
           s == SetAgent("trader") \o ToPerp(Fund)
<1>0. TypeInv /\ Fresh /\ MoneyThere /\ SharePaid /\ ThisBlock
  BY DEF MoneyInv
<1>1. s \in Seq(Sendable) /\ Send(s) /\ fundedStart' = core.perp + Fund
  BY <1>0, OpenSends
<1>2. Fund \in Nat /\ Fund <= FundedCapital /\ core.perp \in Nat /\ fundedStart' >= core.perp
  BY <1>0, <1>1, FundType
<1>3. x[1] = "toPerp" /\ x[2] = Fund /\ x # Approval /\ Approval[1] = "agent"
  BY DEF Approval
<1>4. s[1] = Approval /\ 1 \in DOMAIN s /\ \A k \in DOMAIN s : k = 1 \/ (k = 2 /\ s[k] = x)
  <2>1. SetAgent("trader") = <<Approval>> /\ (ToPerp(Fund) = <<>> \/ ToPerp(Fund) = <<x>>)
    BY DEF SetAgent, Approval, ToPerp
  <2>2. x \in Sendable /\ Approval \in Sendable
    BY <1>2 DEF Sendable, Harmless, Transfers
  <2> HIDE DEF x
  <2>3. /\ <<Approval>> \in Seq(Sendable) /\ Len(<<Approval>>) = 1 /\ <<Approval>>[1] = Approval
        /\ <<x>> \in Seq(Sendable) /\ Len(<<x>>) = 1 /\ <<x>>[1] = x
        /\ <<>> \in Seq(Sendable) /\ Len(<<>>) = 0
    BY <2>2
  <2>4. CASE ToPerp(Fund) = <<x>>
    <3>1. s = <<Approval>> \o <<x>>
      BY <2>1, <2>4
    <3> HIDE DEF s
    <3>3. s \in Seq(Sendable) /\ Len(s) = 2 /\ s[1] = Approval /\ s[2] = x
      BY <2>2, <3>1, Pair
    <3>4. DOMAIN s = 1..2
      BY <3>3, LenProperties
    <3> QED BY <3>3, <3>4
  <2>5. CASE ToPerp(Fund) = <<>>
    <3>1. s = <<Approval>> \o <<>>
      BY <2>1, <2>5
    <3>2. s = <<Approval>>
      BY <2>3, <3>1, ConcatEmptySeq
    <3>3. DOMAIN s = 1..1 /\ s[1] = Approval
      BY <2>3, <3>2, LenProperties
    <3> QED BY <3>3
  <2> QED BY <2>1, <2>4, <2>5
<1> HIDE DEF s, x
<1>5. /\ block = "evm" /\ block' = "evm" /\ core' = core /\ flight' = flight \o s /\ flight \in Seq(Sendable)
      /\ stage = "PassedAwaitingKey" /\ stage' = "Funded"
      /\ UNCHANGED <<challenge, withdrewNow, funded, traderExists, received>>
  BY <1>0, <1>1 DEF OpenFundedStage, Send, TypeInv, CoreTypes, saleVars, worldVars, traderVars
<1>6. /\ \A i \in DOMAIN flight : i \in DOMAIN flight' /\ flight'[i] = flight[i]
      /\ \A i \in DOMAIN flight' : \/ i \in DOMAIN flight /\ flight'[i] = flight[i]
                                   \/ i > Len(flight) /\ i - Len(flight) \in DOMAIN s /\ flight'[i] = s[i - Len(flight)]
  BY <1>1, <1>5, SentWhat
<1>7. \A k \in DOMAIN s : ~IsSend(s[k]) /\ ~Money(s[k])
  BY <1>3, <1>4 DEF IsSend, Money
<1>8. MoneyThere'
  BY <1>0, <1>1, <1>5, <1>7, MoneyKept
<1>9. \A i \in DOMAIN flight' : IsSend(flight'[i]) => i \in DOMAIN flight /\ flight'[i] = flight[i]
  BY <1>6, <1>7
<1>10. ~Flying /\ ~Flying' /\ (SoldInThisBlock' <=> SoldInThisBlock)
  <2>1. ~Flying
    BY <1>0, <1>5 DEF SharePaid, Flying
  <2>2. ~Flying'
    BY <1>9, <2>1 DEF Flying, ToTrader, IsSend
  <2>3. SoldInThisBlock' <=> SoldInThisBlock
    BY <1>6, <1>9 DEF SoldInThisBlock, IsSend
  <2> QED BY <2>1, <2>2, <2>3
<1>11. SharePaid' /\ Fresh'
  BY <1>0, <1>5, <1>10 DEF SharePaid, Flying, Fresh
<1>12. Opened'
  <2>1. Len(flight) + 1 \in DOMAIN flight' /\ flight'[Len(flight) + 1] = s[1]
    BY <1>1, <1>4, <1>5, SentSeq
  <2> QED BY <1>4, <2>1 DEF Opened
<1>13. \A i \in DOMAIN flight' : flight'[i][1] = "toPerp" => flight'[i][2] <= FundedCapital
  <2> SUFFICES ASSUME NEW i \in DOMAIN flight', flight'[i][1] = "toPerp" PROVE flight'[i][2] <= FundedCapital
    OBVIOUS
  <2>1. CASE i \in DOMAIN flight /\ flight'[i] = flight[i]
    BY <1>0, <1>5, <2>1 DEF ThisBlock
  <2>2. CASE i > Len(flight) /\ i - Len(flight) \in DOMAIN s /\ flight'[i] = s[i - Len(flight)]
    BY <1>2, <1>3, <1>4, <2>2
  <2> QED BY <1>6, <2>1, <2>2
<1>14. ASSUME ~SoldInThisBlock
       PROVE  \A i, j \in DOMAIN flight' : flight'[i][1] = "toPerp" /\ flight'[j][1] = "toPerp" => i = j
  <2>1. \A i \in DOMAIN flight : flight[i][1] # "toPerp"
    BY <1>0, <1>5, <1>14 DEF ThisBlock
  <2>2. Len(flight) \in Nat /\ DOMAIN flight' \subseteq Nat
    BY <1>1, <1>5, SentSeq
  <2>3. \A i \in DOMAIN flight' : flight'[i][1] = "toPerp" => i - Len(flight) = 2
    BY <1>3, <1>4, <1>6, <2>1
  <2> QED BY <2>2, <2>3
<1>15. ThisBlock'
  <2>1. \A i \in DOMAIN flight' : IsSend(flight'[i]) /\ ~Money(flight'[i]) => withdrewNow'
    BY <1>0, <1>5, <1>9 DEF ThisBlock
  <2>2. SoldInThisBlock' => challenge' # "none"
    BY <1>0, <1>5, <1>10 DEF ThisBlock
  <2>3. funded'.owed = 0 /\ ~funded'.done
    BY <1>0, <1>5 DEF Fresh
  <2>4. core'.perp = core.perp
    BY <1>5
  <2> QED BY <1>2, <1>5, <1>10, <1>12, <1>13, <1>14, <2>1, <2>2, <2>3, <2>4 DEF ThisBlock
<1> QED BY <1>0, <1>8, <1>11, <1>15 DEF MoneyInv

\* A share is paid by a stage that was not opened in this block, so it goes alone.
LEMMA PaysOutKeeps ==
  ASSUME MoneyInv, TypeInv', stage = "Closing", PaysOut
  PROVE  MoneyInv'
<1> DEFINE a == <<"send", funded'.sent, "trader">>
<1>0. TypeInv /\ Fresh /\ MoneyThere /\ SharePaid /\ ThisBlock
  BY DEF MoneyInv
<1>1. PICK d \in Seq(Drains) : Send(d \o SendUsdc("trader", funded'.sent))
  BY DEF PaysOut
<1>2. funded'.sent \in Nat /\ funded'.sent > 0 /\ SendUsdc("trader", funded'.sent) = <<a>>
  BY DEF PaysOut, Closings, SendUsdc
<1>3. d \in Seq(Sendable) /\ a \in Sendable /\ \A k \in DOMAIN d : d[k] \in Drains
  BY <1>2, DrainsAre DEF Sendable, Harmless, Transfers, Recipients
<1>4. Money(a) /\ ToTrader(a) /\ a # Approval /\ a[1] = "send" /\ a[2] = funded'.sent
      /\ CostIf(traderExists, a) = SendCost(traderExists, funded'.sent)
  BY <1>0 DEF Money, ToTrader, Approval, CostIf, TypeInv
<1>5. /\ block = "evm" /\ block' = "evm" /\ core' = core /\ flight' = flight \o (d \o <<a>>)
      /\ flight \in Seq(Sendable) /\ stage' = "Closing" /\ core.spot \in Nat
      /\ UNCHANGED <<challenge, withdrewNow, fundedStart, traderExists, received>>
  BY <1>0, <1>1, <1>2 DEF PaysOut, Send, TypeInv, CoreTypes, Accounts, saleVars, worldVars, traderVars
<1> HIDE DEF a
<1>6. ~Opened /\ ~Early
  <2>1. ~Early
    BY DEF Early
  <2>2. ShareNow # 0
    BY DEF PaysOut
  <2> QED BY <1>5, <2>1, <2>2, OpenedOwes
<1>7. ~Flying
  BY <1>0 DEF SharePaid, Flying, PaysOut
<1>8. ~InFlight("send") /\ ~InFlight("toPerp")
  BY <1>0, <1>5, <1>6, <1>7 DEF ThisBlock, InFlight, IsSend, Flying
<1>9. PICK n \in DOMAIN flight' :
        /\ flight'[n] = a
        /\ \A i \in DOMAIN flight' : i # n => i < n /\ ((i \in DOMAIN flight /\ flight'[i] = flight[i]) \/ flight'[i] \in Drains)
  <2>1. \E n \in DOMAIN flight' :
          /\ flight'[n] = a
          /\ \A i \in DOMAIN flight' : i # n =>
                i < n /\ ((i \in DOMAIN flight /\ flight'[i] = flight[i]) \/ \E j \in DOMAIN d : flight'[i] = d[j])
          /\ n > Len(flight)
    BY <1>3, <1>5, SentLast
  <2> QED BY <1>3, <2>1
<1>10. MoneyThere' /\ \A i \in DOMAIN flight' : IsSend(flight'[i]) => i = n
  <2>1. core.spot >= CostIf(traderExists, a)
    BY <1>2, <1>4, <1>5, UnitsAssumption DEF PaysOut, SendCost
  <2>2. \A j \in DOMAIN flight : flight[j][1] # "toPerp"
    BY <1>8 DEF InFlight
  <2> QED BY <1>0, <1>4, <1>5, <1>8, <1>9, <2>1, <2>2, MoneyAdded
<1>11. \A b \in Drains : b[1] # "toPerp" /\ b # Approval
  BY DEF Drains, Stops, Approval
<1>12. ~Opened' /\ ~InFlight("toPerp")' /\ Flying' /\ ~SoldInThisBlock'
  <2>1. ~Opened'
    BY <1>4, <1>6, <1>9, <1>11 DEF Opened
  <2>2. ~InFlight("toPerp")'
    BY <1>4, <1>8, <1>9, <1>11 DEF InFlight
  <2>3. Flying'
    BY <1>4, <1>9 DEF Flying
  <2>4. ~SoldInThisBlock'
    BY <1>4, <1>9, <1>10 DEF SoldInThisBlock, IsSend, ToTrader
  <2> QED BY <2>1, <2>2, <2>3, <2>4
<1>13. SharePaid'
  <2>1. received' = 0
    BY <1>0, <1>5, <1>7 DEF SharePaid, Fresh, PaysOut
  <2>2. \A i \in DOMAIN flight' : ToTrader(flight'[i]) => i = n
    BY <1>10 DEF ToTrader, IsSend
  <2>3. funded'.done /\ funded'.spotBefore = core.spot /\ funded'.at = 0
    BY DEF PaysOut
  <2>4. core'.spot >= funded'.spotBefore
    BY <1>5, <2>3
  <2> QED BY <1>2, <1>4, <1>5, <1>9, <1>10, <1>12, <2>1, <2>2, <2>3, <2>4 DEF SharePaid
<1>14. ThisBlock'
  <2>1. \A i \in DOMAIN flight' : IsSend(flight'[i]) => Money(flight'[i]) /\ ToTrader(flight'[i])
    BY <1>4, <1>9, <1>10
  <2>2. \A i \in DOMAIN flight' : flight'[i][1] # "toPerp"
    BY <1>12 DEF InFlight
  <2> QED BY <1>12, <2>1, <2>2 DEF ThisBlock
<1>15. Fresh'
  BY <1>5 DEF Fresh, PaysOut
<1> QED BY <1>10, <1>13, <1>14, <1>15 DEF MoneyInv


\* Landing in order, money finds what it needs, and a share that lands has reached the trader.
LEMMA LandKeepsMoney ==
  ASSUME MoneyInv, TypeInv', Land, "send" \notin LateOps
  PROVE  MoneyInv'
<1>0. TypeInv /\ Fresh /\ MoneyThere /\ SharePaid /\ ThisBlock /\ core.spot \in Nat /\ core.spot <= MaxSpot
      /\ flight \in Seq(Sendable) /\ core \in Accounts /\ traderExists \in BOOLEAN /\ traderExists' \in BOOLEAN
      /\ core' \in Accounts /\ core'.spot \in Nat
  BY DEF MoneyInv, TypeInv, CoreTypes, Accounts
<1>1. PICK i \in DOMAIN flight : Lands(i)
  BY LandIs
<1>2. PICK d \in Landed(core, flight[i], Reaches(flight[i]), keySpoiled) : core' = Counted(d)
  BY <1>1 DEF Lands
<1>3. block' = "core" /\ UNCHANGED <<stage, funded>> /\ flight' = Without(i) /\ (traderExists => traderExists')
  BY <1>1, LandIs DEF Lands, contractVars, fundedVars, traderVars
<1>4. /\ \A j \in DOMAIN flight' : Was(i, j) \in DOMAIN flight /\ Was(i, j) # i /\ flight'[j] = flight[Was(i, j)]
      /\ \A j, l \in DOMAIN flight' : j < l <=> Was(i, j) < Was(i, l)
      /\ \A j, l \in DOMAIN flight' : Was(i, j) = Was(i, l) => j = l
      /\ \A l \in DOMAIN flight : l # i => \E j \in DOMAIN flight' : Was(i, j) = l
  BY <1>0, <1>3, LeftWas
<1>5. DOMAIN flight \subseteq Nat \ {0} /\ flight[i] \in Sendable /\ d \in Accounts
  BY <1>0, <1>3, LeftSeq, LandedAccount
<1>6. \A l \in DOMAIN flight : IsSend(flight[l]) => ~(l < i)
  BY <1>1, <1>5 DEF Lands, MayLand, IsSend
<1>7. flight[i][1] \in {"agent", "cancel", "close", "toSpot", "toPerp", "send"}
  BY <1>5 DEF Sendable, Harmless, Transfers, Stops, Approval, Replacement
<1>8. /\ flight[i][1] = "toPerp" => flight[i][2] \in Nat /\ flight[i][2] * SpotPerPerp \in Nat
      /\ flight[i][1] = "send" => flight[i][2] \in Nat /\ SendCost(Reaches(flight[i]), flight[i][2]) \in Nat
  <2>1. flight[i][1] \in {"toPerp", "send"} => flight[i][2] \in Nat
    BY <1>5 DEF Sendable, Harmless, Transfers, Stops, Approval, Replacement
  <2> QED BY <2>1, UnitsAssumption DEF SendCost
<1>9. /\ flight[i][1] \in {"agent", "cancel", "close"} => core'.spot = core.spot
      /\ flight[i][1] = "toSpot" => core'.spot >= core.spot
      /\ flight[i][1] = "toPerp" => core'.spot = core.spot - flight[i][2] * SpotPerPerp \/ core'.spot = core.spot
      /\ flight[i][1] = "send" => core'.spot = IF core.spot >= SendCost(Reaches(flight[i]), flight[i][2])
                                               THEN core.spot - SendCost(Reaches(flight[i]), flight[i][2])
                                               ELSE core.spot
  <2>1. /\ flight[i][1] \in {"agent", "cancel", "close"} => d.spot = core.spot
        /\ flight[i][1] = "toSpot" => d.spot >= core.spot
        /\ flight[i][1] = "toPerp" => d.spot = core.spot - flight[i][2] * SpotPerPerp \/ d.spot = core.spot
        /\ flight[i][1] = "send" => d.spot = IF core.spot >= SendCost(Reaches(flight[i]), flight[i][2])
                                             THEN core.spot - SendCost(Reaches(flight[i]), flight[i][2])
                                             ELSE core.spot
    BY <1>0, <1>2, <1>5, LandedType
  <2>2. d.spot \in Nat /\ (d.spot <= MaxSpot => core'.spot = d.spot)
        /\ \A n \in Nat : n <= MaxSpot /\ n <= d.spot => n <= core'.spot
    BY <1>2, <1>5, CountedType DEF Accounts
  <2>3. flight[i][1] # "toSpot" => d.spot <= core.spot
    BY <1>0, <1>7, <1>8, <2>1
  <2>4. flight[i][1] # "toSpot" => d.spot <= MaxSpot
    BY <1>0, <2>2, <2>3, PoolAssumption
  <2> QED BY <1>0, <2>1, <2>2, <2>4
<1>10. flight[i][1] \notin {"send", "toPerp"} => core'.spot >= core.spot
  BY <1>0, <1>7, <1>9
<1>11. MoneyThere'
  <2> SUFFICES ASSUME NEW j \in DOMAIN flight', Money(flight'[j])
               PROVE  /\ core'.spot >= CostIf(traderExists', flight'[j])
                      /\ \A l \in DOMAIN flight' : l < j =>
                           /\ ~IsSend(flight'[l])
                           /\ flight'[l][1] = "toPerp" =>
                                /\ flight'[l][2] <= FundedCapital
                                /\ core'.spot >= CostIf(traderExists', flight'[j]) + FundedInSpot
                      /\ \A l, m \in DOMAIN flight' :
                           l < j /\ m < j /\ flight'[l][1] = "toPerp" /\ flight'[m][1] = "toPerp" => l = m
    BY DEF MoneyThere
  <2> DEFINE k == Was(i, j)
             cost == CostIf(traderExists, flight[k])
             costs == CostIf(traderExists', flight'[j])
  <2>1. k \in DOMAIN flight /\ k # i /\ flight'[j] = flight[k] /\ Money(flight[k]) /\ flight[k][2] \in Nat
    BY <1>0, <1>4, MoneyIs
  <2>2. i < k
    <3>1. ~(k < i) /\ k \in Nat /\ i \in Nat
      BY <1>0, <1>5, <1>6, <2>1, MoneyIs
    <3> QED BY <2>1, <3>1
  <2>3. cost \in Nat /\ costs \in Nat /\ costs <= cost /\ FundedInSpot \in Nat
    BY <1>0, <1>3, <2>1, CostIfType
  <2>4. /\ core.spot >= cost
        /\ \A l \in DOMAIN flight : l < k =>
             /\ ~IsSend(flight[l])
             /\ flight[l][1] = "toPerp" => flight[l][2] <= FundedCapital /\ core.spot >= cost + FundedInSpot
        /\ \A l, m \in DOMAIN flight :
             l < k /\ m < k /\ flight[l][1] = "toPerp" /\ flight[m][1] = "toPerp" => l = m
    BY <1>0, <2>1 DEF MoneyThere
  <2> HIDE DEF k, cost, costs
  <2>5. core'.spot >= costs
    <3>1. CASE flight[i][1] = "toPerp"
      <4>1. flight[i][2] <= FundedCapital /\ core.spot >= cost + FundedInSpot /\ flight[i][2] \in Nat
        BY <1>8, <2>2, <2>4, <3>1
      <4>2. \A x, p, q \in Nat : x <= p => x * q <= p * q
        OBVIOUS
      <4>3. flight[i][2] * SpotPerPerp <= FundedInSpot
        BY <4>1, <4>2, PoolAssumption, UnitsAssumption DEF FundedInSpot
      <4>4. core'.spot >= core.spot - FundedInSpot
        BY <1>0, <1>8, <1>9, <2>3, <3>1, <4>3
      <4> QED BY <1>0, <2>3, <4>1, <4>4
    <3>2. CASE flight[i][1] # "toPerp"
      <4>1. flight[i][1] # "send"
        BY <2>2, <2>4 DEF IsSend
      <4>2. core'.spot >= core.spot
        BY <1>10, <3>2, <4>1
      <4> QED BY <1>0, <2>3, <2>4, <4>2
    <3> QED BY <3>1, <3>2
  <2>6. ASSUME NEW l \in DOMAIN flight', l < j
        PROVE  /\ ~IsSend(flight'[l])
               /\ flight'[l][1] = "toPerp" => flight'[l][2] <= FundedCapital /\ core'.spot >= costs + FundedInSpot
    <3>1. Was(i, l) \in DOMAIN flight /\ Was(i, l) # i /\ Was(i, l) < k /\ flight'[l] = flight[Was(i, l)]
      BY <1>4, <2>6 DEF k
    <3>2. ASSUME flight'[l][1] = "toPerp" PROVE core'.spot >= costs + FundedInSpot
      <4>1. core.spot >= cost + FundedInSpot /\ flight[i][1] # "toPerp"
        BY <2>2, <2>4, <3>1, <3>2
      <4>2. flight[i][1] # "send"
        BY <2>2, <2>4 DEF IsSend
      <4>3. core'.spot >= core.spot
        BY <1>10, <4>1, <4>2
      <4> QED BY <1>0, <2>3, <4>1, <4>3
    <3> QED BY <2>4, <3>1, <3>2
  <2>7. \A l, m \in DOMAIN flight' :
          l < j /\ m < j /\ flight'[l][1] = "toPerp" /\ flight'[m][1] = "toPerp" => l = m
    <3> SUFFICES ASSUME NEW l \in DOMAIN flight', NEW m \in DOMAIN flight', l < j, m < j,
                        flight'[l][1] = "toPerp", flight'[m][1] = "toPerp"
                 PROVE  l = m
      OBVIOUS
    <3>1. Was(i, l) \in DOMAIN flight /\ Was(i, l) < k /\ flight'[l] = flight[Was(i, l)]
      BY <1>4 DEF k
    <3>2. Was(i, m) \in DOMAIN flight /\ Was(i, m) < k /\ flight'[m] = flight[Was(i, m)]
      BY <1>4 DEF k
    <3>3. Was(i, l) = Was(i, m)
      BY <2>4, <3>1, <3>2
    <3> QED BY <1>4, <3>3
  <2> QED BY <2>5, <2>6, <2>7 DEF costs
<1>12. CASE ToTrader(flight[i])
  <2>1. /\ flight[i][2] = funded.sent /\ funded.sent > 0 /\ received = 0
        /\ \A j \in DOMAIN flight : IsSend(flight[j]) => j = i
    BY <1>0, <1>12 DEF SharePaid, Flying
  <2>2. core.spot >= SendCost(traderExists, flight[i][2]) /\ Reaches(flight[i]) = traderExists
    <3>1. CostIf(traderExists, flight[i]) = SendCost(traderExists, flight[i][2]) /\ Reaches(flight[i]) = traderExists
      BY <1>0, <1>12 DEF CostIf, ToTrader, Reaches, RecipientExists
    <3> QED BY <1>0, <1>12, <3>1, MoneyIs DEF MoneyThere
  <2>3. core'.spot < core.spot
    <3>1. flight[i][1] = "send"
      BY <1>12 DEF ToTrader
    <3>2. SendCost(traderExists, flight[i][2]) >= flight[i][2] /\ SendCost(traderExists, flight[i][2]) \in Nat
      BY <1>8, <3>1, UnitsAssumption DEF SendCost
    <3>3. core'.spot = core.spot - SendCost(traderExists, flight[i][2])
      BY <1>9, <2>2, <3>1
    <3> QED BY <1>0, <1>8, <2>1, <3>1, <3>2, <3>3
  <2>4. received' = funded'.sent
    <3>1. received' = received + flight[i][2]
      BY <1>1, <1>12, <2>3 DEF Lands, ToTrader
    <3> QED BY <1>3, <1>8, <1>12, <2>1, <3>1 DEF ToTrader
  <2>5. \A j \in DOMAIN flight' : ~ToTrader(flight'[j])
    BY <1>4, <2>1 DEF ToTrader, IsSend
  <2> QED BY <1>0, <1>3, <1>11, <2>4, <2>5 DEF MoneyInv, SharePaid, Flying, Fresh, ThisBlock
<1>13. CASE ~ToTrader(flight[i])
  <2>1. received' = received
    BY <1>1, <1>13 DEF Lands, ToTrader, traderVars
  <2>2. Flying' <=> Flying
    BY <1>4, <1>13 DEF Flying
  <2>3. ASSUME NEW j \in DOMAIN flight', ToTrader(flight'[j])
        PROVE  /\ stage' = "Closing" /\ funded'.done /\ flight'[j][2] = funded'.sent /\ funded'.sent > 0
               /\ funded'.at = 0 /\ core'.spot >= funded'.spotBefore
               /\ ~InFlight("toPerp")'
               /\ \A l \in DOMAIN flight' : IsSend(flight'[l]) => l = j
    <3> DEFINE k == Was(i, j)
    <3>1. k \in DOMAIN flight /\ k # i /\ flight'[j] = flight[k] /\ ToTrader(flight[k])
      BY <1>4, <2>3
    <3> HIDE DEF k
    <3>2. /\ stage = "Closing" /\ funded.done /\ flight[k][2] = funded.sent /\ funded.sent > 0
          /\ funded.at = 0 /\ core.spot >= funded.spotBefore
          /\ ~InFlight("toPerp")
          /\ \A l \in DOMAIN flight : IsSend(flight[l]) => l = k
      BY <1>0, <3>1 DEF SharePaid
    <3>3. ~InFlight("toPerp")'
      BY <1>0, <1>3, <3>2, LeftKinds
    <3>4. core'.spot >= core.spot
      BY <1>10, <3>1, <3>2 DEF InFlight, IsSend
    <3>5. core'.spot >= funded'.spotBefore
      <4>1. funded.spotBefore \in Nat
        BY <1>0 DEF TypeInv, Closings
      <4> QED BY <1>0, <1>3, <3>2, <3>4, <4>1
    <3>6. \A l \in DOMAIN flight' : IsSend(flight'[l]) => l = j
      BY <1>4, <3>2 DEF k
    <3> QED BY <1>3, <3>1, <3>2, <3>3, <3>5, <3>6
  <2>4. SharePaid'
    <3>1. (Flying' => received' = 0) /\ (~Flying' => received' = funded'.sent)
      BY <1>0, <1>3, <2>1, <2>2 DEF SharePaid
    <3> QED BY <2>3, <3>1 DEF SharePaid
  <2> QED BY <1>0, <1>3, <1>11, <2>4 DEF MoneyInv, Fresh, ThisBlock
<1> QED BY <1>12, <1>13


\* HyperCore on its own takes nothing from spot.
LEMMA WorldKeepsMoney ==
  ASSUME MoneyInv, TypeInv', block' = "core", flight' = flight, core'.spot >= core.spot,
         traderExists => traderExists', UNCHANGED <<stage, funded, received>>
  PROVE  MoneyInv'
<1>0. TypeInv /\ Fresh /\ MoneyThere /\ SharePaid /\ core.spot \in Nat /\ core'.spot \in Nat
      /\ traderExists \in BOOLEAN /\ traderExists' \in BOOLEAN
  BY DEF MoneyInv, TypeInv, CoreTypes, Accounts
<1>1. MoneyThere'
  <2> SUFFICES ASSUME NEW i \in DOMAIN flight, Money(flight[i])
               PROVE  /\ core'.spot >= CostIf(traderExists', flight[i])
                      /\ \A j \in DOMAIN flight : j < i =>
                           /\ ~IsSend(flight[j])
                           /\ flight[j][1] = "toPerp" =>
                                /\ flight[j][2] <= FundedCapital
                                /\ core'.spot >= CostIf(traderExists', flight[i]) + FundedInSpot
                      /\ \A j, l \in DOMAIN flight :
                           j < i /\ l < i /\ flight[j][1] = "toPerp" /\ flight[l][1] = "toPerp" => j = l
    BY DEF MoneyThere
  <2>1. flight[i][2] \in Nat
    BY <1>0, MoneyIs
  <2>2. /\ CostIf(traderExists, flight[i]) \in Nat /\ CostIf(traderExists', flight[i]) \in Nat
        /\ CostIf(traderExists', flight[i]) <= CostIf(traderExists, flight[i]) /\ FundedInSpot \in Nat
    BY <1>0, <2>1, CostIfType
  <2>3. \A n \in Nat : core.spot >= CostIf(traderExists, flight[i]) + n => core'.spot >= CostIf(traderExists', flight[i]) + n
    BY <1>0, <2>2
  <2>4. core.spot >= CostIf(traderExists, flight[i]) => core'.spot >= CostIf(traderExists', flight[i])
    BY <1>0, <2>2
  <2> QED BY <1>0, <2>2, <2>3, <2>4 DEF MoneyThere
<1>2. SharePaid'
  <2>1. funded.spotBefore \in Nat
    BY <1>0 DEF TypeInv, Closings
  <2>2. core.spot >= funded.spotBefore => core'.spot >= funded'.spotBefore
    BY <1>0, <2>1
  <2> QED BY <1>0, <2>2 DEF SharePaid, Flying, InFlight
<1> QED BY <1>0, <1>1, <1>2 DEF MoneyInv, Fresh, ThisBlock

\* When a block begins everything that could take from spot has landed.
LEMMA BeginKeepsMoney ==
  ASSUME MoneyInv, TypeInv', {"agent", "toPerp", "send"} \cap LateOps = {}, NEW ticks \in BOOLEAN, BeginBlock(ticks)
  PROVE  MoneyInv'
<1>0. TypeInv /\ Fresh /\ SharePaid /\ funded \in Closings
  BY DEF MoneyInv, TypeInv
<1>1. /\ flight' = flight /\ UNCHANGED <<stage, received, challenge>>
      /\ \A i \in DOMAIN flight : flight[i][1] \notin {"agent", "toPerp", "send"}
  BY DEF BeginBlock, AllLanded, traderVars
<1>2. /\ funded'.sent = funded.sent /\ funded'.done = funded.done /\ funded'.owed = funded.owed
      /\ funded'.taken = funded.taken
  BY <1>0 DEF BeginBlock, Closings
<1>3. \A i \in DOMAIN flight : ~IsSend(flight[i]) /\ ~Money(flight[i]) /\ ~ToTrader(flight[i]) /\ flight[i] # Approval
  BY <1>1 DEF IsSend, Money, ToTrader, Approval
<1>4. ~Flying /\ ~Flying' /\ ~Opened' /\ ~SoldInThisBlock'
  BY <1>1, <1>3 DEF Flying, Opened, SoldInThisBlock, IsSend
<1>5. SharePaid' /\ MoneyThere'
  BY <1>0, <1>1, <1>2, <1>3, <1>4 DEF SharePaid, MoneyThere
<1>6. Fresh' /\ ThisBlock'
  BY <1>0, <1>1, <1>2, <1>3, <1>4 DEF Fresh, ThisBlock
<1> QED BY <1>5, <1>6 DEF MoneyInv

\* A stage that a share is on its way from cannot be closed.
LEMMA FlyingIsPending ==
  ASSUME MoneyInv, Flying
  PROVE  stage = "Closing" /\ PayoutPending(funded) /\ funded.done
<1>1. PICK i \in DOMAIN flight : ToTrader(flight[i])
  BY DEF Flying
<1>2. stage = "Closing" /\ funded.done /\ funded.sent > 0 /\ funded.at = 0 /\ core.spot >= funded.spotBefore
  BY <1>1 DEF MoneyInv, SharePaid
<1>3. funded.sent \in Nat /\ funded.spotBefore \in Nat /\ core.spot \in Nat
  BY DEF MoneyInv, TypeInv, Closings, CoreTypes, Accounts
<1> QED BY <1>2, <1>3, PoolAssumption DEF PayoutPending

\* The calls that send nothing.
LEMMA SilentKeepsMoney ==
  ASSUME MoneyInv, TypeInv', Send(<<>>), UNCHANGED <<withdrewNow, fundedStart, funded, received, traderExists>>,
         \/ stage' = stage
         \/ stage = "Challenge" /\ stage' \in {"PassedAwaitingKey", "Idle"}
         \/ stage = "PassedAwaitingKey" /\ stage' = "Idle",
         SoldInThisBlock => challenge' # "none" \/ challenge = "none"
  PROVE  MoneyInv'
<1>1. <<>> \in Seq(Quiet)
  OBVIOUS
<1>2. Fresh' /\ block = "evm"
  BY DEF MoneyInv, Fresh, Send
<1>3. Flying => /\ stage' = "Closing" /\ funded'.done /\ received' = received
                /\ funded'.sent = funded.sent /\ funded'.at = funded.at /\ funded'.spotBefore = funded.spotBefore
  BY FlyingIsPending
<1>4. ~Flying => received' = funded'.sent
  BY DEF MoneyInv, SharePaid
<1>5. Opened /\ stage' \in {"Funded", "Closing"} => fundedStart' >= core.perp /\ funded'.owed = 0 /\ ~funded'.done
  BY <1>2, OpenedOwes DEF Early
<1>6. /\ stage' \in {"Challenge", "PassedAwaitingKey"} => stage \in {"Challenge", "PassedAwaitingKey"}
      /\ stage' \in {"Funded", "Closing"} => stage \in {"Funded", "Closing"}
  OBVIOUS
<1> QED BY <1>1, <1>2, <1>3, <1>4, <1>5, <1>6, QuietKeepsMoney

\* The calls that cut the trader off.
LEMMA CutKeepsMoney ==
  ASSUME MoneyInv, TypeInv', NEW s \in Seq(Stops \cup {Replacement}), Send(s),
         UNCHANGED <<withdrewNow, challenge, fundedStart, funded, received, traderExists>>,
         stage' = "Closing", stage \in {"Funded", "Closing"}
  PROVE  MoneyInv'
<1>1. s \in Seq(Quiet)
  BY SeqMonotonic DEF Quiet, Drains
<1>2. Fresh' /\ block = "evm"
  BY DEF MoneyInv, Fresh, Send
<1>3. Flying => /\ stage' = "Closing" /\ funded'.done /\ received' = received
                /\ funded'.sent = funded.sent /\ funded'.at = funded.at /\ funded'.spotBefore = funded.spotBefore
  BY FlyingIsPending
<1>4. ~Flying => received' = funded'.sent
  BY DEF MoneyInv, SharePaid
<1>5. Opened => fundedStart' >= core.perp /\ funded'.owed = 0 /\ ~funded'.done
  BY <1>2, OpenedOwes DEF Early
<1> QED BY <1>1, <1>2, <1>3, <1>4, <1>5, QuietKeepsMoney

\* A closing step that drains and waits, or frees the pool: no share is on its way then.
LEMMA DrainKeepsMoney ==
  ASSUME MoneyInv, TypeInv', stage = "Closing", Waits \/ Frees
  PROVE  MoneyInv'
<1>1. PICK s \in Seq(Drains) : Send(s)
  BY DEF Waits, Frees
<1>2. s \in Seq(Quiet) /\ block = "evm"
  BY <1>1, SeqMonotonic DEF Quiet, Send
<1>3. UNCHANGED <<withdrewNow, challenge, traderExists>>
  BY DEF Waits, Frees, saleVars, worldVars, traderVars
<1>4. CASE Waits
  <2>1. SameShare(funded') /\ stage' = "Closing" /\ UNCHANGED <<fundedStart, received>>
    BY <1>4 DEF Waits, worldVars, traderVars
  <2>2. Fresh'
    BY <2>1 DEF MoneyInv, Fresh, SameShare
  <2>3. Flying => /\ stage' = "Closing" /\ funded'.done /\ received' = received
                  /\ funded'.sent = funded.sent /\ funded'.at = funded.at /\ funded'.spotBefore = funded.spotBefore
    BY <2>1, FlyingIsPending DEF SameShare
  <2>4. ~Flying => received' = funded'.sent
    BY <2>1 DEF MoneyInv, SharePaid, SameShare
  <2>5. Opened => fundedStart' >= core.perp /\ funded'.owed = 0 /\ ~funded'.done
    BY <1>2, <2>1, OpenedOwes DEF Early, SameShare
  <2> QED BY <1>1, <1>2, <1>3, <2>1, <2>2, <2>3, <2>4, <2>5, QuietKeepsMoney
<1>5. CASE Frees
  <2>1. ~Flying
    BY <1>5, FlyingIsPending DEF Frees
  <2>2. stage' = "Idle" /\ received' = 0 /\ funded'.sent = 0 /\ Fresh'
    BY <1>5 DEF Frees, Fresh
  <2> QED BY <1>1, <1>2, <1>3, <2>1, <2>2, QuietKeepsMoney
<1> QED BY <1>4, <1>5

LEMMA NextMoneyInv ==
  ASSUME {"agent", "toPerp", "send"} \cap LateOps = {}
  PROVE  MoneyInv /\ [Next]_vars => MoneyInv'
<1> SUFFICES ASSUME MoneyInv, [Next]_vars PROVE MoneyInv'
  OBVIOUS
<1>0. TypeInv /\ TypeInv' /\ CoreTypes /\ core.spot \in Nat
  BY NextTypeInv DEF MoneyInv, TypeInv, CoreTypes, Accounts
<1>1. CASE \/ PrepareAccount \/ WithdrawEarned \/ ChallengeStartsOrAborts \/ ChallengeStops
           \/ OnChallengePassed \/ OnChallengeSettled \/ AbandonFundedStage \/ RegistryMoves
  <2>1. /\ Send(<<>>) /\ UNCHANGED <<withdrewNow, fundedStart, funded, received, traderExists>>
        /\ \/ stage' = stage
           \/ stage = "Challenge" /\ stage' \in {"PassedAwaitingKey", "Idle"}
           \/ stage = "PassedAwaitingKey" /\ stage' = "Idle"
        /\ SoldInThisBlock => challenge' # "none" \/ challenge = "none"
    BY <1>1 DEF PrepareAccount, WithdrawEarned, ChallengeStartsOrAborts, ChallengeStops, OnChallengePassed,
       OnChallengeSettled, AbandonFundedStage, RegistryMoves, RegistryChanges, PurgeSpoiled,
       saleVars, fundedVars, worldVars, traderVars
  <2> QED BY <1>0, <2>1, SilentKeepsMoney
<1>2. ASSUME NEW amount \in Withdrawals, WithdrawOnCore(amount) PROVE MoneyInv'
  BY <1>0, <1>2, WithdrawKeeps
<1>3. CASE BuyChallenge
  BY <1>0, <1>3, BuyKeeps
<1>4. CASE OpenFundedStage
  BY <1>0, <1>4, OpenKeeps
<1>5. ASSUME NEW oids \in CancelSets, NEW extra \in ExtraSets, BreachFunded(oids, extra) \/ StopFunded(oids, extra)
      PROVE  MoneyInv'
  <2>1. StopActions(oids, extra) \in Seq(Stops \cup {Replacement})
    BY <1>0, StopType DEF CoreTypes
  <2>2. /\ Send(StopActions(oids, extra)) /\ stage = "Funded" /\ stage' = "Closing"
        /\ UNCHANGED <<withdrewNow, challenge, fundedStart, funded, received, traderExists>>
    BY <1>5 DEF BreachFunded, StopFunded, EndFunded, saleVars, worldVars, traderVars
  <2> QED BY <1>0, <2>1, <2>2, CutKeepsMoney
<1>6. CASE Recut
  <2>1. CutActions \in Seq(Stops \cup {Replacement})
    BY Singles DEF CutActions, SetAgent, Replacement
  <2>2. /\ Send(CutActions) /\ stage = "Closing" /\ stage' = "Closing"
        /\ UNCHANGED <<withdrewNow, challenge, fundedStart, funded, received, traderExists>>
    BY <1>6 DEF Recut, saleVars, fundedVars, worldVars, traderVars
  <2> QED BY <1>0, <2>1, <2>2, CutKeepsMoney
<1>7. ASSUME NEW oids \in CancelSets, NEW extra \in ExtraSets, SettleFunded(oids, extra)
      PROVE  MoneyInv'
  BY <1>0, <1>7, SettleEnds, PaysOutKeeps, DrainKeepsMoney
<1>8. CASE Land
  BY <1>0, <1>8, LandKeepsMoney
<1>9. ASSUME NEW ticks \in BOOLEAN, BeginBlock(ticks) PROVE MoneyInv'
  BY <1>0, <1>9, BeginKeepsMoney
<1>10. CASE Trade \/ Move \/ Donate \/ Arrive
  <2>1. core'.spot >= core.spot
    BY <1>0, <1>10, WorldAccount DEF TypeInv
  <2>2. block' = "core" /\ flight' = flight /\ UNCHANGED <<stage, funded, received, traderExists>>
    BY <1>10 DEF Trade, Move, Donate, Arrive, AccountChanges, contractVars, fundedVars, worldVars, traderVars
  <2> QED BY <1>0, <2>1, <2>2, WorldKeepsMoney
<1>11. CASE AddressAppears \/ EndBlock
  <2>1. /\ block' = "core" /\ flight' = flight /\ core' = core /\ UNCHANGED <<stage, funded, received>>
        /\ traderExists => traderExists'
    BY <1>11 DEF AddressAppears, EndBlock, contractVars, fundedVars, worldVars, traderVars
  <2>2. core'.spot >= core.spot
    BY <1>0, <2>1
  <2> QED BY <1>0, <2>1, <2>2, WorldKeepsMoney
<1>12. CASE TakeCheckpoint \/ UNCHANGED vars
  <2>1. UNCHANGED <<block, core, flight, stage, challenge, withdrewNow, fundedStart, funded, received, traderExists>>
    BY <1>12 DEF TakeCheckpoint, vars, coreVars, saleVars, fundedVars, worldVars, traderVars
  <2> QED BY <1>0, <2>1 DEF MoneyInv, Fresh, MoneyThere, SharePaid, ThisBlock, Early, Opened, Flying, SoldInThisBlock, InFlight
<1> QED BY <1>1, <1>2, <1>3, <1>4, <1>5, <1>6, <1>7, <1>8, <1>9, <1>10, <1>11, <1>12 DEF Next, Call, World

\* Money sent to a challenge or to the trader finds it on spot when it lands, and nothing is
\* sent before it, where agent actions and transfers land within their block: what the calls
\* of one block take from spot together was there when the first of them read it (buyChallenge,
\* openFundedStage, withdrawOnCore, settleFunded).
THEOREM SentMoneyAlwaysThere ==
  ASSUME {"agent", "toPerp", "send"} \cap LateOps = {}
  PROVE  Spec => []SentMoneyIsThere
<1>1. MoneyInv => SentMoneyIsThere
  <2> SUFFICES ASSUME MoneyInv, NEW i \in DOMAIN flight, flight[i][1] = "send", flight[i][3] \in {"challenge", "trader"}
               PROVE  /\ core.spot >= SendCost(RecipientExists(flight[i][3]), flight[i][2])
                      /\ \A j \in 1..(i - 1) : flight[j][1] # "send"
    BY DEF SentMoneyIsThere
  <2>1. Money(flight[i]) /\ CostIf(traderExists, flight[i]) = SendCost(RecipientExists(flight[i][3]), flight[i][2])
    BY DEF Money, CostIf, RecipientExists
  <2>2. /\ core.spot >= CostIf(traderExists, flight[i])
        /\ \A j \in DOMAIN flight : j < i => ~IsSend(flight[j])
    BY <2>1 DEF MoneyInv, MoneyThere
  <2>3. Len(flight) \in Nat /\ DOMAIN flight = 1..Len(flight) /\ i \in 1..Len(flight)
    BY LenProperties DEF MoneyInv, TypeInv, CoreTypes
  <2>4. \A j \in 1..(i - 1) : j \in DOMAIN flight /\ j < i
    BY <2>3
  <2> QED BY <2>1, <2>2, <2>4 DEF IsSend
<1> QED BY <1>1, InitMoneyInv, NextMoneyInv, PTL DEF Spec


LEMMA OnlySettleCloses ==
  ASSUME Next, Closes
  PROVE  \E oids \in CancelSets, extra \in ExtraSets : SettleFunded(oids, extra)
<1>0. stage = "Closing" /\ stage' = "Idle" /\ stage' # stage
  BY DEF Closes
<1>1. /\ \A oids \in CancelSets, extra \in ExtraSets : ~BreachFunded(oids, extra) /\ ~StopFunded(oids, extra)
      /\ \A amount \in Withdrawals : ~WithdrawOnCore(amount)
  BY <1>0 DEF BreachFunded, StopFunded, EndFunded, WithdrawOnCore
<1>2. ~World /\ ~Land /\ ~EndBlock /\ \A ticks \in BOOLEAN : ~BeginBlock(ticks)
  BY <1>0 DEF World, Trade, Move, Donate, Arrive, AccountChanges, AddressAppears, RegistryMoves,
     RegistryChanges, PurgeSpoiled, contractVars, Land, EndBlock, BeginBlock
<1>3. /\ ~PrepareAccount /\ ~WithdrawEarned /\ ~BuyChallenge /\ ~ChallengeStartsOrAborts /\ ~ChallengeStops
      /\ ~OnChallengePassed /\ ~OnChallengeSettled /\ ~OpenFundedStage /\ ~TakeCheckpoint /\ ~Recut
      /\ ~AbandonFundedStage
  BY <1>0 DEF PrepareAccount, WithdrawEarned, BuyChallenge, ChallengeStartsOrAborts, ChallengeStops, AbandonFundedStage,
     OnChallengePassed, OnChallengeSettled, OpenFundedStage, TakeCheckpoint, Recut
<1> QED BY <1>1, <1>2, <1>3 DEF Next, Call

\* A pool is free again only when the trader has what was sent, nothing is open or resting, and
\* the perp side is empty or on its way to spot (settleFunded).
THEOREM ClosedAlwaysDone ==
  ASSUME {"agent", "toPerp", "send"} \cap LateOps = {}
  PROVE  Spec => ClosedMeansDone
<1> DEFINE Done == /\ received = funded.sent \/ funded.at > PayoutWait
                   /\ core.open = {} /\ core.orders = {}
                   /\ core.perp = 0 \/ InFlight("toSpot")'
<1>1. MoneyInv /\ [Next]_vars => [Closes => Done]_vars
  <2> SUFFICES ASSUME MoneyInv, Next, Closes PROVE Done
    BY DEF vars
  <2>1. TypeInv /\ CoreTypes /\ core \in Accounts
    BY DEF MoneyInv, TypeInv, CoreTypes
  <2>2. Waits \/ PaysOut \/ Frees
    BY <2>1, OnlySettleCloses, SettleEnds
  <2>3. Frees
    BY <2>2 DEF Waits, PaysOut, Closes
  <2>4. received = funded.sent
    BY <2>3, FlyingIsPending DEF Frees, MoneyInv, SharePaid
  <2>5. core.open = {} /\ core.orders = {} /\ Free = core.perp
    BY <2>1, <2>3, NothingHeld DEF Frees
  <2>6. ASSUME core.perp # 0 PROVE InFlight("toSpot")'
    <3>1. PICK s \in Seq(Drains) : Send(s) /\ (Free # 0 => \E i \in DOMAIN s : s[i][1] = "toSpot")
      BY <2>3 DEF Frees
    <3>2. PICK i \in DOMAIN s : s[i][1] = "toSpot"
      BY <2>5, <2>6, <3>1
    <3>3. flight' = flight \o s /\ s \in Seq(Sendable) /\ flight \in Seq(Sendable)
      BY <2>1, <3>1, DrainsAre DEF Send, CoreTypes
    <3>4. Len(flight) + i \in DOMAIN flight' /\ flight'[Len(flight) + i] = s[i]
      BY <3>2, <3>3, SentSeq
    <3> QED BY <3>2, <3>4 DEF InFlight
  <2> QED BY <2>4, <2>5, <2>6
<1>2. Spec => [][Closes => Done]_vars
  BY <1>1, InitMoneyInv, NextMoneyInv, PTL DEF Spec
<1> QED BY <1>2 DEF ClosedMeansDone
=============================================================================
