--------------------------- MODULE ChallengeProofs --------------------------
(***************************************************************************)
(* What holds of a challenge for all terms, rules, waits, assets and finite  *)
(* sets of orders, and for any money: how it settles, that the share it pays  *)
(* arrives, and that the trader's key does not outlive its stop.             *)
(***************************************************************************)
EXTENDS ChallengeAccount, CoreProofs

Payouts == [owed : Nat, sent : Nat, done : BOOLEAN, spotBefore : Nat, at : Int, shortAt : Int]
GiveBacks == [at : Int, spotBefore : Nat]

TypeInv ==
  /\ CoreTypes
  /\ status \in Stopped \cup {"Created", "Active", "Settled"}
  /\ payout \in Payouts
  /\ giveBack \in GiveBacks
  /\ traderExists \in BOOLEAN

----------------------------------------------------------------------------
(* Steps of the world. *)

LEMMA CapitalType ==
  ASSUME CoreTypes, CapitalLands
  PROVE  core' \in Like(core) /\ core'.spot = core.spot + Capital * SpotPerPerp /\ core'.perp = core.perp
<1>1. Capital * SpotPerPerp \in Nat
  BY TermsAssumption, UnitsAssumption
<1>2. core.spot + Capital * SpotPerPerp \in Nat /\ core \in Accounts
  BY <1>1 DEF CoreTypes, Accounts
<1>3. core' = [core EXCEPT !.exists = TRUE, !.spot = core.spot + Capital * SpotPerPerp]
  BY DEF CapitalLands
<1>4. core'.spot = core.spot + Capital * SpotPerPerp /\ core'.perp = core.perp
  BY <1>2, <1>3 DEF Accounts
<1> QED BY <1>2, <1>3, <1>4, FundedType

\* Nobody but the contract takes from an account's spot.
LEMMA WorldAccount ==
  ASSUME CoreTypes, World
  PROVE  core' \in Like(core) /\ core'.spot >= core.spot
<1>0. core \in Accounts /\ core.spot \in Nat /\ core \in Like(core)
  BY DEF CoreTypes, Accounts, Like
<1>1. CASE Trade \/ Move
  <2>1. core' \in Traded(core) \cup Moved(core)
    BY <1>1 DEF Trade, Move, AccountChanges
  <2> QED BY <1>0, <2>1, TradedType
<1>2. CASE Donate
  <2>1. core' \in Donated(core)
    BY <1>2 DEF Donate, AccountChanges
  <2> QED BY <1>0, <2>1, DonatedType
<1>3. CASE CapitalLands
  <2>1. Capital * SpotPerPerp \in Nat
    BY TermsAssumption, UnitsAssumption
  <2> QED BY <1>0, <1>3, <2>1, CapitalType
<1>4. CASE AddressAppears
  BY <1>0, <1>4 DEF AddressAppears
<1> QED BY <1>1, <1>2, <1>3, <1>4 DEF World

LEMMA LandedAccount ==
  ASSUME TypeInv, NEW i \in DOMAIN flight, NEW t, NEW k, NEW d \in Landed(core, flight[i], t, k)
  PROVE  flight[i] \in Sendable /\ core \in Accounts /\ d \in Accounts
<1>1. flight[i] \in Sendable /\ core \in Accounts
  BY DEF TypeInv, CoreTypes
<1> QED BY <1>1, LandedType

----------------------------------------------------------------------------
(* How a settlement step ends. *)

\* The payout's record but for the clock of a short share.
SamePayout(p) ==
  /\ p \in Payouts
  /\ p.owed = payout.owed /\ p.sent = payout.sent /\ p.done = payout.done
  /\ p.spotBefore = payout.spotBefore /\ p.at = payout.at

\* The record of a share paid now out of spot.
IsPaid(p) ==
  /\ p \in Payouts
  /\ p.owed = payout.owed /\ p.done /\ p.spotBefore = core.spot /\ p.at = 0
  /\ p.sent # 0 => SendCost(traderExists, p.sent) <= core.spot

GiftSends == {"send"} \X Nat \X {"pool"}

\* It drains and waits,
Waits ==
  /\ \E s \in Seq(Drains) : Send(s)
  /\ SamePayout(payout') /\ giveBack' \in GiveBacks /\ giveBack'.at \in {giveBack.at, 0}
  /\ status' = status
  /\ UNCHANGED <<worldVars, agentKey, dayVars, clockVars>>
\* or pays,
PaysOut ==
  /\ \E s \in Seq(Drains) : Send(s \o SendUsdc("trader", payout'.sent))
  /\ payout'.sent # 0
  /\ giveBack' \in GiveBacks /\ status' = status
  /\ UNCHANGED <<worldVars, agentKey, dayVars, clockVars>>
\* or hands what is on spot to the pool, which may settle the challenge.
HandsBack ==
  /\ \E s \in Seq(Drains \cup GiftSends) : Send(s)
  /\ ~PayoutPending(payout')
  /\ giveBack' \in GiveBacks /\ status' \in {status, "Settled"}
  /\ UNCHANGED <<worldVars, agentKey, dayVars, clockVars>>

MayPay == Owing /\ core.open = {} /\ NothingHeldOnPerp /\ (core.perp = 0 \/ giveBack.at > ReturnWait)

Ended ==
  /\ IsStopped
  /\ \/ Waits
     \/ MayPay /\ IsPaid(payout') /\ (PaysOut \/ (payout'.sent = 0 /\ HandsBack))
     \/ ~Owing /\ payout' = payout /\ HandsBack

LEMMA DrainsAreGifts ==
  ASSUME NEW s \in Seq(Drains), NEW n \in Nat
  PROVE  s \in Seq(Drains \cup GiftSends) /\ s \o SendUsdc("pool", n) \in Seq(Drains \cup GiftSends)
<1>1. s \in Seq(Drains \cup GiftSends)
  BY SeqMonotonic
<1>2. <<"send", n, "pool">> \in Drains \cup GiftSends
  BY DEF GiftSends
<1>3. SendUsdc("pool", n) \in Seq(Drains \cup GiftSends)
  BY <1>2, Singles DEF SendUsdc
<1> QED BY <1>1, <1>3, ConcatProperties

LEMMA HandBackEnds ==
  ASSUME TypeInv, NEW drain \in Seq(Drains), NEW p \in Payouts, NEW g \in GiveBacks, g.at \in {giveBack.at, 0},
         HandBack(drain, p, g)
  PROVE  payout' = p /\ (HandsBack \/ (PayoutPending(p) /\ (SamePayout(p) => Waits)))
<1> DEFINE send == drain \o SendUsdc("pool", core.spot)
           frozen == IF g.spotBefore = 0 THEN [g EXCEPT !.spotBefore = core.spot] ELSE g
<1>1. core.spot \in Nat
  BY DEF TypeInv, CoreTypes, Accounts
<1>2. drain \in Seq(Drains \cup GiftSends) /\ send \in Seq(Drains \cup GiftSends)
  BY <1>1, DrainsAreGifts
<1>3. frozen \in GiveBacks
  BY <1>1 DEF GiveBacks
<1> HIDE DEF send, frozen
<1>4. CASE PayoutPending(p)
  BY <1>4 DEF HandBack, EndStep, Waits
<1>5. CASE ~PayoutPending(p)
  <2>1. \/ EndStep(drain, p, g, "Settled") \/ EndStep(drain, p, g, status)
        \/ EndStep(send, p, g, "Settled") \/ EndStep(send, p, g, status) \/ EndStep(send, p, frozen, status)
    BY <1>5 DEF HandBack, Finish, send, frozen
  <2> QED BY <1>2, <1>3, <1>5, <2>1 DEF EndStep, HandsBack
<1> QED BY <1>4, <1>5

LEMMA PayEnds ==
  ASSUME TypeInv, NEW drain \in Seq(Drains), NEW p \in Payouts, NEW g \in GiveBacks, g.at \in {giveBack.at, 0},
         p.owed = payout.owed, Pay(drain, p, g)
  PROVE  IsPaid(payout') /\ (PaysOut \/ (payout'.sent = 0 /\ HandsBack))
<1> DEFINE owed == IF core.spot < p.owed THEN core.spot ELSE p.owed
           pay == SendableTo(traderExists, owed)
           paid == [owed |-> p.owed, sent |-> pay, done |-> TRUE, spotBefore |-> core.spot, at |-> 0,
                    shortAt |-> p.shortAt]
<1>1. core.spot \in Nat /\ owed \in Nat /\ owed <= core.spot
  BY DEF TypeInv, CoreTypes, Accounts, Payouts
<1> HIDE DEF owed
<1>2. pay \in Nat /\ (pay # 0 => SendCost(traderExists, pay) <= core.spot)
  <2>1. pay \in Nat /\ (pay # 0 => SendCost(traderExists, pay) <= owed)
    BY <1>1, SendableNat DEF TypeInv
  <2> HIDE DEF pay
  <2>2. SendCost(traderExists, pay) \in Nat
    BY <2>1, UnitsAssumption DEF SendCost
  <2> QED BY <1>1, <2>1, <2>2
<1>3. \/ pay # 0 /\ EndStep(drain \o SendUsdc("trader", pay), paid, g, status)
      \/ pay = 0 /\ HandBack(drain, paid, g)
  BY DEF Pay, owed
<1> HIDE DEF pay
<1>4. paid \in Payouts /\ paid.sent = pay /\ IsPaid(paid)
  BY <1>1, <1>2 DEF Payouts, IsPaid
<1>5. CASE pay # 0 /\ EndStep(drain \o SendUsdc("trader", pay), paid, g, status)
  <2>1. payout' = paid
    BY <1>5 DEF EndStep
  <2> QED BY <1>4, <1>5, <2>1 DEF EndStep, PaysOut
<1>6. CASE pay = 0 /\ HandBack(drain, paid, g)
  <2>1. ~PayoutPending(paid)
    BY <1>1, <1>6 DEF PayoutPending
  <2>2. payout' = paid /\ HandsBack
    BY <1>4, <1>6, <2>1, HandBackEnds
  <2> QED BY <1>4, <1>6, <2>2
<1> QED BY <1>3, <1>5, <1>6

LEMMA SettleEnds ==
  ASSUME TypeInv, NEW oids \in CancelSets, NEW extra \in ExtraSets, Settle(oids, extra)
  PROVE  Ended
<1> DEFINE drain == DrainActions(oids, extra)
           g == IF giveBack.at = Unset /\ (Free # 0 \/ core.spot # 0)
                THEN [giveBack EXCEPT !.at = 0] ELSE giveBack
           p == IF core.spot < payout.owed /\ Free # 0 /\ payout.shortAt = Unset
                THEN [payout EXCEPT !.shortAt = 0] ELSE payout
           q == [payout EXCEPT !.shortAt = Unset]
<1>1. drain \in Seq(Drains)
  BY DrainType DEF TypeInv, CoreTypes
<1>2. /\ g \in GiveBacks /\ g.at \in {giveBack.at, 0} /\ giveBack \in GiveBacks
      /\ (g.at > ReturnWait => giveBack.at > ReturnWait)
  BY TermsAssumption DEF TypeInv, GiveBacks, Unset
<1>3. SamePayout(payout) /\ SamePayout(p) /\ SamePayout(q)
  BY DEF TypeInv, Payouts, SamePayout, Unset
<1>4. IsStopped
  BY DEF Settle
<1>5. \/ EndStep(drain, payout, giveBack, status) \/ EndStep(drain, payout, g, status)
      \/ EndStep(drain, q, g, status) \/ EndStep(drain, p, g, status)
      \/ core.open = {} /\ ~Crossing(g) /\ Owing /\ NothingHeldOnPerp /\ Pay(drain, p, g)
      \/ ~Owing /\ HandBack(drain, payout, g)
  BY DEF Settle, PayWhenCovered
<1> HIDE DEF drain, g, p, q
<1>6. CASE \/ EndStep(drain, payout, giveBack, status) \/ EndStep(drain, payout, g, status)
           \/ EndStep(drain, q, g, status) \/ EndStep(drain, p, g, status)
  <2>1. Waits
    BY <1>1, <1>2, <1>3, <1>6 DEF EndStep, Waits
  <2> QED BY <1>4, <2>1 DEF Ended
<1>7. CASE core.open = {} /\ ~Crossing(g) /\ Owing /\ NothingHeldOnPerp /\ Pay(drain, p, g)
  <2>1. Free = core.perp
    BY <1>7, NothingHeld DEF TypeInv, CoreTypes
  <2>2. core.perp = 0 \/ giveBack.at > ReturnWait
    BY <1>2, <1>7, <2>1, TermsAssumption DEF Crossing, GiveBacks
  <2>3. IsPaid(payout') /\ (PaysOut \/ (payout'.sent = 0 /\ HandsBack))
    BY <1>1, <1>2, <1>3, <1>7, PayEnds DEF SamePayout
  <2> QED BY <1>4, <1>7, <2>2, <2>3 DEF Ended, MayPay
<1>8. CASE ~Owing /\ HandBack(drain, payout, g)
  <2>1. payout' = payout /\ (HandsBack \/ Waits)
    BY <1>1, <1>2, <1>3, <1>8, HandBackEnds DEF SamePayout
  <2> QED BY <1>4, <1>8, <2>1 DEF Ended
<1> QED BY <1>5, <1>6, <1>7, <1>8

\* Whatever way it ends, it gives nobody a key and keeps its records' types.
LEMMA EndedSends ==
  ASSUME TypeInv, Ended
  PROVE  /\ \E s \in Seq(Harmless) : Send(s)
         /\ payout' \in Payouts /\ giveBack' \in GiveBacks /\ status' \in {status, "Settled"}
         /\ traderExists' = traderExists
<1>1. ASSUME Waits PROVE \E s \in Seq(Harmless) : Send(s)
  BY <1>1, DrainsAre DEF Waits
<1>2. ASSUME PaysOut, IsPaid(payout') PROVE \E s \in Seq(Harmless) : Send(s)
  <2>1. PICK s \in Seq(Drains) : Send(s \o SendUsdc("trader", payout'.sent))
    BY <1>2 DEF PaysOut
  <2>2. payout'.sent \in Nat
    BY <1>2 DEF IsPaid, Payouts
  <2>3. SendUsdc("trader", payout'.sent) \in Seq(Harmless) /\ s \in Seq(Harmless)
    BY <2>2, DrainsAre, SendsType DEF Recipients
  <2>4. s \o SendUsdc("trader", payout'.sent) \in Seq(Harmless)
    BY <2>3, ConcatProperties
  <2> QED BY <2>1, <2>4
<1>3. ASSUME HandsBack PROVE \E s \in Seq(Harmless) : Send(s)
  <2>1. Drains \cup GiftSends \subseteq Harmless
    BY DEF Drains, GiftSends, Harmless, Transfers, Recipients
  <2>2. \A s \in Seq(Drains \cup GiftSends) : s \in Seq(Harmless)
    BY <2>1, SeqMonotonic
  <2> QED BY <1>3, <2>2 DEF HandsBack
<1>4. payout \in Payouts
  BY DEF TypeInv
<1>5. /\ payout' \in Payouts /\ giveBack' \in GiveBacks /\ status' \in {status, "Settled"}
      /\ traderExists' = traderExists
  BY <1>4 DEF Ended, Waits, PaysOut, HandsBack, SamePayout, IsPaid, worldVars
<1> QED BY <1>1, <1>2, <1>3, <1>5 DEF Ended

----------------------------------------------------------------------------
(* Types. *)

LEMMA InitTypeInv == Init => TypeInv
<1> SUFFICES ASSUME Init PROVE TypeInv
  OBVIOUS
<1>1. NewAccount \in Accounts
  <2>1. Cardinality({}) = 0
    BY FS_EmptySet
  <2>2. NewAccount.orders = {}
    BY DEF NewAccount
  <2>3. Held(NewAccount) = 0
    BY <2>1, <2>2, UnitsAssumption DEF Held
  <2> QED BY <2>3 DEF NewAccount, Accounts, Agents
<1> QED BY <1>1 DEF Init, TypeInv, CoreTypes, Payouts, GiveBacks, Unset

\* A call that sends what it may, changes only its records, and keeps the rest.
LEMMA CallType ==
  ASSUME TypeInv, NEW s \in Seq(Sendable), Send(s),
         status' \in Stopped \cup {"Created", "Active", "Settled"},
         payout' \in Payouts, giveBack' \in GiveBacks, traderExists' = traderExists
  PROVE  TypeInv'
<1>1. flight' = flight \o s /\ core' = core /\ flight \in Seq(Sendable)
  BY DEF Send, TypeInv, CoreTypes
<1>2. flight' \in Seq(Sendable)
  BY <1>1, ConcatProperties
<1> QED BY <1>1, <1>2 DEF TypeInv, CoreTypes

\* A trader's share of what it earned.
LEMMA ShareType ==
  ASSUME TypeInv, TargetMet
  PROVE  TraderShare(core.perp) \in Nat /\ core.perp > 0
<1>1. BPS \in Nat /\ BPS > 0 /\ core.perp \in Nat
  BY RulesAssumption DEF TypeInv, CoreTypes, Accounts
<1>2. \A n, m \in Nat : m > 0 => n \div m \in Nat
  OBVIOUS
<1>3. Capital * TargetBps \in Nat
  BY TermsAssumption
<1>4. (Capital * TargetBps) \div BPS \in Nat
  BY <1>1, <1>2, <1>3
<1>5. core.perp - Capital \in Nat /\ core.perp > 0
  BY <1>1, <1>4, TermsAssumption DEF TargetMet
<1>6. \A a, b, c \in Nat : a * b * c \in Nat
  OBVIOUS
<1>7. (core.perp - Capital) * TraderShareBps * SpotPerPerp \in Nat
  BY <1>5, <1>6, TermsAssumption, UnitsAssumption
<1> QED BY <1>1, <1>2, <1>5, <1>7 DEF TraderShare

LEMMA EmptySend == <<>> \in Seq(Harmless) /\ <<>> \in Seq(Sendable)
OBVIOUS

LEMMA NextTypeInv == TypeInv /\ [Next]_vars => TypeInv'
<1> SUFFICES ASSUME TypeInv, [Next]_vars PROVE TypeInv'
  OBVIOUS
<1>0. core \in Accounts /\ CoreTypes
  BY DEF TypeInv, CoreTypes
<1>1. CASE Activate
  <2>1. ToPerp(Capital) \in Seq(Sendable)
    BY TermsAssumption, SendsType, HarmlessIs
  <2>2. SetAgent("trader") \in Seq(Sendable)
    BY Singles DEF SetAgent, Approval, Sendable
  <2>3. ToPerp(Capital) \o SetAgent("trader") \in Seq(Sendable)
    BY <2>1, <2>2, ConcatProperties
  <2> QED BY <1>1, <2>3, CallType DEF Activate, TypeInv, worldVars
<1>2. CASE Abort
  BY <1>2, EmptySend, CallType DEF Abort, TypeInv, Stopped, worldVars
<1>3. ASSUME NEW oids \in CancelSets, NEW extra \in ExtraSets,
             BreachCall(oids, extra) \/ Expire(oids, extra) \/ Forfeit(oids, extra)
      PROVE  TypeInv'
  <2>1. StopActions(oids, extra) \in Seq(Sendable)
    BY <1>0, StopType, StopsAre
  <2>2. PICK s \in Stopped : End(s, oids, extra)
    BY <1>3 DEF BreachCall, Expire, Forfeit, Stopped
  <2> QED BY <2>1, <2>2, CallType DEF End, TypeInv, worldVars
<1>4. CASE Graduate
  <2>1. TraderShare(core.perp) \in Nat
    BY <1>4, ShareType DEF Graduate
  <2>2. payout' \in Payouts
    BY <1>4, <2>1 DEF Graduate, TypeInv, Payouts
  <2>3. CutActions \in Seq(Sendable)
    BY SendsType, HarmlessIs
  <2> QED BY <1>4, <2>2, <2>3, CallType DEF Graduate, TypeInv, Stopped, worldVars
<1>5. CASE Recut
  <2>1. CutActions \in Seq(Sendable)
    BY SendsType, HarmlessIs
  <2> QED BY <1>5, <2>1, CallType DEF Recut, TypeInv, worldVars
<1>6. ASSUME NEW oids \in CancelSets, NEW extra \in ExtraSets, Settle(oids, extra)
      PROVE  TypeInv'
  <2>1. Ended
    BY <1>6, SettleEnds
  <2>2. PICK s \in Seq(Harmless) : Send(s)
    BY <2>1, EndedSends
  <2> QED BY <2>1, <2>2, EndedSends, CallType, HarmlessIs DEF TypeInv
<1>7. CASE Sweep
  <2>1. Free \in Nat /\ core.spot \in Nat
    BY <1>0, WithdrawableType DEF Free, Accounts
  <2>2. (IF Free # 0 THEN ToSpot(Free) ELSE SendUsdc("pool", core.spot)) \in Seq(Sendable)
    BY <2>1, SendsType, HarmlessIs DEF Recipients
  <2> QED BY <1>7, <2>2, CallType DEF Sweep, TypeInv, worldVars
<1>8. CASE TakeCheckpoint \/ EndBlock \/ UNCHANGED vars
  BY <1>8 DEF TakeCheckpoint, EndBlock, TypeInv, CoreTypes, vars, coreVars, contractVars, worldVars
<1>9. ASSUME NEW ticks \in BOOLEAN, BeginBlock(ticks)
      PROVE  TypeInv'
  <2>1. payout' \in Payouts /\ giveBack' \in GiveBacks
    BY <1>9, OlderType, TermsAssumption DEF BeginBlock, TypeInv, Payouts, GiveBacks
  <2> QED BY <1>9, <2>1 DEF BeginBlock, TypeInv, CoreTypes
<1>10. CASE Land
  <2>1. PICK i \in DOMAIN flight :
          flight' = Without(i) /\ core' \in Landed(core, flight[i], ~ToTrader(flight[i]) \/ traderExists, keySpoiled)
    BY <1>10 DEF Land
  <2>2. flight' \in Seq(Sendable)
    BY <1>0, <2>1, LeftSeq DEF CoreTypes
  <2>3. core' \in Accounts
    BY <2>1, LandedAccount
  <2>4. traderExists' \in BOOLEAN
    BY <1>10 DEF Land, TypeInv
  <2> QED BY <1>10, <2>2, <2>3, <2>4 DEF Land, TypeInv, CoreTypes, contractVars
<1>11. CASE World
  <2>1. core' \in Accounts
    BY <1>0, <1>11, WorldAccount DEF Like
  <2>2. traderExists' \in BOOLEAN /\ UNCHANGED <<flight, contractVars>>
    BY <1>11 DEF World, Trade, Move, Donate, AccountChanges, CapitalLands, AddressAppears, TypeInv
  <2> QED BY <2>1, <2>2 DEF TypeInv, CoreTypes, contractVars
<1> QED BY <1>1, <1>2, <1>3, <1>4, <1>5, <1>6, <1>7, <1>8, <1>9, <1>10, <1>11 DEF Next, Call

LEMMA AlwaysTypes == Spec => []TypeInv
BY InitTypeInv, NextTypeInv, PTL DEF Spec

----------------------------------------------------------------------------
(* The trader's share is covered while it flies and has arrived when the      *)
(* challenge settles, where the capital's crossing to the perp side is not     *)
(* late.  Where it is, dust can pass a trader whose capital is still on spot,   *)
(* and the crossing takes the money the payout is about to leave from.         *)

IsSend(a) == a[1] = "send"

\* Until it is stopped, nothing is owed, sent or on its way.
Young ==
  status \in {"Created", "Active"} =>
    /\ ~InFlight("send") /\ ~payout.done /\ payout.owed = 0 /\ giveBack.at = Unset

\* Nothing is sent to anybody as long as the share is owed.
NoneBeforePay ==
  /\ Owing => ~InFlight("send")
  /\ ~payout.done => payout.sent = 0 /\ received = 0 /\ \A i \in DOMAIN flight : ~ToTrader(flight[i])

\* At most one transfer to the trader flies, of what was sent.
OnePayout ==
  \A i \in DOMAIN flight : ToTrader(flight[i]) =>
    /\ flight[i][2] = payout.sent /\ payout.sent > 0 /\ received = 0
    /\ \A j \in DOMAIN flight : ToTrader(flight[j]) => j = i

\* While it does, within its wait, spot holds what it held, and nothing else is sent.
Covered ==
  \A i \in DOMAIN flight : ToTrader(flight[i]) /\ payout.at <= PayoutWait =>
    /\ core.spot >= payout.spotBefore /\ payout.spotBefore >= SendCost(traderExists, payout.sent)
    /\ \A j \in DOMAIN flight : IsSend(flight[j]) => j = i

PaidOrFlying ==
  \/ payout.at > PayoutWait \/ received = payout.sent
  \/ status # "Settled" /\ \E i \in DOMAIN flight : ToTrader(flight[i])

SettledOwesNothing == status = "Settled" => ~Owing

\* The capital crosses before the share can be paid: in the block of the start what is on the
\* perp side came from elsewhere, and is waited for.
CapitalCrossing ==
  InFlight("toPerp") =>
    /\ ~payout.done
    /\ block = "evm" /\ IsStopped /\ Owing => core.perp > 0 /\ giveBack.at \in {Unset, 0}

PayoutInv ==
  /\ TypeInv
  /\ Young /\ NoneBeforePay /\ OnePayout /\ Covered /\ PaidOrFlying /\ SettledOwesNothing
  /\ CapitalCrossing

LEMMA InitPayoutInv == Init => PayoutInv
BY InitTypeInv DEF Init, PayoutInv, Young, NoneBeforePay, OnePayout, Covered, PaidOrFlying,
     SettledOwesNothing, CapitalCrossing, InFlight, Owing, Unset

\* A call that sends only such actions keeps everything about the payout.
LEMMA QuietKeeps ==
  ASSUME PayoutInv, TypeInv', NEW s \in Seq(Quiet), Send(s),
         SamePayout(payout'), UNCHANGED <<received, traderExists>>, giveBack'.at \in {giveBack.at, 0},
         status = "Settled" <=> status' = "Settled",
         status' \in {"Created", "Active"} => status \in {"Created", "Active"} /\ giveBack' = giveBack,
         IsStopped' /\ ~IsStopped => ~Owing
  PROVE  PayoutInv'
<1> USE DEF PayoutInv
<1>1. /\ \A i \in DOMAIN flight' : flight'[i][1] \in {"send", "toPerp"} =>
           i \in DOMAIN flight /\ flight'[i] = flight[i]
      /\ \A i \in DOMAIN flight : i \in DOMAIN flight' /\ flight'[i] = flight[i]
      /\ core' = core /\ block' = "evm" /\ block = "evm"
  BY QuietSend DEF TypeInv
<1>2. InFlight("send")' = InFlight("send") /\ InFlight("toPerp")' = InFlight("toPerp")
  BY <1>1 DEF InFlight
<1>3. /\ payout'.owed = payout.owed /\ payout'.sent = payout.sent /\ payout'.done = payout.done
      /\ payout'.spotBefore = payout.spotBefore /\ payout'.at = payout.at
      /\ (Owing' <=> Owing) /\ received' = received /\ traderExists' = traderExists
  BY DEF SamePayout, Owing
<1>4. /\ \A i \in DOMAIN flight' : ToTrader(flight'[i]) => i \in DOMAIN flight /\ flight'[i] = flight[i]
      /\ \A i \in DOMAIN flight' : IsSend(flight'[i]) => i \in DOMAIN flight /\ flight'[i] = flight[i]
  BY <1>1 DEF ToTrader, IsSend
<1>5. Young'
  BY <1>2, <1>3 DEF Young
<1>6. NoneBeforePay'
  BY <1>2, <1>3, <1>4 DEF NoneBeforePay
<1>7. OnePayout'
  BY <1>3, <1>4 DEF OnePayout
<1>8. Covered'
  BY <1>1, <1>3, <1>4 DEF Covered
<1>9. PaidOrFlying'
  BY <1>1, <1>3 DEF PaidOrFlying
<1>10. SettledOwesNothing'
  BY <1>3 DEF SettledOwesNothing
<1>11. CapitalCrossing'
  BY <1>1, <1>2, <1>3 DEF CapitalCrossing
<1> QED BY <1>5, <1>6, <1>7, <1>8, <1>9, <1>10, <1>11

LEMMA ActivateKeeps ==
  ASSUME PayoutInv, TypeInv', Activate
  PROVE  PayoutInv'
<1> USE DEF PayoutInv
<1> DEFINE s == ToPerp(Capital) \o SetAgent("trader")
           S == ({"toPerp"} \X Nat) \cup {Approval}
<1>1. s \in Seq(Sendable) /\ s \in Seq(S)
  <2>1. <<"toPerp", Capital>> \in S /\ Approval \in S /\ S \subseteq Sendable
    BY TermsAssumption DEF Sendable, Harmless, Transfers
  <2>2. ToPerp(Capital) \in Seq(S) /\ SetAgent("trader") \in Seq(S)
    BY <2>1, Singles DEF ToPerp, SetAgent, Approval
  <2>3. s \in Seq(S)
    BY <2>2, ConcatProperties
  <2> HIDE DEF s, S
  <2> QED BY <2>1, <2>3, SeqMonotonic
<1>2. \A i \in DOMAIN s : s[i][1] # "send"
  BY <1>1 DEF Approval
<1>3. flight' = flight \o s /\ core' = core /\ status = "Created" /\ status' = "Active" /\ flight \in Seq(Sendable)
        /\ UNCHANGED <<payout, giveBack, received, traderExists>>
  BY DEF Activate, Send, TypeInv, CoreTypes, worldVars
<1> HIDE DEF s
<1>4. /\ Len(flight) \in Nat /\ DOMAIN flight = 1..Len(flight) /\ DOMAIN flight' = 1..Len(flight) + Len(s)
      /\ Len(s) \in Nat
      /\ \A i \in DOMAIN flight : i \in DOMAIN flight' /\ flight'[i] = flight[i]
      /\ \A i \in DOMAIN flight' : i > Len(flight) => i - Len(flight) \in DOMAIN s /\ flight'[i] = s[i - Len(flight)]
  BY <1>1, <1>3, SentSeq
<1>5. ~InFlight("send") /\ ~payout.done /\ payout.owed = 0 /\ giveBack.at = Unset
  BY <1>3 DEF Young
<1>6. \A i \in DOMAIN flight' : flight'[i][1] # "send"
  BY <1>2, <1>4, <1>5 DEF InFlight
<1>7. \A i \in DOMAIN flight' : ~ToTrader(flight'[i])
  BY <1>6 DEF ToTrader
<1>8. Young' /\ NoneBeforePay' /\ SettledOwesNothing' /\ PaidOrFlying'
  BY <1>3, <1>5, <1>6, <1>7 DEF Young, NoneBeforePay, SettledOwesNothing, PaidOrFlying, InFlight, Owing
<1>9. OnePayout' /\ Covered'
  BY <1>7 DEF OnePayout, Covered
<1>10. CapitalCrossing'
  BY <1>3, <1>5 DEF CapitalCrossing, Owing
<1> QED BY <1>8, <1>9, <1>10

LEMMA CutIsQuiet == CutActions \in Seq(Quiet) /\ <<>> \in Seq(Quiet)
BY Singles DEF CutActions, SetAgent, Replacement, Quiet

LEMMA GraduateKeeps ==
  ASSUME PayoutInv, TypeInv', Graduate
  PROVE  PayoutInv'
<1> USE DEF PayoutInv
<1>1. /\ \A i \in DOMAIN flight' : flight'[i][1] \in {"send", "toPerp"} =>
           i \in DOMAIN flight /\ flight'[i] = flight[i]
      /\ core' = core
  BY CutIsQuiet, QuietSend DEF Graduate, TypeInv
<1>2. /\ status = "Active" /\ status' = "Passed" /\ core.perp > 0
      /\ UNCHANGED <<giveBack, received, traderExists>>
  BY ShareType DEF Graduate, worldVars
<1>3. payout' = [payout EXCEPT !.owed = TraderShare(core.perp)]
  BY DEF Graduate
<1>4. payout'.sent = payout.sent /\ payout'.done = payout.done /\ payout'.at = payout.at
  BY <1>3 DEF TypeInv, Payouts
<1>5. ~InFlight("send") /\ ~payout.done /\ giveBack.at = Unset
  BY <1>2 DEF Young
<1>6. \A i \in DOMAIN flight' : flight'[i][1] # "send"
  BY <1>1, <1>5 DEF InFlight
<1>7. \A i \in DOMAIN flight' : ~ToTrader(flight'[i])
  BY <1>6 DEF ToTrader
<1>8. Young' /\ NoneBeforePay' /\ SettledOwesNothing' /\ PaidOrFlying'
  BY <1>2, <1>4, <1>5, <1>6, <1>7 DEF Young, NoneBeforePay, SettledOwesNothing, PaidOrFlying, InFlight
<1>9. OnePayout' /\ Covered'
  BY <1>7 DEF OnePayout, Covered
<1>10. CapitalCrossing'
  BY <1>1, <1>2, <1>4, <1>5 DEF CapitalCrossing
<1> QED BY <1>8, <1>9, <1>10

\* Paying: nothing else flies, and what leaves is on spot.
LEMMA PaysOutKeeps ==
  ASSUME PayoutInv, TypeInv', IsStopped, MayPay, IsPaid(payout'), PaysOut
  PROVE  PayoutInv'
<1> USE DEF PayoutInv
<1> DEFINE a == <<"send", payout'.sent, "trader">>
<1>1. PICK d \in Seq(Drains) : Send(d \o SendUsdc("trader", payout'.sent))
  BY DEF PaysOut
<1>2. payout'.sent \in Nat /\ payout'.sent > 0 /\ SendUsdc("trader", payout'.sent) = <<a>>
  BY DEF PaysOut, IsPaid, Payouts, SendUsdc
<1>3. d \in Seq(Sendable) /\ a \in Sendable /\ \A k \in DOMAIN d : d[k] \in Drains
  BY <1>2, DrainsAre DEF Sendable, Harmless, Transfers, Recipients
<1>4. /\ core' = core /\ block = "evm" /\ flight \in Seq(Sendable) /\ flight' = flight \o (d \o <<a>>)
  BY <1>1, <1>2 DEF Send, TypeInv, CoreTypes
<1> HIDE DEF a
<1>4a. flight \in Seq(Sendable) /\ flight' = flight \o (d \o <<a>>)
  BY <1>4
<1>5. \E n \in DOMAIN flight' :
        /\ flight'[n] = a
        /\ \A i \in DOMAIN flight' : i # n =>
             i < n /\ ((i \in DOMAIN flight /\ flight'[i] = flight[i]) \/ \E k \in DOMAIN d : flight'[i] = d[k])
        /\ n > Len(flight)
  BY <1>3, <1>4a, SentLast
<1>6. PICK n \in DOMAIN flight' :
        /\ flight'[n] = a
        /\ \A i \in DOMAIN flight' : i # n =>
             i < n /\ ((i \in DOMAIN flight /\ flight'[i] = flight[i]) \/ \E k \in DOMAIN d : flight'[i] = d[k])
  BY <1>5
<1>7. n \in DOMAIN flight' /\ flight'[n] = a
  BY <1>6
<1>8. \A i \in DOMAIN flight' : i # n => (i \in DOMAIN flight /\ flight'[i] = flight[i]) \/ flight'[i] \in Drains
  BY <1>3, <1>6
<1>9. Owing /\ ~InFlight("send") /\ ~payout.done /\ received = 0
  BY DEF MayPay, NoneBeforePay, Owing
<1>10. \A i \in DOMAIN flight' : IsSend(flight'[i]) => i = n
  BY <1>8, <1>9 DEF IsSend, InFlight, Drains, Stops
<1>11. \A i \in DOMAIN flight' : ToTrader(flight'[i]) => i = n /\ flight'[i][2] = payout'.sent
  BY <1>7, <1>10 DEF ToTrader, IsSend, a
<1>12. ToTrader(flight'[n])
  BY <1>7 DEF ToTrader, a
<1>13. /\ payout'.done /\ payout'.spotBefore = core.spot /\ payout'.at = 0
       /\ SendCost(traderExists, payout'.sent) <= core.spot
       /\ received' = received /\ traderExists' = traderExists /\ status' = status /\ status # "Settled"
       /\ status \notin {"Created", "Active"}
  BY <1>2 DEF IsPaid, PaysOut, worldVars, IsStopped, Stopped
<1>14. Young' /\ NoneBeforePay' /\ SettledOwesNothing' /\ PaidOrFlying'
  BY <1>7, <1>12, <1>13 DEF Young, NoneBeforePay, SettledOwesNothing, PaidOrFlying, Owing
<1>15. OnePayout'
  BY <1>2, <1>9, <1>11, <1>13 DEF OnePayout
<1>16. Covered'
  <2>1. SendCost(traderExists, payout'.sent) \in Nat /\ core.spot \in Nat
    BY <1>2, UnitsAssumption DEF SendCost, TypeInv, CoreTypes, Accounts
  <2>2. core'.spot >= payout'.spotBefore
    BY <1>4, <1>13, <2>1
  <2>3. payout'.spotBefore >= SendCost(traderExists', payout'.sent)
    BY <1>13, <2>1
  <2> QED BY <1>10, <1>11, <2>2, <2>3 DEF Covered
<1>17. CapitalCrossing'
  <2>1. ~InFlight("toPerp")
    BY <1>4, <1>9, TermsAssumption DEF CapitalCrossing, MayPay, Unset
  <2>2. ~InFlight("toPerp")'
    BY <1>7, <1>8, <2>1 DEF InFlight, Drains, Stops, a
  <2> QED BY <2>2 DEF CapitalCrossing
<1> QED BY <1>14, <1>15, <1>16, <1>17

\* Handing back: a transfer to the pool joins the trader's only when that one's wait is over.
LEMMA GiftKeeps ==
  ASSUME PayoutInv, TypeInv', NEW s \in Seq(Drains \cup GiftSends), Send(s), status \in Stopped \cup {"Settled"},
         status' \in {status, "Settled"}, UNCHANGED <<received, traderExists>>, ~Owing',
         payout' = payout \/ (~payout.done /\ payout'.done /\ payout'.sent = 0 /\ ~InFlight("toPerp")),
         payout'.at > PayoutWait \/ (received = payout'.sent /\ \A i \in DOMAIN flight : ~ToTrader(flight[i]))
  PROVE  PayoutInv'
<1> USE DEF PayoutInv
<1>1. Drains \cup GiftSends \subseteq Sendable
        /\ \A a \in Drains \cup GiftSends : ~ToTrader(a) /\ a[1] # "toPerp"
  BY DEF Drains, GiftSends, Stops, Sendable, Harmless, Transfers, Recipients, ToTrader
<1>2. s \in Seq(Sendable) /\ flight \in Seq(Sendable) /\ flight' = flight \o s
  BY <1>1, SeqMonotonic DEF Send, TypeInv, CoreTypes
<1>3. /\ DOMAIN flight = 1..Len(flight) /\ DOMAIN flight' = 1..Len(flight) + Len(s)
      /\ Len(flight) \in Nat /\ Len(s) \in Nat
      /\ \A i \in DOMAIN flight : i \in DOMAIN flight' /\ flight'[i] = flight[i]
      /\ \A i \in DOMAIN flight' : i > Len(flight) => i - Len(flight) \in DOMAIN s /\ flight'[i] = s[i - Len(flight)]
  BY <1>2, SentSeq
<1>4. \A i \in DOMAIN s : s[i] \in Drains \cup GiftSends
  OBVIOUS
<1>5. \A i \in DOMAIN flight' : i \in DOMAIN flight \/ i > Len(flight)
  BY <1>3
<1>6. \A i \in DOMAIN flight' : ToTrader(flight'[i]) \/ flight'[i][1] = "toPerp" =>
        i \in DOMAIN flight /\ flight'[i] = flight[i]
  BY <1>1, <1>3, <1>4, <1>5
<1>7. Young' /\ SettledOwesNothing'
  BY DEF Young, Stopped, SettledOwesNothing
<1>8. NoneBeforePay'
  BY <1>6 DEF NoneBeforePay
<1>9. OnePayout'
  <2>1. CASE payout' = payout
    BY <1>6, <2>1 DEF OnePayout
  <2>2. CASE ~payout.done
    BY <1>6, <2>2 DEF OnePayout, NoneBeforePay
  <2> QED BY <2>1, <2>2
<1>10. Covered'
  <2>1. \A i \in DOMAIN flight' : ToTrader(flight'[i]) => payout'.at > PayoutWait
    BY <1>6
  <2>2. payout'.at \in Int
    BY DEF TypeInv, Payouts
  <2> QED BY <2>1, <2>2, TermsAssumption DEF Covered
<1>11. PaidOrFlying'
  BY DEF PaidOrFlying
<1>12. CapitalCrossing'
  BY <1>6 DEF CapitalCrossing, InFlight
<1> QED BY <1>7, <1>8, <1>9, <1>10, <1>11, <1>12

\* A transfer that flies within its wait holds the hand-back up.
LEMMA FlyingIsPending ==
  ASSUME PayoutInv, NEW i \in DOMAIN flight, ToTrader(flight[i]), payout.at <= PayoutWait
  PROVE  PayoutPending(payout)
<1>1. payout.done /\ payout.sent > 0
  BY DEF PayoutInv, NoneBeforePay, OnePayout
<1>2. core.spot >= payout.spotBefore
  BY DEF PayoutInv, Covered
<1> QED BY <1>1, <1>2 DEF PayoutPending, PayoutInv, TypeInv, CoreTypes, Accounts, Payouts

LEMMA EndedKeeps ==
  ASSUME PayoutInv, TypeInv', Ended
  PROVE  PayoutInv' /\ (Settles => received = payout'.sent \/ payout.at > PayoutWait)
<1> USE DEF PayoutInv
<1>1. CASE Waits
  <2>1. PICK s \in Seq(Drains) : Send(s)
    BY <1>1 DEF Waits
  <2>2. s \in Seq(Quiet)
    BY <2>1, SeqMonotonic DEF Quiet
  <2>3. status' = status /\ UNCHANGED <<received, traderExists>> /\ IsStopped /\ ~Settles
    BY <1>1 DEF Waits, worldVars, Ended, Settles
  <2>4. PayoutInv'
    BY <1>1, <2>1, <2>2, <2>3, QuietKeeps DEF Waits, IsStopped, Stopped
  <2> QED BY <2>3, <2>4
<1>2. CASE MayPay /\ IsPaid(payout') /\ PaysOut
  BY <1>2, PaysOutKeeps DEF Ended, Settles, PaysOut
<1>3. CASE HandsBack /\ ((MayPay /\ IsPaid(payout') /\ payout'.sent = 0) \/ (~Owing /\ payout' = payout))
  <2>1. PICK s \in Seq(Drains \cup GiftSends) : Send(s)
    BY <1>3 DEF HandsBack
  <2>2. /\ status \in Stopped \cup {"Settled"} /\ status' \in {status, "Settled"}
        /\ UNCHANGED <<received, traderExists>> /\ ~PayoutPending(payout')
    BY <1>3 DEF Ended, IsStopped, HandsBack, worldVars
  <2>3. CASE MayPay /\ IsPaid(payout') /\ payout'.sent = 0
    <3>1. ~payout.done /\ received = 0 /\ payout'.done
      BY <2>3 DEF MayPay, Owing, NoneBeforePay, IsPaid
    <3>2. \A i \in DOMAIN flight : ~ToTrader(flight[i])
      BY <3>1 DEF NoneBeforePay
    <3>3. ~InFlight("toPerp")
      <4>1. IsStopped /\ block = "evm"
        BY <2>1 DEF Ended, Send
      <4> QED BY <2>3, <4>1, TermsAssumption DEF CapitalCrossing, MayPay, Unset
    <3> QED BY <2>1, <2>2, <2>3, <3>1, <3>2, <3>3, GiftKeeps DEF Owing
  <2>4. CASE ~Owing /\ payout' = payout
    <3>1. \A i \in DOMAIN flight : ToTrader(flight[i]) => payout.at > PayoutWait
      BY <2>2, <2>4, FlyingIsPending, TermsAssumption DEF TypeInv, Payouts
    <3>2. payout.at > PayoutWait \/ (received = payout.sent /\ \A i \in DOMAIN flight : ~ToTrader(flight[i]))
      BY <3>1 DEF PaidOrFlying
    <3> QED BY <2>1, <2>2, <2>4, <3>2, GiftKeeps DEF Owing
  <2> QED BY <1>3, <2>3, <2>4
<1> QED BY <1>1, <1>2, <1>3 DEF Ended

LEMMA SweepKeeps ==
  ASSUME PayoutInv, TypeInv', Sweep
  PROVE  PayoutInv'
<1> USE DEF PayoutInv
<1> DEFINE s == IF Free # 0 THEN ToSpot(Free) ELSE SendUsdc("pool", core.spot)
<1>1. Free \in Nat /\ core.spot \in Nat
  BY WithdrawableType DEF Free, TypeInv, CoreTypes, Accounts
<1>2. <<"toSpot", Free>> \in Drains \cup GiftSends /\ <<"send", core.spot, "pool">> \in Drains \cup GiftSends
  BY <1>1 DEF Drains, GiftSends
<1>3. s \in Seq(Drains \cup GiftSends)
  BY <1>2, Singles DEF ToSpot, SendUsdc
<1> HIDE DEF s
<1>4. Send(s) /\ status = "Settled" /\ status' = "Settled" /\ UNCHANGED <<received, traderExists, payout>>
  BY DEF Sweep, s, worldVars
<1>5. ~Owing /\ ~Owing'
  BY <1>4 DEF SettledOwesNothing, Owing
<1>6. payout.at > PayoutWait \/ (received = payout.sent /\ \A i \in DOMAIN flight : ~ToTrader(flight[i]))
  <2>1. CASE payout.at > PayoutWait
    BY <2>1
  <2>2. CASE received = payout.sent
    BY <2>2 DEF OnePayout
  <2> QED BY <1>4, <2>1, <2>2 DEF PaidOrFlying
<1> QED BY <1>3, <1>4, <1>5, <1>6, GiftKeeps

LEMMA LandKeepsPayout ==
  ASSUME PayoutInv, TypeInv', Land
  PROVE  PayoutInv'
<1> USE DEF PayoutInv
<1>1. PICK i \in DOMAIN flight :
        /\ flight' = Without(i)
        /\ core' \in Landed(core, flight[i], ~ToTrader(flight[i]) \/ traderExists, keySpoiled)
        /\ IF ToTrader(flight[i]) /\ core'.spot < core.spot
           THEN received' = received + flight[i][2] /\ traderExists' = TRUE
           ELSE UNCHANGED <<received, traderExists>>
  BY DEF Land
<1> DEFINE a == flight[i]
<1>2. UNCHANGED <<status, payout, giveBack>> /\ block' = "core"
  BY DEF Land, contractVars
<1>3. /\ \A j \in DOMAIN flight' : Was(i, j) \in DOMAIN flight /\ Was(i, j) # i /\ flight'[j] = flight[Was(i, j)]
      /\ \A j, l \in DOMAIN flight' : Was(i, j) = Was(i, l) => j = l
      /\ \A l \in DOMAIN flight : l # i => \E j \in DOMAIN flight' : Was(i, j) = l
  BY <1>1, LeftWas DEF TypeInv, CoreTypes
<1>4. (InFlight("send")' => InFlight("send")) /\ (InFlight("toPerp")' => InFlight("toPerp"))
  BY <1>1, LeftKinds DEF TypeInv, CoreTypes
<1>5. /\ a[1] \in {"agent", "cancel", "close"} => core'.spot = core.spot
      /\ a[1] = "toSpot" => core'.spot >= core.spot
      /\ a[1] = "send" => core'.spot = IF core.spot >= SendCost(~ToTrader(a) \/ traderExists, a[2])
                                       THEN core.spot - SendCost(~ToTrader(a) \/ traderExists, a[2]) ELSE core.spot
      /\ a[1] \in {"agent", "cancel", "close", "toSpot", "toPerp", "send"}
  <2>1. a \in Sendable /\ core \in Accounts
    BY DEF TypeInv, CoreTypes
  <2>2. a[1] \in {"agent", "cancel", "close", "toSpot", "toPerp", "send"}
    BY <2>1 DEF Sendable, Harmless, Transfers, Stops, Approval, Replacement
  <2> HIDE DEF a
  <2>3. core' \in Landed(core, a, ~ToTrader(a) \/ traderExists, keySpoiled)
    BY <1>1 DEF a
  <2> QED BY <2>1, <2>2, <2>3, LandedType
<1>6. Young' /\ SettledOwesNothing' /\ CapitalCrossing'
  BY <1>2, <1>4 DEF Young, SettledOwesNothing, CapitalCrossing, Owing
<1>7. CASE ToTrader(a)
  <2>1. \A j \in DOMAIN flight' : ~ToTrader(flight'[j])
    BY <1>3, <1>7 DEF OnePayout
  <2>2. payout.done /\ a[2] = payout.sent /\ payout.sent > 0 /\ received = 0
    BY <1>7 DEF OnePayout, NoneBeforePay
  <2>3. NoneBeforePay' /\ OnePayout' /\ Covered'
    BY <1>2, <1>4, <2>1, <2>2 DEF NoneBeforePay, OnePayout, Covered, Owing
  <2>4. ASSUME payout.at <= PayoutWait PROVE received' = payout.sent
    <3>1. core.spot >= SendCost(traderExists, payout.sent) /\ SendCost(traderExists, payout.sent) > 0
      <4>1. core.spot >= payout.spotBefore /\ payout.spotBefore >= SendCost(traderExists, payout.sent)
        BY <1>7, <2>4 DEF Covered
      <4>2. core.spot \in Nat /\ payout.spotBefore \in Nat /\ payout.sent \in Nat
        BY DEF TypeInv, CoreTypes, Accounts, Payouts
      <4>3. SendCost(traderExists, payout.sent) \in Nat /\ SendCost(traderExists, payout.sent) > 0
        BY <2>2, <4>2, CostType
      <4> QED BY <4>1, <4>2, <4>3
    <3>2. SendCost(~ToTrader(a) \/ traderExists, a[2]) = SendCost(traderExists, payout.sent)
      BY <1>7, <2>2 DEF TypeInv, SendCost
    <3>3. a[1] = "send" /\ core.spot \in Nat
      BY <1>7 DEF ToTrader, TypeInv, CoreTypes, Accounts
    <3>4. SendCost(traderExists, payout.sent) \in Nat
      BY <2>2, UnitsAssumption DEF SendCost, TypeInv, Payouts
    <3>5. core'.spot < core.spot
      BY <1>5, <3>1, <3>2, <3>3, <3>4
    <3>6. received' = received + a[2] /\ payout.sent \in Nat
      BY <1>1, <1>7, <3>5 DEF TypeInv, Payouts
    <3> QED BY <2>2, <3>6
  <2>5. PaidOrFlying'
    BY <1>2, <2>4, TermsAssumption DEF PaidOrFlying, TypeInv, Payouts
  <2> QED BY <1>6, <2>3, <2>5
<1>8. CASE ~ToTrader(a)
  <2>1. UNCHANGED <<received, traderExists>>
    BY <1>1, <1>8
  <2>2. NoneBeforePay'
    BY <1>2, <1>3, <1>4, <2>1 DEF NoneBeforePay, Owing
  <2>3. OnePayout'
    BY <1>2, <1>3, <2>1 DEF OnePayout
  <2>4. Covered'
    <3> SUFFICES ASSUME NEW j \in DOMAIN flight', ToTrader(flight'[j]), payout.at <= PayoutWait
                 PROVE  /\ core'.spot >= payout.spotBefore /\ payout.spotBefore >= SendCost(traderExists, payout.sent)
                        /\ \A l \in DOMAIN flight' : IsSend(flight'[l]) => l = j
      BY <1>2, <2>1 DEF Covered
    <3>1. ToTrader(flight[Was(i, j)]) /\ Was(i, j) \in DOMAIN flight /\ Was(i, j) # i
      BY <1>3
    <3>2. /\ core.spot >= payout.spotBefore /\ payout.spotBefore >= SendCost(traderExists, payout.sent)
          /\ \A l \in DOMAIN flight : IsSend(flight[l]) => l = Was(i, j)
      BY <3>1 DEF Covered
    <3>3. \A l \in DOMAIN flight' : IsSend(flight'[l]) => l = j
      BY <1>3, <3>2
    <3>4. a[1] # "send" /\ a[1] # "toPerp"
      <4>1. payout.done
        BY <3>1 DEF NoneBeforePay
      <4>2. ~InFlight("toPerp")
        BY <4>1 DEF CapitalCrossing
      <4> QED BY <3>1, <3>2, <4>2 DEF IsSend, InFlight
    <3>5. core'.spot >= core.spot
      BY <1>5, <3>4 DEF TypeInv, CoreTypes, Accounts
    <3>6. core'.spot >= payout.spotBefore
      BY <3>2, <3>5 DEF TypeInv, CoreTypes, Accounts, Payouts
    <3> QED BY <3>2, <3>3, <3>6
  <2>5. PaidOrFlying'
    <3>1. (\E l \in DOMAIN flight : ToTrader(flight[l])) => \E j \in DOMAIN flight' : ToTrader(flight'[j])
      BY <1>3, <1>8
    <3> QED BY <1>2, <2>1, <3>1 DEF PaidOrFlying
  <2> QED BY <1>6, <2>2, <2>3, <2>4, <2>5
<1> QED BY <1>7, <1>8

LEMMA BlockKeepsPayout ==
  ASSUME "toPerp" \notin LateOps, PayoutInv, TypeInv', NEW ticks \in BOOLEAN, BeginBlock(ticks)
  PROVE  PayoutInv'
<1> USE DEF PayoutInv
<1>1. UNCHANGED <<core, flight, status, traderExists, received>>
  BY DEF BeginBlock
<1>2. /\ payout'.owed = payout.owed /\ payout'.sent = payout.sent /\ payout'.done = payout.done
      /\ payout'.spotBefore = payout.spotBefore /\ payout'.at >= payout.at
      /\ payout.at \in Int /\ payout'.at \in Int
  BY OlderType, TermsAssumption DEF BeginBlock, TypeInv, Payouts
<1>3. giveBack.at = Unset => giveBack'.at = Unset
  BY DEF BeginBlock, TypeInv, GiveBacks, Older
<1>4. Young' /\ NoneBeforePay' /\ OnePayout' /\ SettledOwesNothing'
  BY <1>1, <1>2, <1>3 DEF Young, NoneBeforePay, OnePayout, SettledOwesNothing, Owing, InFlight
<1>5. Covered' /\ PaidOrFlying'
  BY <1>1, <1>2, TermsAssumption DEF Covered, PaidOrFlying
<1>6. ~InFlight("toPerp")'
  BY <1>1 DEF BeginBlock, AllLanded, InFlight
<1> QED BY <1>4, <1>5, <1>6 DEF CapitalCrossing

\* Others may fill the account and give the trader one, which makes the transfer cheaper.
LEMMA WorldKeepsPayout ==
  ASSUME PayoutInv, TypeInv', UNCHANGED <<flight, status, payout, giveBack, received>>,
         core'.spot >= core.spot, traderExists => traderExists', block' = "core"
  PROVE  PayoutInv'
<1> USE DEF PayoutInv
<1>1. Young' /\ NoneBeforePay' /\ OnePayout' /\ PaidOrFlying' /\ SettledOwesNothing'
  BY DEF Young, NoneBeforePay, OnePayout, PaidOrFlying, SettledOwesNothing, Owing, InFlight
<1>2. Covered'
  <2>1. /\ core.spot \in Nat /\ core'.spot \in Nat /\ payout.spotBefore \in Nat /\ payout.sent \in Nat
        /\ traderExists \in BOOLEAN /\ traderExists' \in BOOLEAN
    BY DEF TypeInv, CoreTypes, Accounts, Payouts
  <2>2. SendCost(traderExists', payout.sent) <= SendCost(traderExists, payout.sent)
          /\ SendCost(traderExists', payout.sent) \in Nat /\ SendCost(traderExists, payout.sent) \in Nat
    BY <2>1, UnitsAssumption DEF SendCost
  <2>3. core.spot >= payout.spotBefore => core'.spot >= payout.spotBefore
    BY <2>1
  <2>4. payout.spotBefore >= SendCost(traderExists, payout.sent) =>
          payout.spotBefore >= SendCost(traderExists', payout.sent)
    BY <2>1, <2>2
  <2> QED BY <2>3, <2>4 DEF Covered
<1>3. CapitalCrossing'
  BY DEF CapitalCrossing, InFlight
<1> QED BY <1>1, <1>2, <1>3

LEMMA NextPayoutInv ==
  ASSUME "toPerp" \notin LateOps
  PROVE  PayoutInv /\ [Next]_vars =>
           PayoutInv' /\ (Settles => received = payout'.sent \/ payout.at > PayoutWait)
<1> SUFFICES ASSUME PayoutInv, [Next]_vars
             PROVE  PayoutInv' /\ (Settles => received = payout'.sent \/ payout.at > PayoutWait)
  OBVIOUS
<1>0. TypeInv /\ TypeInv' /\ SamePayout(payout) /\ core \in Accounts /\ CoreTypes
  BY NextTypeInv DEF PayoutInv, TypeInv, CoreTypes, SamePayout
<1>1. CASE Activate
  BY <1>0, <1>1, ActivateKeeps DEF Activate, Settles
<1>2. CASE Graduate
  BY <1>0, <1>2, GraduateKeeps DEF Graduate, Settles
<1>3. CASE Abort
  <2>1. ~Owing
    BY <1>3 DEF Abort, PayoutInv, Young, Owing
  <2> QED BY <1>0, <1>3, <2>1, CutIsQuiet, QuietKeeps DEF Abort, worldVars, Settles, IsStopped, Stopped
<1>4. ASSUME NEW oids \in CancelSets, NEW extra \in ExtraSets,
             BreachCall(oids, extra) \/ Expire(oids, extra) \/ Forfeit(oids, extra)
      PROVE  PayoutInv' /\ ~Settles
  <2>1. PICK st \in Stopped : End(st, oids, extra)
    BY <1>4 DEF BreachCall, Expire, Forfeit, Stopped
  <2>2. StopActions(oids, extra) \in Seq(Quiet)
    <3>1. Stops \cup {Replacement} \subseteq Quiet
      BY DEF Quiet, Drains
    <3> QED BY <1>0, <3>1, StopType, SeqMonotonic
  <2>3. ~Owing
    BY <2>1 DEF End, PayoutInv, Young, Owing
  <2> QED BY <1>0, <2>1, <2>2, <2>3, QuietKeeps DEF End, worldVars, Settles, Stopped
<1>5. CASE Recut
  BY <1>0, <1>5, CutIsQuiet, QuietKeeps DEF Recut, CanRecut, worldVars, Settles, IsStopped, Stopped
<1>6. ASSUME NEW oids \in CancelSets, NEW extra \in ExtraSets, Settle(oids, extra)
      PROVE  PayoutInv' /\ (Settles => received = payout'.sent \/ payout.at > PayoutWait)
  BY <1>0, <1>6, SettleEnds, EndedKeeps
<1>7. CASE Sweep
  BY <1>0, <1>7, SweepKeeps DEF Sweep, Settles
<1>8. CASE TakeCheckpoint \/ UNCHANGED vars
  <2>1. UNCHANGED <<core, flight, block, status, payout, giveBack, received, traderExists>>
    BY <1>8 DEF TakeCheckpoint, vars, coreVars, worldVars
  <2> QED BY <1>0, <2>1 DEF PayoutInv, Young, NoneBeforePay, OnePayout, Covered, PaidOrFlying,
                           SettledOwesNothing, CapitalCrossing, Owing, InFlight, IsStopped, Settles
<1>9. CASE EndBlock
  BY <1>0, <1>9, WorldKeepsPayout DEF EndBlock, contractVars, worldVars, Settles, CoreTypes, Accounts
<1>10. ASSUME NEW ticks \in BOOLEAN, BeginBlock(ticks)
       PROVE  PayoutInv' /\ ~Settles
  BY <1>0, <1>10, BlockKeepsPayout DEF BeginBlock, Settles
<1>11. CASE Land
  BY <1>0, <1>11, LandKeepsPayout DEF Land, contractVars, Settles
<1>12. CASE World
  <2>1. core'.spot >= core.spot
    BY <1>0, <1>12, WorldAccount
  <2>2. /\ UNCHANGED <<flight, status, payout, giveBack, received>> /\ block' = "core"
        /\ traderExists => traderExists'
    BY <1>12 DEF World, Trade, Move, Donate, AccountChanges, CapitalLands, AddressAppears, contractVars
  <2> QED BY <1>0, <2>1, <2>2, WorldKeepsPayout DEF Settles
<1> QED BY <1>1, <1>2, <1>3, <1>4, <1>5, <1>6, <1>7, <1>8, <1>9, <1>10, <1>11, <1>12 DEF Next, Call

\* The trader's transfer and the pool's never fly together, and spot covers the trader's as long
\* as its wait runs: no step, in its block or a later one, sends the money elsewhere first (settle).
THEOREM PayoutAlwaysCovered ==
  ASSUME "toPerp" \notin LateOps
  PROVE  Spec => []PayoutCovered
<1>1. PayoutInv => PayoutCovered
  <2> SUFFICES ASSUME PayoutInv, NEW i \in DOMAIN flight, ToTrader(flight[i]), payout.at <= PayoutWait
               PROVE  /\ core.spot >= SendCost(traderExists, flight[i][2])
                      /\ \A j \in DOMAIN flight : flight[j][1] = "send" => j = i
    BY DEF PayoutCovered
  <2>1. /\ core.spot >= payout.spotBefore /\ payout.spotBefore >= SendCost(traderExists, payout.sent)
        /\ \A j \in DOMAIN flight : flight[j][1] = "send" => j = i
        /\ flight[i][2] = payout.sent
    BY DEF PayoutInv, Covered, OnePayout, IsSend
  <2>2. core.spot \in Nat /\ payout.spotBefore \in Nat /\ SendCost(traderExists, payout.sent) \in Nat
    BY CostType DEF PayoutInv, TypeInv, CoreTypes, Accounts, Payouts
  <2> QED BY <2>1, <2>2
<1> QED BY <1>1, InitPayoutInv, NextPayoutInv, PTL DEF Spec

\* When a challenge settles the trader has what was sent, once, unless the payout had its wait
\* (settle, the payout's record).
THEOREM PaidBeforeSettled ==
  ASSUME "toPerp" \notin LateOps
  PROVE  Spec => SettledMeansPaid
BY InitPayoutInv, NextPayoutInv, PTL DEF Spec, SettledMeansPaid

----------------------------------------------------------------------------
(* How a challenge settles. *)

\* Only a settlement step settles, and only one pays.
LEMMA OnlySettle ==
  ASSUME TypeInv, [Next]_vars, Settles \/ Pays
  PROVE  \E oids \in CancelSets, extra \in ExtraSets : Settle(oids, extra)
<1>1. CASE Activate \/ Abort \/ TakeCheckpoint \/ Graduate \/ Recut \/ Sweep
  BY <1>1 DEF Activate, Abort, TakeCheckpoint, Graduate, Recut, Sweep, clockVars, Settles, Pays, TypeInv, Payouts
<1>2. ASSUME NEW oids \in CancelSets, NEW extra \in ExtraSets,
             BreachCall(oids, extra) \/ Expire(oids, extra) \/ Forfeit(oids, extra)
      PROVE  FALSE
  BY <1>2 DEF BreachCall, Expire, Forfeit, End, Settles, Pays
<1>3. CASE EndBlock \/ Land \/ World \/ UNCHANGED vars
  BY <1>3 DEF EndBlock, Land, World, Trade, Move, Donate, AccountChanges, CapitalLands, AddressAppears,
              contractVars, vars, Settles, Pays
<1>4. ASSUME NEW ticks \in BOOLEAN, BeginBlock(ticks)
      PROVE  FALSE
  BY <1>4 DEF BeginBlock, Settles, Pays, TypeInv, Payouts
<1> QED BY <1>1, <1>2, <1>3, <1>4 DEF Next, Call

\* What the return window or an empty perp side leaves: nothing, or what the window let go.
NothingLeft(g) ==
  /\ core.open = {} /\ core.orders = {}
  /\ g.at > ReturnWait \/ (core.perp = 0 /\ (core.spot = 0 \/ InFlight("send")'))

LEMMA SettlesByHandBack ==
  ASSUME TypeInv, NEW drain \in Seq(Drains), NEW p \in Payouts, NEW g \in GiveBacks,
         core.open = {}, ~Crossing(g), IsStopped, HandBack(drain, p, g), Settles
  PROVE  giveBack' = g /\ payout' = p /\ NothingLeft(g)
<1> DEFINE send == drain \o SendUsdc("pool", core.spot)
           frozen == IF g.spotBefore = 0 THEN [g EXCEPT !.spotBefore = core.spot] ELSE g
<1>1. (core.spot = 0 /\ Finish(drain, p, g)) \/ (core.spot # 0 /\ Finish(send, p, g))
  BY DEF HandBack, EndStep, Settles
<1>2. NothingHeldOnPerp /\ giveBack' = g /\ payout' = p
  BY <1>1 DEF Finish, EndStep, Settles
<1>3. core.orders = {} /\ Free = core.perp
  BY <1>2, NothingHeld DEF TypeInv, CoreTypes
<1>4. g.at > ReturnWait \/ core.perp = 0
  BY <1>3, TermsAssumption DEF Crossing, GiveBacks
<1>5. core.spot # 0 => InFlight("send")'
  <2> SUFFICES ASSUME core.spot # 0 PROVE InFlight("send")'
    OBVIOUS
  <2> DEFINE a == <<"send", core.spot, "pool">>
  <2>1. core.spot \in Nat /\ SendUsdc("pool", core.spot) = <<a>> /\ a \in Sendable /\ drain \in Seq(Sendable)
    BY DrainsAre DEF TypeInv, CoreTypes, Accounts, SendUsdc, Sendable, Harmless, Transfers, Recipients
  <2>2. flight' = flight \o (drain \o <<a>>) /\ flight \in Seq(Sendable)
    BY <1>1, <2>1 DEF Finish, EndStep, Send, TypeInv, CoreTypes
  <2> HIDE DEF a
  <2>3. \E n \in DOMAIN flight' : flight'[n] = a
    BY <2>1, <2>2, SentLast
  <2> QED BY <2>3 DEF InFlight, a
<1> QED BY <1>2, <1>3, <1>4, <1>5 DEF NothingLeft

\* Settling strands nothing of the account's own: no position or order is left, a share that is
\* owed has been paid, and until the return window is over the perp side is empty and what is on
\* spot leaves with this step (settle).
THEOREM NothingEverStranded == Spec => SettledStrandsNothing
<1>1. TypeInv /\ [Next]_vars =>
        [Settles => /\ core.open = {} /\ core.orders = {} /\ (payout.owed # 0 => payout'.done)
                    /\ giveBack'.at > ReturnWait \/
                         (core.perp = 0 /\ (core.spot = 0 \/ InFlight("send")'))]_vars
  <2> SUFFICES ASSUME TypeInv, [Next]_vars, Settles
               PROVE  NothingLeft(giveBack') /\ (payout.owed # 0 => payout'.done)
    BY DEF NothingLeft
  <2>1. PICK oids \in CancelSets, extra \in ExtraSets : Settle(oids, extra)
    BY OnlySettle
  <2> DEFINE drain == DrainActions(oids, extra)
             g == IF giveBack.at = Unset /\ (Free # 0 \/ core.spot # 0)
                  THEN [giveBack EXCEPT !.at = 0] ELSE giveBack
             p == IF core.spot < payout.owed /\ Free # 0 /\ payout.shortAt = Unset
                  THEN [payout EXCEPT !.shortAt = 0] ELSE payout
             pay == SendableTo(traderExists, IF core.spot < p.owed THEN core.spot ELSE p.owed)
             paid == [owed |-> p.owed, sent |-> pay, done |-> TRUE, spotBefore |-> core.spot, at |-> 0,
                      shortAt |-> p.shortAt]
  <2>2. drain \in Seq(Drains)
    BY DrainType DEF TypeInv, CoreTypes
  <2>3. g \in GiveBacks /\ p \in Payouts /\ payout \in Payouts /\ core.spot \in Nat
    BY DEF TypeInv, CoreTypes, GiveBacks, Payouts, Accounts, Unset
  <2> HIDE DEF p
  <2>4. pay \in Nat
    BY <2>3, UnitsAssumption DEF SendableTo, Payouts
  <2> HIDE DEF pay
  <2>5. paid \in Payouts
    BY <2>3, <2>4 DEF Payouts
  <2>6. /\ IsStopped /\ core.open = {} /\ ~Crossing(g)
        /\ \/ ~Owing /\ HandBack(drain, payout, g)
           \/ HandBack(drain, paid, g)
    BY <2>1 DEF Settle, PayWhenCovered, Pay, EndStep, Settles, p, pay
  <2> HIDE DEF drain, g, paid
  <2>7. CASE ~Owing /\ HandBack(drain, payout, g)
    BY <2>2, <2>3, <2>6, <2>7, SettlesByHandBack DEF Owing
  <2>8. CASE HandBack(drain, paid, g)
    <3>1. giveBack' = g /\ payout' = paid /\ NothingLeft(g)
      BY <2>2, <2>3, <2>5, <2>6, <2>8, SettlesByHandBack
    <3> QED BY <3>1 DEF paid
  <2> QED BY <2>6, <2>7, <2>8
<1> QED BY <1>1, AlwaysTypes, PTL DEF Spec, SettledStrandsNothing

\* A share is cut short only by an account that really holds less: spot covers it, or nothing is
\* left on the perp side that could cross, or the wait for what was crossing is over (settle).
THEOREM ShortOnlyOfWhatIsThere == Spec => ShortOnlyIfAllThere
<1>1. TypeInv /\ [Next]_vars =>
        [Pays => core.spot >= payout.owed \/ core.perp = 0 \/ payout.shortAt > PayoutWait]_vars
  <2> SUFFICES ASSUME TypeInv, [Next]_vars, Pays
               PROVE  core.spot >= payout.owed \/ core.perp = 0 \/ payout.shortAt > PayoutWait
    OBVIOUS
  <2>1. PICK oids \in CancelSets, extra \in ExtraSets : Settle(oids, extra)
    BY OnlySettle
  <2> DEFINE drain == DrainActions(oids, extra)
             g == IF giveBack.at = Unset /\ (Free # 0 \/ core.spot # 0)
                  THEN [giveBack EXCEPT !.at = 0] ELSE giveBack
             short == core.spot < payout.owed /\ Free # 0
             p == IF short /\ payout.shortAt = Unset THEN [payout EXCEPT !.shortAt = 0] ELSE payout
  <2>2. core.open = {} /\ NothingHeldOnPerp /\ PayWhenCovered(drain, g)
    <3>1. ~HandBack(drain, payout, g)
      BY DEF HandBack, Finish, EndStep, Pays
    <3>2. ~EndStep(drain, payout, giveBack, status) /\ ~EndStep(drain, payout, g, status)
            /\ ~EndStep(drain, [payout EXCEPT !.shortAt = Unset], g, status)
      BY DEF EndStep, Pays, TypeInv, Payouts
    <3> HIDE DEF drain, g
    <3> QED BY <2>1, <3>1, <3>2 DEF Settle, drain, g
  <2>3. ~(short /\ p.shortAt <= PayoutWait)
    BY <2>2 DEF PayWhenCovered, EndStep, Pays, TypeInv, Payouts
  <2>4. Free = core.perp
    BY <2>2, NothingHeld DEF TypeInv, CoreTypes
  <2>5. CASE ~short
    BY <2>4, <2>5 DEF TypeInv, CoreTypes, Payouts, Accounts
  <2>6. CASE short
    BY <2>3, <2>6, TermsAssumption DEF TypeInv, Payouts
  <2> QED BY <2>5, <2>6
<1> QED BY <1>1, AlwaysTypes, PTL DEF Spec, ShortOnlyIfAllThere

----------------------------------------------------------------------------
(* The trader's key does not outlive the stop, where a replacement cannot     *)
(* fail and agent actions land in order.                                     *)

CutInv ==
  /\ TypeInv
  /\ status = "Created" => core.agent # "trader" /\ ~InFlight("agent")
  /\ status \notin {"Created", "Active"} => Replaced

LEMMA NextCutInv ==
  ASSUME ~CutMayFail, "agent" \notin LateOps
  PROVE  CutInv /\ [Next]_vars => CutInv'
<1> SUFFICES ASSUME CutInv, [Next]_vars PROVE CutInv'
  OBVIOUS
<1>1. TypeInv /\ TypeInv'
  BY NextTypeInv DEF CutInv
<1>2. CASE Activate
  BY <1>1, <1>2 DEF Activate, CutInv
<1>3. CASE Abort
  <2>1. Replaced
    BY <1>1, <1>3, NoAgentNoKey DEF Abort, CutInv, Replaced, TypeInv
  <2>2. Replaced'
    <3>1. <<>> \in Seq(Harmless)
      OBVIOUS
    <3> QED BY <1>1, <1>3, <2>1, <3>1, HarmlessKeeps DEF Abort, TypeInv
  <2> QED BY <1>1, <1>3, <2>2 DEF Abort, CutInv
<1>4. ASSUME NEW oids \in CancelSets, NEW extra \in ExtraSets,
             BreachCall(oids, extra) \/ Expire(oids, extra) \/ Forfeit(oids, extra)
      PROVE  CutInv'
  <2>1. PICK s \in Stopped : End(s, oids, extra)
    BY <1>4 DEF BreachCall, Expire, Forfeit, Stopped
  <2>2. Replaced'
    <3>1. StopActions(oids, extra) \in Seq(Harmless) /\ Len(StopActions(oids, extra)) > 0
          /\ StopActions(oids, extra)[1] = Replacement
      BY <1>1, StopType, StopsAre DEF TypeInv, CoreTypes
    <3> QED BY <1>1, <2>1, <3>1, CutReplaces DEF End, TypeInv
  <2> QED BY <1>1, <2>1, <2>2 DEF End, CutInv, Stopped
<1>5. CASE Graduate \/ Recut
  <2>1. CutActions \in Seq(Harmless) /\ Len(CutActions) > 0 /\ CutActions[1] = Replacement
    BY SendsType DEF CutActions, SetAgent, Replacement
  <2>2. Replaced'
    BY <1>1, <1>5, <2>1, CutReplaces DEF Graduate, Recut, TypeInv
  <2> QED BY <1>1, <1>5, <2>2 DEF Graduate, Recut, CanRecut, IsStopped, Stopped, CutInv
<1>6. ASSUME NEW s \in Seq(Harmless), Send(s), status' \in {status, "Settled"},
             status \notin {"Created", "Active"}
      PROVE  CutInv'
  <2>1. Replaced'
    BY <1>1, <1>6, HarmlessKeeps DEF CutInv, TypeInv
  <2> QED BY <1>1, <1>6, <2>1 DEF CutInv
<1>7. ASSUME NEW oids \in CancelSets, NEW extra \in ExtraSets, Settle(oids, extra)
      PROVE  CutInv'
  <2>1. status \notin {"Created", "Active"}
    BY <1>7 DEF Settle, IsStopped, Stopped
  <2>2. PICK s \in Seq(Harmless) : Send(s) /\ status' \in {status, "Settled"}
    BY <1>1, <1>7, SettleEnds, EndedSends
  <2> QED BY <1>6, <2>1, <2>2
<1>8. CASE Sweep
  <2>1. Free \in Nat /\ core.spot \in Nat /\ "pool" \in Recipients
    BY <1>1, WithdrawableType DEF Free, TypeInv, CoreTypes, Accounts, Recipients
  <2>2. (IF Free # 0 THEN ToSpot(Free) ELSE SendUsdc("pool", core.spot)) \in Seq(Harmless)
    BY <2>1, SendsType
  <2> QED BY <1>6, <1>8, <2>2 DEF Sweep
<1>9. CASE Land
  <2>1. PICK i \in DOMAIN flight :
          /\ MayLand(i) /\ flight' = Without(i)
          /\ core' \in Landed(core, flight[i], ~ToTrader(flight[i]) \/ traderExists, keySpoiled)
    BY <1>9 DEF Land
  <2>2. status' = status /\ CoreTypes
    BY <1>1, <1>9 DEF TypeInv, Land, contractVars
  <2>3. CASE status = "Created"
    BY <1>1, <2>1, <2>2, <2>3, LandWithoutAgent DEF CutInv
  <2>4. CASE status \notin {"Created", "Active"}
    BY <1>1, <2>1, <2>2, <2>4, LandKeeps DEF CutInv
  <2> QED BY <1>1, <2>2, <2>3, <2>4 DEF CutInv
<1>10. ASSUME status' = status, flight' = flight, core'.agent = core.agent
       PROVE  CutInv'
  BY <1>1, <1>10 DEF CutInv, Replaced, InFlight
<1>11. CASE World
  <2>1. core'.agent = core.agent
    BY <1>1, <1>11, WorldAccount DEF TypeInv, Like
  <2>2. status' = status /\ flight' = flight
    BY <1>11 DEF World, Trade, Move, Donate, AccountChanges, CapitalLands, AddressAppears, contractVars
  <2> QED BY <1>10, <2>1, <2>2
<1>12. CASE TakeCheckpoint \/ EndBlock \/ (\E ticks \in BOOLEAN : BeginBlock(ticks)) \/ UNCHANGED vars
  BY <1>10, <1>12 DEF TakeCheckpoint, EndBlock, BeginBlock, vars, coreVars, contractVars
<1> QED BY <1>2, <1>3, <1>4, <1>5, <1>7, <1>8, <1>9, <1>11, <1>12 DEF Next, Call

LEMMA InitCutInv == Init => CutInv
BY InitTypeInv DEF CutInv, Init, NewAccount, InFlight

\* A stopped trader's key is replaced on HyperCore, or its replacement is on its way: whatever
\* calls meet in one block, a start among them (activate, _end, _cutAgent).
THEOREM TraderAlwaysOut ==
  ASSUME ~CutMayFail, "agent" \notin LateOps
  PROVE  Spec => []TraderIsOut
<1>1. CutInv => TraderIsOut
  BY NoAgentNoKey DEF CutInv, TraderIsOut, Replaced, TypeInv
<1> QED BY <1>1, InitCutInv, NextCutInv, PTL DEF Spec

----------------------------------------------------------------------------
(* The daily limit has a base to be measured from, where nobody gives the     *)
(* account as much as its capital.                                          *)

CapitalInSpot == Capital * SpotPerPerp

\* What a start sends.
Starts == {<<"toPerp", Capital>>, Approval}

\* Until it starts nothing is sent; what is on spot then is dust and the capital, and it stays
\* dust once the capital has crossed.
DayInv ==
  /\ TypeInv
  /\ status = "Created" =>
       /\ DOMAIN flight = {}
       /\ core.spot <= MaxDusted \/ (capitalSent /\ core.spot <= MaxDusted + CapitalInSpot)
  /\ status = "Active" =>
       /\ capitalSent
       /\ \A i \in DOMAIN flight : flight[i] \in Starts
       /\ \A i, j \in DOMAIN flight : flight[i][1] = "toPerp" /\ flight[j][1] = "toPerp" => i = j
       /\ \/ core.spot <= MaxDusted
          \/ InFlight("toPerp") /\ core.spot >= CapitalInSpot /\ core.spot <= MaxDusted + CapitalInSpot

LEMMA CapitalNat == CapitalInSpot \in Nat /\ MaxDusted \in Nat
BY TermsAssumption, UnitsAssumption DEF CapitalInSpot

\* The world adds dust, and once the capital.
LEMMA WorldSpot ==
  ASSUME CoreTypes, World
  PROVE  \/ core'.spot = core.spot /\ capitalSent' = capitalSent
         \/ core'.spot <= MaxDusted /\ capitalSent' = capitalSent
         \/ ~capitalSent /\ capitalSent' /\ core'.spot = core.spot + CapitalInSpot
<1>0. core \in Accounts
  BY DEF CoreTypes
<1>1. CASE Trade \/ Move
  <2>1. core' \in Traded(core) \cup Moved(core) /\ capitalSent' = capitalSent
    BY <1>1 DEF Trade, Move, AccountChanges
  <2> QED BY <1>0, <2>1, TradedType
<1>2. CASE Donate
  <2>1. core' \in Donated(core) /\ capitalSent' = capitalSent
    BY <1>2 DEF Donate, AccountChanges
  <2>2. core' \in Accounts /\ Wealth(core') <= MaxDusted
    BY <1>0, <2>1, DonatedType DEF Like
  <2>3. core'.spot \in Nat /\ core'.perp \in Nat
    BY <2>2 DEF Accounts
  <2>4. core'.perp * SpotPerPerp \in Nat
    BY <2>3, UnitsAssumption
  <2>5. core'.spot <= MaxDusted
    BY <2>2, <2>3, <2>4, CapitalNat DEF Wealth
  <2> QED BY <2>1, <2>5
<1>3. CASE CapitalLands
  BY <1>3, CapitalType DEF CapitalInSpot, CapitalLands
<1>4. CASE AddressAppears
  BY <1>4 DEF AddressAppears
<1> QED BY <1>1, <1>2, <1>3, <1>4 DEF World

\* A start finds more than dust, so the capital is there; what it sends takes it across.
LEMMA ActivateKeepsDay ==
  ASSUME DayInv, TypeInv', Activate, MaxDusted < CapitalInSpot
  PROVE  DayInv'
<1> DEFINE a == <<"toPerp", Capital>>
           s == <<a>> \o <<Approval>>
<1>1. /\ status = "Created" /\ status' = "Active" /\ core' = core /\ capitalSent' = capitalSent
      /\ core.spot >= CapitalInSpot /\ flight \in Seq(Sendable)
  BY DEF Activate, CapitalArrived, CapitalInSpot, Send, worldVars, DayInv, TypeInv, CoreTypes
<1>2. ToPerp(Capital) = <<a>> /\ SetAgent("trader") = <<Approval>>
  BY TermsAssumption DEF ToPerp, SetAgent, Approval
<1>3. /\ s \in Seq(Sendable) /\ Len(s) = 2 /\ s[1] = a /\ s[2] = Approval
  <2>1. a \in Sendable /\ Approval \in Sendable
    BY TermsAssumption DEF Sendable, Harmless, Transfers
  <2> HIDE DEF a
  <2> QED BY <2>1, ConcatProperties
<1>4. DOMAIN flight' = 1..2 /\ flight'[1] = a /\ flight'[2] = Approval
  <2>1. DOMAIN flight = {} /\ flight' = flight \o s
    BY <1>1, <1>2 DEF Activate, Send, DayInv
  <2>2. Len(flight) \in Nat /\ DOMAIN flight = 1..Len(flight)
    BY <1>1, LenProperties
  <2>3. Len(flight) = 0
    BY <2>1, <2>2
  <2> HIDE DEF s
  <2>4. /\ DOMAIN flight' = 1..Len(flight) + Len(s) /\ DOMAIN s = 1..Len(s)
        /\ \A j \in DOMAIN s : flight'[Len(flight) + j] = s[j]
    BY <1>1, <1>3, <2>1, SentSeq
  <2>5. 1 \in DOMAIN s /\ 2 \in DOMAIN s /\ Len(flight) + 1 = 1 /\ Len(flight) + 2 = 2
    BY <1>3, <2>3, <2>4
  <2> QED BY <1>3, <2>3, <2>4, <2>5
<1>5. /\ \A i \in DOMAIN flight' : flight'[i] \in Starts
      /\ \A i \in DOMAIN flight' : flight'[i][1] = "toPerp" => i = 1
      /\ 1 \in DOMAIN flight' /\ flight'[1][1] = "toPerp"
  BY <1>4 DEF Starts, Approval
<1>6. core.spot \in Nat
  BY DEF DayInv, TypeInv, CoreTypes, Accounts
<1>7. capitalSent /\ core.spot <= MaxDusted + CapitalInSpot
  BY <1>1, <1>6, CapitalNat DEF DayInv
<1> QED BY <1>1, <1>5, <1>7 DEF DayInv, InFlight

\* What lands in a running challenge is what its start sent.
LEMMA LandKeepsDay ==
  ASSUME DayInv, TypeInv', Land, MaxDusted < CapitalInSpot
  PROVE  DayInv'
<1>1. PICK i \in DOMAIN flight :
        flight' = Without(i) /\ core' \in Landed(core, flight[i], ~ToTrader(flight[i]) \/ traderExists, keySpoiled)
  BY DEF Land
<1>2. status' = status /\ capitalSent' = capitalSent
  BY DEF Land, contractVars
<1>3. CASE status # "Active"
  BY <1>1, <1>2, <1>3 DEF DayInv
<1>4. CASE status = "Active"
  <2> DEFINE a == flight[i]
  <2>1. /\ \A j \in DOMAIN flight' : Was(i, j) \in DOMAIN flight /\ Was(i, j) # i /\ flight'[j] = flight[Was(i, j)]
        /\ \A j, l \in DOMAIN flight' : Was(i, j) = Was(i, l) => j = l
        /\ \A l \in DOMAIN flight : l # i => \E j \in DOMAIN flight' : Was(i, j) = l
    BY <1>1, LeftWas DEF DayInv, TypeInv, CoreTypes
  <2>2. /\ \A j \in DOMAIN flight' : flight'[j] \in Starts
        /\ \A j, l \in DOMAIN flight' : flight'[j][1] = "toPerp" /\ flight'[l][1] = "toPerp" => j = l
    BY <1>4, <2>1 DEF DayInv
  <2>3. a \in Starts /\ a \in Sendable /\ core \in Accounts /\ core.spot \in Nat
    BY <1>4 DEF DayInv, TypeInv, CoreTypes, Accounts
  <2> HIDE DEF a
  <2>4. /\ a[1] = "agent" => core'.spot = core.spot
        /\ a[1] = "toPerp" => core'.spot = IF core.spot >= a[2] * SpotPerPerp THEN core.spot - a[2] * SpotPerPerp ELSE core.spot
    BY <1>1, <2>3, LandedType DEF a
  <2>5. CASE a = Approval
    <3>1. core'.spot = core.spot
      BY <2>4, <2>5 DEF Approval
    <3>2. InFlight("toPerp") => InFlight("toPerp")'
      BY <2>1, <2>5 DEF InFlight, Approval, a
    <3> QED BY <1>2, <1>4, <2>2, <3>1, <3>2 DEF DayInv
  <2>6. CASE a = <<"toPerp", Capital>>
    <3>1. core'.spot = IF core.spot >= CapitalInSpot THEN core.spot - CapitalInSpot ELSE core.spot
      BY <2>4, <2>6 DEF CapitalInSpot
    <3>2. core.spot <= MaxDusted \/ (core.spot >= CapitalInSpot /\ core.spot <= MaxDusted + CapitalInSpot)
      BY <1>4 DEF DayInv
    <3>3. core'.spot <= MaxDusted
      BY <2>3, <3>1, <3>2, CapitalNat
    <3> QED BY <1>2, <1>4, <2>2, <3>3 DEF DayInv
  <2> QED BY <2>3, <2>5, <2>6 DEF Starts
<1> QED BY <1>3, <1>4

LEMMA NextDayInv ==
  ASSUME MaxDusted < CapitalInSpot
  PROVE  DayInv /\ [Next]_vars => DayInv'
<1> SUFFICES ASSUME DayInv, [Next]_vars PROVE DayInv'
  OBVIOUS
<1>1. TypeInv /\ TypeInv'
  BY NextTypeInv DEF DayInv
<1>2. CASE Activate
  BY <1>1, <1>2, ActivateKeepsDay
<1>3. ASSUME status' \notin {"Created", "Active"} PROVE DayInv'
  BY <1>1, <1>3 DEF DayInv
<1>4. CASE Abort \/ Graduate \/ Recut
  <2>1. status' \notin {"Created", "Active"}
    BY <1>4 DEF Abort, Graduate, Recut, CanRecut, IsStopped, Stopped
  <2> QED BY <1>3, <2>1
<1>5. ASSUME NEW oids \in CancelSets, NEW extra \in ExtraSets,
             \/ BreachCall(oids, extra) \/ Expire(oids, extra) \/ Forfeit(oids, extra) \/ Settle(oids, extra)
      PROVE  DayInv'
  <2>1. CASE Settle(oids, extra)
    <3>1. IsStopped /\ status' \in {status, "Settled"}
      BY <1>1, <2>1, SettleEnds, EndedSends DEF Settle
    <3> QED BY <1>3, <3>1 DEF IsStopped, Stopped
  <2>2. CASE BreachCall(oids, extra) \/ Expire(oids, extra) \/ Forfeit(oids, extra)
    <3>1. status' \notin {"Created", "Active"}
      BY <2>2 DEF BreachCall, Expire, Forfeit, End
    <3> QED BY <1>3, <3>1
  <2> QED BY <1>5, <2>1, <2>2
<1>6. CASE Sweep
  <2>1. status' \notin {"Created", "Active"}
    BY <1>6 DEF Sweep
  <2> QED BY <1>3, <2>1
<1>7. CASE Land
  BY <1>1, <1>7, LandKeepsDay
<1>8. CASE World
  <2>1. status' = status /\ flight' = flight
    BY <1>8 DEF World, Trade, Move, Donate, AccountChanges, CapitalLands, AddressAppears, contractVars
  <2>2. core.spot \in Nat /\ core'.spot \in Nat
    BY <1>1 DEF TypeInv, CoreTypes, Accounts
  <2>3. \/ core'.spot = core.spot /\ capitalSent' = capitalSent
        \/ core'.spot <= MaxDusted /\ capitalSent' = capitalSent
        \/ ~capitalSent /\ capitalSent' /\ core'.spot = core.spot + CapitalInSpot
    BY <1>1, <1>8, WorldSpot DEF TypeInv
  <2>4. InFlight("toPerp")' <=> InFlight("toPerp")
    BY <2>1 DEF InFlight
  <2>5. CASE status = "Created"
    BY <1>1, <2>1, <2>2, <2>3, <2>5, CapitalNat DEF DayInv
  <2>6. CASE status = "Active"
    BY <1>1, <2>1, <2>2, <2>3, <2>4, <2>6, CapitalNat DEF DayInv
  <2> QED BY <1>1, <2>1, <2>5, <2>6 DEF DayInv
<1>9. CASE TakeCheckpoint \/ EndBlock \/ (\E ticks \in BOOLEAN : BeginBlock(ticks)) \/ UNCHANGED vars
  <2>1. UNCHANGED <<status, core, flight, capitalSent>>
    BY <1>9 DEF TakeCheckpoint, EndBlock, BeginBlock, vars, coreVars, contractVars, worldVars
  <2> QED BY <1>1, <2>1 DEF DayInv, InFlight
<1> QED BY <1>2, <1>4, <1>5, <1>6, <1>7, <1>8, <1>9 DEF Next, Call

LEMMA InitDayInv == Init => DayInv
<1> SUFFICES ASSUME Init PROVE DayInv
  OBVIOUS
<1>1. flight = <<>> /\ core.spot = 0 /\ status = "Created"
  BY DEF Init, NewAccount
<1> QED BY <1>1, InitTypeInv, CapitalNat DEF DayInv

\* A running challenge never has a daily base of zero with its capital there and not crossing,
\* as long as strangers give it less than the capital (activate, _startDay).
THEOREM DailyLimitAlwaysInForce ==
  ASSUME MaxDusted < Capital * SpotPerPerp
  PROVE  Spec => DailyLimitInForce
<1>1. DayInv /\ [Next]_vars =>
        [status' = "Active" /\ dayStartEquity' = 0 /\ ~(status = "Active" /\ dayStartEquity = 0)
           => InFlight("toPerp") \/ Wealth(core) < Capital * SpotPerPerp]_vars
  <2> SUFFICES ASSUME DayInv, Next, status' = "Active", dayStartEquity' = 0, ~(status = "Active" /\ dayStartEquity = 0),
                      ~InFlight("toPerp")
               PROVE  Wealth(core) < Capital * SpotPerPerp
    OBVIOUS
  <2>1. ~Activate
    BY TermsAssumption DEF Activate, StartDay
  <2>2. status = "Active"
    BY <2>1, SettleEnds, EndedSends DEF Next, Call, Abort, TakeCheckpoint, BreachCall, Expire, Forfeit, End,
       Graduate, Recut, CanRecut, IsStopped, Stopped, Sweep, EndBlock, BeginBlock, Land, World, Trade, Move,
       Donate, AccountChanges, CapitalLands, AddressAppears, contractVars, Settle, DayInv
  <2>3. core.perp = 0
    <3>1. CASE TakeCheckpoint
      BY <3>1 DEF TakeCheckpoint, Checkpoint, StartDay
    <3>2. CASE ~TakeCheckpoint
      <4>1. dayStartEquity' = dayStartEquity
        BY <2>1, <2>2, <3>2 DEF Next, Call, Abort, BreachCall, Expire, Forfeit, End, dayVars, EndStep,
           Graduate, Recut, CanRecut, IsStopped, Stopped, Sweep, EndBlock, BeginBlock, Land, World, Trade, Move,
           Donate, AccountChanges, CapitalLands, AddressAppears, SameDay, Midnight, Settle
      <4> QED BY <2>2, <4>1
    <3> QED BY <3>1, <3>2
  <2>4. core.spot \in Nat /\ core.spot <= MaxDusted
    BY <2>2 DEF DayInv, TypeInv, CoreTypes, Accounts
  <2>5. 0 * SpotPerPerp = 0
    BY UnitsAssumption
  <2>6. Wealth(core) = core.spot
    BY <2>3, <2>4, <2>5 DEF Wealth
  <2>7. Capital * SpotPerPerp \in Nat /\ MaxDusted \in Nat
    BY CapitalNat DEF CapitalInSpot
  <2> QED BY <2>4, <2>6, <2>7
<1>2. MaxDusted < CapitalInSpot
  BY DEF CapitalInSpot
<1> QED BY <1>1, <1>2, InitDayInv, NextDayInv, PTL DEF Spec, DailyLimitInForce
=============================================================================
