------------------------------- MODULE Seats -------------------------------
(***************************************************************************)
(* The seats of a shared pool as the shared pool sees them: pools it owns,   *)
(* each with a stage and at most one challenge, and the money of all these   *)
(* accounts on HyperCore.  Pool and ChallengeAccount have modules of their   *)
(* own; here their calls are kept as far as they move money, stages and what *)
(* traders are owed.                                                        *)
(*                                                                         *)
(* Within a block the precompiles stand still, so `spot` and `equity` change *)
(* only when a block ends and what was sent lands, in order and on time, and *)
(* when HyperCore moves between blocks; both need `flight` empty, before or   *)
(* after.  A call that sends nothing may as well be in a block of its own.    *)
(***************************************************************************)
EXTENDS Units, Sequences, FiniteSets, SequencesExt

CONSTANTS
  Seats, POOL,
  Out,            \* everyone who is not an account of the pool's
  Tickets,        \* addresses of deposit tickets
  Capital, FundedCapital, TargetBps, ShareChallengeBps, ShareFundedBps, Price,
  PayoutWait, ReturnWait, FundedTerm,
  LateHandBack,   \* whether settling a challenge may go on after ReturnWait
  MaxSales,       \* bound: challenges a seat sells
  MaxEquity,      \* bound: what trading brings an account to
  MaxFlight       \* bound: actions sent in a block

ASSUME SeatsAssumption ==
  /\ {Capital, FundedCapital, TargetBps, ShareChallengeBps,
      ShareFundedBps, Price, PayoutWait, ReturnWait, FundedTerm, MaxSales, MaxEquity,
      MaxFlight} \subseteq Nat
  /\ Capital > 0 /\ FundedCapital > 0 /\ FundedTerm > 0
  /\ ShareChallengeBps <= BPS /\ ShareFundedBps <= BPS
  /\ LateHandBack \in BOOLEAN

VARIABLES
  spot,       \* spot USDC of every account
  equity,     \* perp account value of seats and challenges, in perp units
  exists,     \* which accounts HyperCore has
  flight,     \* sent in this block
  stage, earned,
  sales,      \* challenges sold, each with a new key for its funded stage
  challenge,  \* the running challenge of each seat
  funded,     \* the funded stage of each seat
  moving      \* stopped accounts that still hold positions

coreVars == <<spot, equity, exists>>
seatVars == <<stage, earned, sales, challenge, funded, moving>>

Challenge(s) == <<s, "challenge">>
Challenges == {Challenge(s) : s \in Seats}
Traded == Seats \cup Challenges
Accounts == {POOL} \cup Traded \cup Tickets

Unset == -1
Ages(wait) == Unset..wait
\* An age is forgotten when nothing asks for it any more: after its wait.
Aged(age, wait) == IF age = Unset \/ age >= wait THEN Unset ELSE age + 1
\* One that is asked whether a term is over is kept at the term.
AgedTo(age, term) == IF age = Unset \/ age >= term THEN age ELSE age + 1

NoChallenge == [status |-> "none", owed |-> 0, sent |-> 0, before |-> 0, done |-> FALSE,
                payoutAt |-> Unset, returnAt |-> Unset, returned |-> 0]
NotFunded == [start |-> 0, owed |-> 0, age |-> Unset]
Untaken == -1   \* the result of a closing stage is not taken yet

SeatsInit ==
  /\ equity = [a \in Traded |-> 0]
  /\ flight = <<>>
  /\ stage = [s \in Seats |-> "Idle"]
  /\ earned = [s \in Seats |-> 0]
  /\ sales = [s \in Seats |-> 0]
  /\ challenge = [s \in Seats |-> NoChallenge]
  /\ funded = [s \in Seats |-> NotFunded]
  /\ moving = {}

----------------------------------------------------------------------------
(* HyperCore. *)

SendUsdc(from, to, amount) == IF amount = 0 THEN <<>> ELSE <<<<"send", from, to, amount>>>>
ToPerp(a, usd) == IF usd = 0 THEN <<>> ELSE <<<<"toPerp", a, usd>>>>
ToSpot(a, usd) == IF usd = 0 THEN <<>> ELSE <<<<"toSpot", a, usd>>>>

Send(actions) ==
  /\ Len(flight) + Len(actions) <= MaxFlight
  /\ flight' = flight \o actions

Sent(from, to) == \E i \in DOMAIN flight :
                    flight[i][1] = "send" /\ flight[i][2] = from /\ flight[i][3] = to

\* An action that the balance does not cover is dropped.
Land(w, x) ==
  LET a == x[2]
      fee == IF x[3] \in w.exists \cup {Out} THEN 0 ELSE NewAccountFee
  IN  CASE x[1] = "send" ->
             IF w.spot[a] < x[4] + fee THEN w
             ELSE [w EXCEPT !.spot = [p \in DOMAIN @ |->
                                        @[p] - (IF p = a THEN x[4] + fee ELSE 0)
                                             + (IF p = x[3] THEN x[4] ELSE 0)],
                            !.exists = @ \cup ({x[3]} \ {Out})]
        [] x[1] = "toPerp" ->
             IF w.spot[a] < x[3] * SpotPerPerp THEN w
             ELSE [w EXCEPT !.spot[a] = @ - x[3] * SpotPerPerp, !.equity[a] = @ + x[3]]
        [] x[1] = "toSpot" ->
             IF w.equity[a] < x[3] THEN w
             ELSE [w EXCEPT !.spot[a] = @ + x[3] * SpotPerPerp, !.equity[a] = @ - x[3]]

EndBlock ==
  /\ flight # <<>>
  /\ LET w == FoldLeft(Land, [spot |-> spot, equity |-> equity, exists |-> exists], flight)
     IN  spot' = w.spot /\ equity' = w.equity /\ exists' = w.exists
  /\ flight' = <<>>
  /\ UNCHANGED seatVars

\* Traders and the market: any account whose trader holds the key, or that
\* still has positions.
Trade(a) ==
  /\ flight = <<>>
  /\ equity[a] > 0
  /\ \/ a \in moving
     \/ a \in Seats /\ stage[a] = "Funded"
     \/ a \in Challenges /\ challenge[a[1]].status = "active"
  /\ \E e \in {equity[a] - 1, equity[a] + 1} : e <= MaxEquity /\ equity' = [equity EXCEPT ![a] = e]
  /\ UNCHANGED <<spot, exists, flight, seatVars>>

\* The closing orders fill.
Flat(a) ==
  /\ flight = <<>>
  /\ a \in moving
  /\ moving' = moving \ {a}
  /\ UNCHANGED <<coreVars, flight, stage, earned, sales, challenge, funded>>

\* Time on the seats; the clocks of the shared pool are its own.
SeatsTick ==
  /\ challenge' = [s \in Seats |-> [challenge[s] EXCEPT !.payoutAt = Aged(@, PayoutWait),
                                     !.returnAt = IF LateHandBack THEN AgedTo(@, ReturnWait + 1)
                                                  ELSE @]]
  /\ funded' = [s \in Seats |-> [funded[s] EXCEPT !.age = AgedTo(@, FundedTerm)]]
  /\ UNCHANGED <<coreVars, flight, stage, earned, sales, moving>>

----------------------------------------------------------------------------
(* A trader's share of a profit, in spot units; nothing on a loss. *)

Share(profit, bps) == IF profit <= 0 THEN 0 ELSE (profit * bps * SpotPerPerp) \div BPS

CapitalNeeded == (Capital + FundedCapital) * SpotPerPerp + NewAccountFee
Target == Capital + (Capital * TargetBps) \div BPS

\* A running account that has nothing left breaks the drawdown rule; so does,
\* for the rest of the block, one whose capital is on its way to the perp side.
RuleBroken(a) == equity[a] = 0

----------------------------------------------------------------------------
(* The calls others make on a seat and on its challenge. *)

BuyChallenge(s) ==
  /\ stage[s] = "Idle" /\ challenge[s].status = "none" /\ sales[s] < MaxSales
  /\ s \in exists /\ spot[s] >= CapitalNeeded
  /\ ~Sent(s, POOL)            \* WithdrawnThisBlock
  \* The next challenge is another account; the last one is empty by then.
  /\ ~Sent(Challenge(s), s) /\ spot[Challenge(s)] + equity[Challenge(s)] = 0
  /\ stage' = [stage EXCEPT ![s] = "Challenge"]
  /\ sales' = [sales EXCEPT ![s] = @ + 1]
  /\ challenge' = [challenge EXCEPT ![s].status = "created"]
  /\ exists' = exists \ {Challenge(s)}
  /\ Send(SendUsdc(s, Challenge(s), Capital * SpotPerPerp))
  /\ UNCHANGED <<spot, equity, earned, funded, moving>>

Activate(s) ==
  /\ challenge[s].status = "created"
  /\ spot[Challenge(s)] >= Capital * SpotPerPerp
  /\ challenge' = [challenge EXCEPT ![s].status = "active"]
  /\ earned' = [earned EXCEPT ![s] = @ + Price]
  /\ Send(ToPerp(Challenge(s), Capital))
  /\ UNCHANGED <<coreVars, stage, sales, funded, moving>>

\* abort, breach, expire and forfeit; a challenge that ran may hold positions.
\* The key is checked at the sale, so an abort is never in the same block.
StopChallenge(s) ==
  /\ challenge[s].status \in {"created", "active"} /\ ~Sent(s, Challenge(s))
  /\ challenge' = [challenge EXCEPT ![s].status = "stopped"]
  /\ moving' \in {moving, moving \cup {Challenge(s)}}
  /\ challenge[s].status = "created" => UNCHANGED moving
  /\ UNCHANGED <<coreVars, flight, stage, earned, sales, funded>>

Graduate(s) ==
  /\ challenge[s].status = "active"
  /\ equity[Challenge(s)] >= Target /\ ~RuleBroken(Challenge(s))
  /\ challenge' = [challenge EXCEPT ![s].status = "passed",
                     ![s].owed = Share(equity[Challenge(s)] - Capital, ShareChallengeBps)]
  /\ stage' = [stage EXCEPT ![s] = "PassedAwaitingKey"]
  /\ UNCHANGED <<coreVars, flight, earned, sales, funded, moving>>

OnHyperCore(a) == spot[a] + equity[a] * SpotPerPerp

Stopped(s) == challenge[s].status \in {"passed", "stopped"} /\ Challenge(s) \notin moving

Waited(s) == challenge[s].returnAt > ReturnWait

\* A settlement step that finds money on the perp side sends it to spot.
DrainChallenge(s) ==
  /\ Stopped(s)
  /\ equity[Challenge(s)] > 0
  /\ challenge' = [challenge EXCEPT ![s].returnAt = IF @ = Unset THEN 0 ELSE @]
  /\ Send(ToSpot(Challenge(s), equity[Challenge(s)]))
  /\ UNCHANGED <<coreVars, stage, earned, sales, funded, moving>>

PayoutOnItsWay(s) ==
  /\ challenge[s].done /\ challenge[s].payoutAt # Unset
  /\ spot[Challenge(s)] + challenge[s].sent > challenge[s].before

\* What is on the perp side holds the rest up, until the wait is over.
OnSpot(s) == equity[Challenge(s)] = 0 \/ Waited(s)

\* One that finds the share unpaid pays it out of spot.
PayTrader(s) ==
  LET c == challenge[s]
      held == spot[Challenge(s)]
      pay == IF held < c.owed THEN held ELSE c.owed
  IN  /\ Stopped(s)
      /\ OnSpot(s)
      /\ c.owed > 0 /\ ~c.done /\ held > 0
      /\ challenge' = [challenge EXCEPT ![s] = [c EXCEPT
                         !.done = TRUE, !.sent = pay, !.before = held, !.payoutAt = 0,
                         !.returnAt = IF @ = Unset THEN 0 ELSE @]]
      /\ Send(ToSpot(Challenge(s), equity[Challenge(s)]) \o SendUsdc(Challenge(s), Out, pay))
      /\ UNCHANGED <<coreVars, stage, earned, sales, funded, moving>>

Paid(s) == challenge[s].owed = 0 \/ challenge[s].done

\* The last ones send the seat everything, and end it when that has left.
HandBack(s) ==
  LET c == challenge[s]
      held == spot[Challenge(s)]
      left == c.returned # 0 /\ (held < c.returned \/ Waited(s))
  IN  /\ Stopped(s)
      /\ OnSpot(s)
      /\ Paid(s) /\ ~PayoutOnItsWay(s)
      /\ Send(ToSpot(Challenge(s), equity[Challenge(s)]) \o SendUsdc(Challenge(s), s, held))
      /\ IF held # 0 /\ ~left
         THEN /\ challenge' = [challenge EXCEPT ![s] = [c EXCEPT
                                !.returned = IF @ = 0 THEN held ELSE @,
                                !.returnAt = IF @ = Unset THEN 0 ELSE @]]
              /\ UNCHANGED stage
         ELSE /\ challenge' = [challenge EXCEPT ![s] = NoChallenge]
              /\ stage' = [stage EXCEPT ![s] = IF @ = "Challenge" THEN "Idle" ELSE @]
      /\ UNCHANGED <<coreVars, earned, sales, funded, moving>>

OpenFundedStage(s) ==
  /\ stage[s] = "PassedAwaitingKey"
  /\ LET free == spot[s] \div SpotPerPerp
         usd == IF free < FundedCapital THEN free ELSE FundedCapital
     IN  /\ funded' = [funded EXCEPT ![s] = [start |-> equity[s] + usd, owed |-> 0, age |-> 0]]
         /\ Send(ToPerp(s, usd))
  /\ stage' = [stage EXCEPT ![s] = "Funded"]
  /\ UNCHANGED <<coreVars, earned, sales, challenge, moving>>

AbandonFundedStage(s) ==
  /\ stage[s] = "PassedAwaitingKey"
  /\ stage' = [stage EXCEPT ![s] = "Idle"]
  /\ UNCHANGED <<coreVars, flight, earned, sales, challenge, funded, moving>>

\* The funded stage ends, perhaps with positions; a breach forfeits the share.
EndFunded(s, owed) ==
  /\ stage[s] = "Funded"
  /\ stage' = [stage EXCEPT ![s] = "Closing"]
  /\ funded' = [funded EXCEPT ![s].owed = owed, ![s].age = Unset]
  /\ moving' \in {moving, moving \cup {s}}
  /\ UNCHANGED <<coreVars, flight, earned, sales, challenge>>

BreachFunded(s) == RuleBroken(s) /\ EndFunded(s, 0)

StopFunded(s) == EndFunded(s, Untaken)

SettleFunded(s) ==
  LET f == funded[s]
      share == IF f.owed = Untaken THEN Share(equity[s] - f.start, ShareFundedBps) ELSE f.owed
      pay == IF spot[s] < share THEN spot[s] ELSE share
  IN  /\ stage[s] = "Closing" /\ s \notin moving
      /\ equity[s] = 0 /\ share > 0 => spot[s] > 0
      /\ IF equity[s] > 0 \/ pay > 0 \/ Sent(s, Out)
         THEN /\ UNCHANGED stage
              /\ IF equity[s] > 0
                 THEN /\ Send(ToSpot(s, equity[s]))
                      /\ funded' = [funded EXCEPT ![s].owed = share]
                 ELSE /\ Send(SendUsdc(s, Out, pay))
                      /\ funded' = [funded EXCEPT ![s].owed = 0]
         ELSE /\ stage' = [stage EXCEPT ![s] = "Idle"]
              /\ funded' = [funded EXCEPT ![s] = NotFunded]
              /\ UNCHANGED flight
      /\ UNCHANGED <<coreVars, earned, sales, challenge, moving>>

\* What others do to a seat that has been sold; none of it is a call of the shared pool.
SeatCall(s) ==
  \/ Activate(s) \/ StopChallenge(s) \/ Graduate(s)
  \/ DrainChallenge(s) \/ PayTrader(s) \/ HandBack(s)
  \/ OpenFundedStage(s) \/ AbandonFundedStage(s) \/ BreachFunded(s) \/ SettleFunded(s)
=============================================================================
