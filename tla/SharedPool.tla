----------------------------- MODULE SharedPool -----------------------------
(***************************************************************************)
(* Many investors' capital in one book of seats (src/shared/SharedPool.sol,   *)
(* DepositTicket.sol): deposits become shares and requests are paid at        *)
(* settlement points, at what the pool is worth then; seats are armed from    *)
(* what the queue does not need.                                            *)
(***************************************************************************)
EXTENDS Seats, ShareBook

CONSTANTS
  SEED_BPS, ARM_WAIT, MAX_SEATS, MAX_PER_POINT, SWEEP_MIN,
  MinDeposit, Lock,
  Seed,         \* what the platform starts the pool with
  TicketsEach,  \* bound: tickets a holder opens
  Deposits,     \* amounts sent to an open ticket at once
  Gifts,        \* and to a closed one
  Requests,     \* shares asked for at once
  MaxMoney,     \* bound: what all accounts hold when one is sent more
  MaxDeals      \* bound: challenges sold and tickets opened, together

ASSUME SharedPoolAssumption ==
  /\ {SEED_BPS, ARM_WAIT, MAX_SEATS, MAX_PER_POINT, SWEEP_MIN, MinDeposit, Lock, Seed,
      TicketsEach, MaxMoney, MaxDeals} \subseteq Nat
  /\ MinDeposit >= SWEEP_MIN /\ SWEEP_MIN > 0 /\ Seed > 0
  /\ Deposits \cup Gifts \cup Requests \subseteq Nat
  /\ Tickets \subseteq Holders \X (1..TicketsEach)

VARIABLES
  book,           \* shares, cost and queue of every holder
  usdc,           \* USDC of this contract on HyperEVM
  seats, seatsSealed,
  tickets,        \* state of each ticket
  listed,         \* _closed: recognized tickets that may still hold money
  lastDeposit,
  lastCorePayAt, lastArmAt, armedAt,
  fundedSince, fundedKey

poolVars == <<book, usdc, seats, seatsSealed, tickets, listed, lastDeposit,
              lastCorePayAt, lastArmAt, armedAt, fundedSince, fundedKey>>
vars == <<spot, equity, exists, flight, stage, earned, sales, challenge, funded, moving,
          book, usdc, seats, seatsSealed, tickets, listed, lastDeposit,
          lastCorePayAt, lastArmAt, armedAt, fundedSince, fundedKey>>
ticketVars == <<tickets, listed, lastDeposit>>
termVars == <<fundedSince, fundedKey>>
clockVars == <<lastCorePayAt, lastArmAt, armedAt>>

Depositor(t) == t[1]
Locked == [h \in Holders |-> IF h = Platform /\ book.total > 0 THEN Seed ELSE 0]

Init ==
  /\ SeatsInit
  /\ spot = [a \in Accounts |-> IF a = POOL THEN Seed ELSE 0]
  /\ exists = {POOL}
  /\ book = EmptyBook /\ usdc = 0
  /\ seats = {} /\ seatsSealed = FALSE
  /\ tickets = [t \in Tickets |-> "None"] /\ listed = {}
  /\ lastDeposit = [h \in Holders |-> Unset]
  /\ lastCorePayAt = Unset /\ lastArmAt = Unset
  /\ armedAt = [s \in Seats |-> Unset]
  /\ fundedSince = [s \in Seats |-> Unset] /\ fundedKey = [s \in Seats |-> 0]

Started == book.total > 0

Deals == SumOver(Seats, LAMBDA s : sales[s]) + Cardinality({t \in Tickets : tickets[t] # "None"})

----------------------------------------------------------------------------
(* What the pool is worth, as the contract reads it. *)

OwedToTraders(s) ==
  LET c == challenge[s]
      eq == equity[Challenge(s)]
  IN  (CASE stage[s] = "Funded" -> Share(equity[s] - funded[s].start, ShareFundedBps)
         [] stage[s] = "Closing" /\ funded[s].owed = Untaken ->
              Share(equity[s] - funded[s].start, ShareFundedBps)
         [] stage[s] = "Closing" /\ funded[s].owed # Untaken -> funded[s].owed
         [] OTHER -> 0)
    + (CASE c.status = "passed" /\ ~c.done -> c.owed
         [] c.status = "passed" /\ c.done -> IF PayoutOnItsWay(s) THEN c.sent ELSE 0
         [] c.status = "active" /\ eq >= Target -> Share(eq - Capital, ShareChallengeBps)
         [] OTHER -> 0)

\* Fault: what traders are owed counts as the pool's.
SeatValueGross(s) ==
  OnHyperCore(s) + earned[s] * SpotPerPerp
    + (IF challenge[s].status = "none" THEN 0 ELSE OnHyperCore(Challenge(s)))

SeatValue(s) ==
  OnHyperCore(s) + earned[s] * SpotPerPerp - OwedToTraders(s)
    + (IF challenge[s].status = "none" THEN 0 ELSE OnHyperCore(Challenge(s)))

Value ==
  LET v == spot[POOL] + usdc * SpotPerPerp + SumOver(seats, SeatValue)
             + SumOver(listed, LAMBDA t : spot[t])
  IN  IF v > 0 THEN v ELSE 0

QueuedValue == (book.queuedShares * Value) \div book.total

\* Fault: payments are forgotten as soon as they are sent.
PaymentsForgotten == FALSE

PaymentsLanding == lastCorePayAt # Unset
ToppingUp == lastArmAt # Unset

\* What keeps a settlement point from running.
InMotion(s) ==
  \/ stage[s] = "Closing"
  \/ stage[s] = "Funded" /\ RuleBroken(s)
  \/ challenge[s].status = "active" /\ RuleBroken(Challenge(s))
  \/ challenge[s].status = "stopped" /\ Challenge(s) \in moving
  \/ challenge[s].status = "passed" /\ PayoutOnItsWay(s)

Blocked == PaymentsLanding \/ \E s \in seats : InMotion(s)

----------------------------------------------------------------------------
(* The platform. *)

Start ==
  /\ ~Started
  /\ book' = Mint(book, Platform, spot[POOL])
  /\ UNCHANGED <<coreVars, flight, seatVars, usdc, seats, seatsSealed, ticketVars, clockVars,
                 termVars>>

AddSeat(s) ==
  /\ Started /\ ~seatsSealed /\ s \notin seats
  /\ Cardinality(seats) < MAX_SEATS
  /\ Seed * BPS >= (Cardinality(seats) + 1) * CapitalNeeded * SEED_BPS
  /\ seats' = seats \cup {s}
  /\ UNCHANGED <<coreVars, flight, seatVars, book, usdc, seatsSealed, ticketVars, clockVars,
                 termVars>>

Seal ==
  /\ Started /\ ~seatsSealed /\ seats # {}
  /\ seatsSealed' = TRUE
  /\ UNCHANGED <<coreVars, flight, seatVars, book, usdc, seats, ticketVars, clockVars, termVars>>

----------------------------------------------------------------------------
(* Seats. *)

IsIdle(s) == stage[s] = "Idle" /\ challenge[s].status = "none"

ArmSeat(s) ==
  LET amount == CapitalNeeded - spot[s]
      cost == IF s \in exists THEN amount ELSE amount + NewAccountFee
  IN  /\ s \in seats /\ ~PaymentsLanding
      /\ IsIdle(s) /\ armedAt[s] = Unset
      /\ amount > 0 /\ spot[POOL] >= cost
      /\ book.queuedShares # 0 => spot[POOL] - cost + usdc * SpotPerPerp >= QueuedValue
      /\ armedAt' = [armedAt EXCEPT ![s] = 0]
      /\ lastArmAt' = 0
      /\ Send(SendUsdc(POOL, s, amount))
      /\ UNCHANGED <<coreVars, seatVars, book, usdc, seats, seatsSealed, ticketVars,
                     lastCorePayAt, termVars>>

ReleaseSeat(s) ==
  /\ s \in seats
  /\ book.queuedShares # 0
  /\ spot[POOL] + usdc * SpotPerPerp < QueuedValue
  /\ IsIdle(s)
  /\ Send(SendUsdc(s, POOL, spot[s]))
  /\ UNCHANGED <<coreVars, seatVars, poolVars>>

Collect(s) ==
  /\ s \in seats /\ earned[s] > 0
  /\ usdc' = usdc + earned[s]
  /\ earned' = [earned EXCEPT ![s] = 0]
  /\ UNCHANGED <<coreVars, flight, stage, sales, challenge, funded, moving, book, seats,
                 seatsSealed, ticketVars, clockVars, termVars>>

\* Fault: a stage is taken for the one noted before.
NotedWithoutKey(s) ==
  IF stage[s] # "Funded" THEN [since |-> Unset, key |-> 0]
  ELSE IF fundedSince[s] = Unset THEN [since |-> 0, key |-> sales[s]]
  ELSE [since |-> fundedSince[s], key |-> fundedKey[s]]

\* Since when each seat's funded stage has been known, and under which key.
Noted(s) ==
  IF stage[s] # "Funded" THEN [since |-> Unset, key |-> 0]
  ELSE IF fundedSince[s] = Unset \/ fundedKey[s] # sales[s] THEN [since |-> 0, key |-> sales[s]]
  ELSE [since |-> fundedSince[s], key |-> fundedKey[s]]

Note(noted) ==
  /\ fundedSince' = [s \in Seats |-> IF s \in noted THEN Noted(s).since ELSE fundedSince[s]]
  /\ fundedKey' = [s \in Seats |-> IF s \in noted THEN Noted(s).key ELSE fundedKey[s]]

NoteFunded(s) ==
  /\ s \in seats
  /\ Note({s})
  /\ UNCHANGED <<coreVars, flight, seatVars, book, usdc, seats, seatsSealed, ticketVars,
                 clockVars>>

EndFundedTerm(s) ==
  /\ s \in seats
  /\ Noted(s).since >= FundedTerm
  /\ fundedSince' = [fundedSince EXCEPT ![s] = Unset]
  /\ fundedKey' = [fundedKey EXCEPT ![s] = 0]
  /\ StopFunded(s)
  /\ UNCHANGED <<book, usdc, seats, seatsSealed, ticketVars, clockVars>>

----------------------------------------------------------------------------
(* Holders. *)

Free(h) == book.shares[h] - book.queued[h] - Locked[h]

RequestRedeem(h, n) ==
  /\ Started
  /\ n \in 1..Free(h)
  /\ lastDeposit[h] = Unset
  /\ book.slot[h] = 0 => Len(book.queue) < MaxQueue
  /\ book' = Enqueue(book, h, n)
  /\ UNCHANGED <<coreVars, flight, seatVars, usdc, seats, seatsSealed, ticketVars, clockVars,
                 termVars>>

OpenTicket(t) ==
  /\ Started /\ seatsSealed /\ Deals < MaxDeals
  /\ tickets[t] = "None"
  /\ t[2] > 1 => tickets[<<t[1], t[2] - 1>>] # "None"
  /\ tickets' = [tickets EXCEPT ![t] = "Open"]
  /\ UNCHANGED <<coreVars, flight, seatVars, book, usdc, seats, seatsSealed, listed,
                 lastDeposit, clockVars, termVars>>

----------------------------------------------------------------------------
(* A settlement point. *)

\* The named tickets that become shares, all at one price.
Recognized(named) == {t \in named : tickets[t] = "Open" /\ spot[t] >= MinDeposit}

Minted(price, amount) == (amount * price.shares) \div price.value

WithDeposits(b, deposits, price) ==
  LET Take(h, Op(_)) == SumOver({t \in deposits : Depositor(t) = h}, Op)
      mint == [h \in Holders |-> Take(h, LAMBDA t : Minted(price, spot[t]))]
      paid == [h \in Holders |-> Take(h, LAMBDA t : spot[t])]
  IN  [b EXCEPT !.shares = [h \in Holders |-> @[h] + mint[h]],
                !.basis = [h \in Holders |-> @[h] + paid[h]],
                !.total = @ + SumOver(Holders, LAMBDA h : mint[h])]

\* Closed tickets that hold something are swept, the others are forgotten.
Kept(closed) == {t \in closed : spot[t] >= SWEEP_MIN}

Sweep(kept) == FoldSet(LAMBDA t, sent : sent \o SendUsdc(t, POOL, spot[t]), <<>>, kept)

Settle(named) ==
  LET price == [value |-> Value, shares |-> book.total]
      deposits == Recognized(named)
      closed == listed \cup deposits \cup {t \in named : tickets[t] = "Closed"}
      taken == WithDeposits(book, deposits, price)
      pays == taken.queuedShares # 0 /\ ~ToppingUp
      evm == usdc + SumOver(seats, LAMBDA s : earned[s])
      payment == Pay(taken, price, evm, spot[POOL] \div SpotPerPerp)
  IN  /\ Started /\ ~Blocked /\ price.value > 0
      /\ Cardinality(named) <= MAX_PER_POINT
      /\ tickets' = [t \in Tickets |-> IF t \in deposits THEN "Closed" ELSE tickets[t]]
      /\ listed' = Kept(closed)
      /\ lastDeposit' = [h \in Holders |-> IF Lock > 0 /\ \E t \in deposits : Depositor(t) = h
                                           THEN 0 ELSE lastDeposit[h]]
      /\ Note(seats)
      /\ IF pays
         THEN /\ book' = payment.book
              /\ usdc' = evm - payment.evm
              /\ earned' = [s \in Seats |-> IF s \in seats THEN 0 ELSE earned[s]]
              /\ lastCorePayAt' = IF payment.core > 0 THEN 0 ELSE lastCorePayAt
              /\ Send(Sweep(listed') \o SendUsdc(POOL, Out, payment.core))
         ELSE /\ book' = taken
              /\ Send(Sweep(listed'))
              /\ UNCHANGED <<usdc, earned, lastCorePayAt>>
      /\ UNCHANGED <<coreVars, stage, sales, challenge, funded, moving, seats, seatsSealed,
                     lastArmAt, armedAt>>

----------------------------------------------------------------------------

\* Anyone may send a ticket money once its address is known.
Transfer(t) ==
  /\ flight = <<>> /\ tickets[t] # "None"
  /\ \E amount \in IF tickets[t] = "Open" THEN Deposits ELSE Gifts :
       /\ SumOver(Accounts, LAMBDA a : spot[a]) + SumOver(Traded, LAMBDA a : equity[a] * SpotPerPerp)
            + amount <= MaxMoney
       /\ spot' = [spot EXCEPT ![t] = @ + amount]
  /\ exists' = exists \cup {t}
  /\ UNCHANGED <<equity, flight, seatVars, poolVars>>

Tick ==
  /\ flight = <<>>
  /\ SeatsTick
  /\ lastDeposit' = [h \in Holders |-> IF lastDeposit[h] + 1 >= Lock THEN Unset
                                       ELSE Aged(lastDeposit[h], Lock)]
  /\ lastCorePayAt' = Aged(lastCorePayAt, PayoutWait)
  /\ lastArmAt' = Aged(lastArmAt, ARM_WAIT)
  /\ armedAt' = [s \in Seats |-> Aged(armedAt[s], ARM_WAIT)]
  /\ fundedSince' = [s \in Seats |-> AgedTo(fundedSince[s], FundedTerm)]
  /\ UNCHANGED <<book, usdc, seats, seatsSealed, tickets, listed, fundedKey>>

Elsewhere ==
  \/ EndBlock
  \/ \E a \in Traded : Trade(a) \/ Flat(a)
  \/ \E s \in seats : SeatCall(s) \/ (Deals < MaxDeals /\ BuyChallenge(s))

Next ==
  \/ Start
  \/ \E s \in Seats : AddSeat(s) \/ ArmSeat(s) \/ ReleaseSeat(s) \/ Collect(s)
                        \/ NoteFunded(s) \/ EndFundedTerm(s)
  \/ Seal
  \/ \E h \in Holders, n \in Requests : RequestRedeem(h, n)
  \/ \E t \in Tickets : OpenTicket(t) \/ Transfer(t)
  \* Naming a ticket that holds nothing changes nothing.
  \/ \E named \in SUBSET {t \in Tickets : tickets[t] # "None" /\ spot[t] > 0} : Settle(named)
  \/ Elsewhere /\ UNCHANGED poolVars
  \/ Tick

Spec == Init /\ [][Next]_vars

----------------------------------------------------------------------------
(* Properties. *)

\* The ledger adds up, the queue is exactly who waits, at the places noted for
\* them, and neither a request nor a fee ever reaches the platform's starting shares.
BooksCoherent == Coherent(book, Locked)

Leaving(from) ==
  SumOver({i \in DOMAIN flight : flight[i][1] = "send" /\ flight[i][2] \in from
                                   /\ flight[i][3] = Out},
          LAMBDA i : flight[i][4])

\* What the pool really has, wherever it is: its money on every account that
\* is its own, in flight too, without what is on its way to others and what it
\* owes traders.
Worth ==
  LET owed(s) == OwedToTraders(s) - (IF challenge[s].done /\ PayoutOnItsWay(s)
                                     THEN challenge[s].sent ELSE 0)
  IN  spot[POOL] + usdc * SpotPerPerp + SumOver(listed, LAMBDA t : spot[t])
        + SumOver(seats, LAMBDA s : OnHyperCore(s) + OnHyperCore(Challenge(s))
                                      + earned[s] * SpotPerPerp - owed(s))
        - Leaving(Accounts)

\* No call, of anyone and in whatever order, lowers what a share is worth; only trading
\* and fees do.  Points mint and pay at one price, rounding is never at the
\* expense of those who stay, and what is in flight is neither missed nor
\* counted twice.  Dust that a point forgets on a closed ticket is the exception.
PriceNeverFalls ==
  [][UNCHANGED <<spot, equity>> /\ Started =>
       LET dust == SumOver({t \in listed \ listed' : spot[t] < SWEEP_MIN}, LAMBDA t : spot[t])
       IN  (Worth' + dust) * book.total >= Worth * book.total']_vars

\* The pool's payments and top-ups are covered when they land, all of them
\* together: a payment recorded and not made would burn shares for nothing.
SentIsCovered ==
  SumOver({i \in DOMAIN flight : flight[i][1] = "send" /\ flight[i][2] = POOL},
          LAMBDA i : flight[i][4]) <= spot[POOL]

\* Only a funded stage that has itself run its term is ended by it, however
\* many stages went before it unnoticed.
TermIsItsOwn ==
  [][\A s \in Seats : fundedSince[s] # Unset /\ stage[s] = "Funded" /\ stage'[s] = "Closing"
                        /\ ~RuleBroken(s) => funded[s].age >= FundedTerm]_vars
=============================================================================
