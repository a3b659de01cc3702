-------------------------- MODULE ChallengeAccount --------------------------
(***************************************************************************)
(* One purchased challenge (src/ChallengeAccount.sol): it starts when its   *)
(* capital has arrived, is traded by its agent key, is stopped, and hands   *)
(* the trader's share and then everything else back in settlement steps     *)
(* that anyone may call, several times in one block if they like.           *)
(*                                                                         *)
(* The pool and the registry are the caller's side of it: see KeyRegistry   *)
(* for retire.  What they need to know of the challenge is `status`.        *)
(***************************************************************************)
EXTENDS RuledAccount

CONSTANTS
  Capital, TargetBps, TraderShareBps,   \* of _terms
  StartWindow, Duration, PayoutWait, ReturnWait,
  MaxMidnights    \* bound: UTC midnights while the challenge is active

ASSUME TermsAssumption ==
  /\ {Capital, TargetBps, TraderShareBps} \subseteq Nat
  /\ {StartWindow, Duration, PayoutWait, ReturnWait, MaxMidnights} \subseteq Nat
  /\ Capital > 0 /\ TargetBps > 0 /\ TraderShareBps <= BPS

VARIABLES
  status,
  createdAt, startedAt,   \* ages; createdAt runs while Created, startedAt while Active
  payout,    \* payoutOwed, payoutSent, payoutDone, payoutSpotBefore, payoutAt, payoutShortAt
  giveBack,  \* returnAt and returnSpotBefore
  capitalSent, keySpoiled, traderExists,   \* HyperCore: the pool's transfer, the two addresses
  received,  \* spot USDC that has reached the trader
  midnights  \* UTC midnights left to the bound

clockVars == <<createdAt, startedAt>>
worldVars == <<capitalSent, keySpoiled, traderExists, received, midnights>>
vars == <<block, core, flight, agentKey, dayStartEquity, snapshotToday, inWindow,
          status, createdAt, startedAt, payout, giveBack,
          capitalSent, keySpoiled, traderExists, received, midnights>>

Stopped == {"Breached", "Expired", "Forfeited", "Passed", "Aborted"}
IsStopped == status \in Stopped

\* initialize: the key is reserved now.
Init ==
  /\ block = "core" /\ core = NewAccount /\ flight = <<>>
  /\ agentKey = "trader"
  /\ dayStartEquity = 0 /\ snapshotToday = FALSE /\ inWindow = FALSE
  /\ status = "Created"
  /\ createdAt = 0 /\ startedAt = Unset
  /\ payout = [owed |-> 0, sent |-> 0, done |-> FALSE, spotBefore |-> 0,
               at |-> Unset, shortAt |-> Unset]
  /\ giveBack = [at |-> Unset, spotBefore |-> 0]
  /\ capitalSent = FALSE /\ keySpoiled = FALSE
  /\ traderExists \in BOOLEAN
  /\ received = 0 /\ midnights = MaxMidnights

----------------------------------------------------------------------------
(* Start. *)

CapitalArrived == core.exists /\ core.spot >= Capital * SpotPerPerp

Activate ==
  /\ status = "Created"
  /\ CapitalArrived /\ ~keySpoiled
  /\ Send(ToPerp(Capital) \o SetAgent("trader"))
  /\ status' = "Active"
  /\ startedAt' = 0 /\ createdAt' = Unset
  /\ StartDay(Capital)
  /\ UNCHANGED <<agentKey, payout, giveBack, worldVars>>

\* Fault: a spoiled key is no reason.
SpoilingForgotten == createdAt > StartWindow /\ ~CapitalArrived
MayAbort == keySpoiled \/ (createdAt > StartWindow /\ ~CapitalArrived)

Abort ==
  /\ status = "Created"
  /\ MayAbort
  /\ Send(<<>>)
  /\ status' = "Aborted"
  /\ agentKey' = "none" /\ createdAt' = Unset
  /\ UNCHANGED <<dayVars, startedAt, payout, giveBack, worldVars>>

----------------------------------------------------------------------------
(* While it runs. *)

TakeCheckpoint ==
  /\ status = "Active"
  /\ Checkpoint
  /\ UNCHANGED <<coreVars, agentKey, status, clockVars, payout, giveBack, worldVars>>

\* _end.
End(s, oids, extra) ==
  /\ status = "Active"
  /\ Send(StopActions(oids, extra))
  /\ CutAgent
  /\ status' = s /\ startedAt' = Unset
  /\ UNCHANGED <<dayVars, createdAt, payout, giveBack, worldVars>>

BreachCall(oids, extra) == Violation(Capital, extra) /\ End("Breached", oids, extra)
\* Fault: waits for the trader to close.
ExpireOnlyFlat(oids, extra) ==
  startedAt > Duration /\ NtlPos(core) = 0 /\ End("Expired", oids, extra)
Expire(oids, extra) == startedAt > Duration /\ End("Expired", oids, extra)
Forfeit(oids, extra) == End("Forfeited", oids, extra)

TargetMet == core.perp >= Capital + (Capital * TargetBps) \div BPS

TraderShare(equity) == ((equity - Capital) * TraderShareBps * SpotPerPerp) \div BPS

Graduate ==
  /\ status = "Active"
  /\ startedAt <= Duration
  /\ ~Violation(Capital, {})
  /\ NtlPos(core) = 0
  /\ TargetMet
  /\ Send(CutActions)
  /\ CutAgent
  /\ status' = "Passed" /\ startedAt' = Unset
  /\ payout' = [payout EXCEPT !.owed = TraderShare(core.perp)]
  /\ UNCHANGED <<dayVars, createdAt, giveBack, worldVars>>

\* A recut that would only replace one keyless address by another is left out.
CanRecut == IsStopped /\ core.agent = "trader" /\ ~InFlight("agent")

Recut ==
  /\ CanRecut
  /\ Send(CutActions)
  /\ CutAgent
  /\ UNCHANGED <<dayVars, status, clockVars, payout, giveBack, worldVars>>

----------------------------------------------------------------------------
(* Settlement.  A step drains first and then goes as far as it can; each of *)
(* the following is how it ends, with the records p and g it leaves behind. *)

EndStep(actions, p, g, s) ==
  /\ Send(actions)
  /\ payout' = p /\ giveBack' = g /\ status' = s
  /\ UNCHANGED <<agentKey, dayVars, clockVars, worldVars>>

\* Fault: settles over a margin.
FinishUnchecked(drain, p, g) == EndStep(drain, p, g, "Settled")
Finish(drain, p, g) ==
  EndStep(drain, p, g, IF NothingHeldOnPerp THEN "Settled" ELSE status)

\* Fault: the wait the wrong way round.
PendingAfterTheWait(p) ==
  p.done /\ core.spot + p.sent > p.spotBefore /\ p.at > PayoutWait
\* Everything on spot goes to the pool once the payout shows in the balance.
PayoutPending(p) ==
  p.done /\ core.spot + p.sent > p.spotBefore /\ p.at <= PayoutWait

\* Fault: only a smaller balance shows it.
ReturnShows(g) == g.spotBefore # 0 /\ core.spot < g.spotBefore
\* The return has landed when the balance came down from what it was at the first
\* one; where even that cannot tell, the window decides.
Returned(g) == g.spotBefore # 0 /\ (core.spot < g.spotBefore \/ g.at > ReturnWait)

HandBack(drain, p, g) ==
  LET send == drain \o SendUsdc("pool", core.spot)
      frozen == IF g.spotBefore = 0 THEN [g EXCEPT !.spotBefore = core.spot] ELSE g
  IN \/ PayoutPending(p) /\ EndStep(drain, p, g, status)
     \/ ~PayoutPending(p) /\ core.spot = 0 /\ Finish(drain, p, g)
     \/ ~PayoutPending(p) /\ core.spot # 0 /\ Returned(g) /\ Finish(send, p, g)
     \/ ~PayoutPending(p) /\ core.spot # 0 /\ ~Returned(g) /\ EndStep(send, p, frozen, status)

\* The share is paid once, out of spot, when the perp side holds nothing back.
Pay(drain, p, g) ==
  LET owed == IF core.spot < p.owed THEN core.spot ELSE p.owed
      pay == SendableTo(traderExists, owed)
      paid == [owed |-> p.owed, sent |-> pay, done |-> TRUE, spotBefore |-> core.spot, at |-> 0, shortAt |-> p.shortAt]
  IN \/ pay # 0 /\ EndStep(drain \o SendUsdc("trader", pay), paid, g, status)
     \/ pay = 0 /\ HandBack(drain, paid, g)

\* A share that spot does not cover waits while money is crossing, on a clock
\* of its own.
PayWhenCovered(drain, g) ==
  LET short == core.spot < payout.owed /\ Free # 0
      p == IF short /\ payout.shortAt = Unset THEN [payout EXCEPT !.shortAt = 0] ELSE payout
      mustWait == short /\ p.shortAt <= PayoutWait
  IN \/ (mustWait \/ core.spot = 0) /\ EndStep(drain, p, g, status)
     \/ ~mustWait /\ core.spot # 0 /\ Pay(drain, p, g)

\* Fault: a share is paid until nothing is owed.
PaysTheRestToo == payout.owed # payout.sent
Owing == payout.owed # 0 /\ ~payout.done

\* What is on the perp side may still be the account's own money crossing.
Crossing(g) == Free # 0 /\ g.at <= ReturnWait

Settle(oids, extra) ==
  LET drain == DrainActions(oids, extra)
      g == IF giveBack.at = Unset /\ (Free # 0 \/ core.spot # 0)
           THEN [giveBack EXCEPT !.at = 0] ELSE giveBack
      crossing == Crossing(g)
  IN /\ IsStopped
     /\ \/ core.open # {} /\ EndStep(drain, payout, giveBack, status)
        \/ /\ core.open = {}
           /\ \/ crossing /\ EndStep(drain, payout, g, status)
              \/ /\ ~crossing /\ Owing /\ ~NothingHeldOnPerp
                 /\ EndStep(drain, [payout EXCEPT !.shortAt = Unset], g, status)
              \/ ~crossing /\ Owing /\ NothingHeldOnPerp /\ PayWhenCovered(drain, g)
              \/ ~crossing /\ ~Owing /\ HandBack(drain, payout, g)

\* What still turns up on a settled account goes home, one side per call.
Sweep ==
  /\ status = "Settled"
  /\ Send(IF Free # 0 THEN ToSpot(Free) ELSE SendUsdc("pool", core.spot))
  /\ UNCHANGED <<agentKey, dayVars, status, clockVars, payout, giveBack, worldVars>>

----------------------------------------------------------------------------
(* HyperCore and the clock. *)

contractVars == <<agentKey, status, clockVars, payout, giveBack>>

EndBlock ==
  /\ block = "evm"
  /\ block' = "core"
  /\ UNCHANGED <<core, flight, dayVars, contractVars, worldVars>>

BeginBlock(ticks) ==
  /\ block = "core" /\ AllLanded
  /\ block' = "evm"
  /\ LET Aged(age, wait) == IF ticks THEN Older(age, wait) ELSE age IN
     /\ createdAt' = Aged(createdAt, StartWindow)
     /\ startedAt' = Aged(startedAt, Duration)
     /\ payout' = [payout EXCEPT !.at = Aged(@, PayoutWait), !.shortAt = Aged(@, PayoutWait)]
     /\ giveBack' = [giveBack EXCEPT !.at = Aged(@, ReturnWait)]
  /\ \/ SameDay /\ UNCHANGED midnights
     \/ status = "Active" /\ midnights > 0 /\ Midnight /\ midnights' = midnights - 1
  /\ UNCHANGED <<core, flight, agentKey, status, capitalSent, keySpoiled, traderExists, received>>

ToTrader(a) == a[1] = "send" /\ a[3] = "trader"

Land ==
  /\ block = "core"
  /\ \E i \in DOMAIN flight :
       LET a == flight[i] IN
       /\ MayLand(i)
       /\ flight' = Without(i)
       /\ core' \in Landed(core, a, ~ToTrader(a) \/ traderExists, keySpoiled)
       /\ IF ToTrader(a) /\ core'.spot < core.spot
          THEN received' = received + a[2] /\ traderExists' = TRUE
          ELSE UNCHANGED <<received, traderExists>>
  /\ UNCHANGED <<block, dayVars, contractVars, capitalSent, keySpoiled, midnights>>

\* The account changes on HyperCore by other hands than the contract's.
AccountChanges(accounts) ==
  /\ block = "core"
  /\ core' \in accounts
  /\ UNCHANGED <<block, flight, dayVars, contractVars, capitalSent, keySpoiled,
                 traderExists, received, midnights>>

Trade == AccountChanges(Traded(core))
Move == AccountChanges(Moved(core))
Donate == AccountChanges(Donated(core))

\* The pool's transfer of the capital, if it is ever executed.
CapitalLands ==
  /\ block = "core" /\ ~capitalSent
  /\ capitalSent' = TRUE
  /\ core' = [core EXCEPT !.exists = TRUE, !.spot = @ + Capital * SpotPerPerp]
  /\ UNCHANGED <<block, flight, dayVars, contractVars, keySpoiled, traderExists, received, midnights>>

\* A stranger gives the reserved key, or the trader, a HyperCore account.
AddressAppears ==
  /\ block = "core"
  /\ \/ status \in {"Created", "Active"} /\ ~keySpoiled /\ core.agent # "trader"
        /\ keySpoiled' = TRUE /\ UNCHANGED traderExists
     \/ ~traderExists /\ traderExists' = TRUE /\ UNCHANGED keySpoiled
  /\ UNCHANGED <<block, core, flight, dayVars, contractVars, capitalSent, received, midnights>>

----------------------------------------------------------------------------

Call ==
  \/ Activate
  \/ Abort
  \/ TakeCheckpoint
  \/ \E oids \in CancelSets, extra \in ExtraSets :
       \/ BreachCall(oids, extra)
       \/ Expire(oids, extra)
       \/ Forfeit(oids, extra)
       \/ Settle(oids, extra)
  \/ Graduate
  \/ Recut
  \/ Sweep

World == Trade \/ Move \/ Donate \/ CapitalLands \/ AddressAppears

Next == Call \/ EndBlock \/ (\E ticks \in BOOLEAN : BeginBlock(ticks)) \/ Land \/ World

Spec == Init /\ [][Next]_vars

\* The keeper's pass over a challenge (ops/keeper.py challenge_pass) starts it,
\* aborts it, expires it or settles it, naming what the info API shows, as much as
\* one call takes, and every foreign asset; if the agent was not replaced it recuts.
KeeperNames(oids) ==
  /\ oids \in CancelSets /\ oids \subseteq core.orders
  /\ oids = core.orders \/ Cardinality(oids) = MaxCancels

KeeperPass ==
  \/ Activate
  \/ Abort
  \/ \E oids \in CancelSets :
       KeeperNames(oids) /\ (Expire(oids, Assets \ Listed) \/ Settle(oids, Assets \ Listed))

BlockStep == EndBlock \/ Land \/ \E ticks \in BOOLEAN : BeginBlock(ticks)
CloseFills == Land /\ core.open # {} /\ core'.open = {}
CutLands == Land /\ core'.agent = "keyless"

\* Blocks go on, time passes, and the keeper, which runs all the time, is heard
\* in some block of infinitely many.  The market fills a closing order in the end
\* and nobody funds every keyless address in advance for ever.  Nothing is assumed
\* of the trader or of strangers.
Fairness ==
  /\ WF_vars(BlockStep) /\ SF_vars(BeginBlock(TRUE))
  /\ SF_vars(KeeperPass) /\ SF_vars(Recut)
  /\ SF_vars(CloseFills) /\ SF_vars(CutLands)

FairSpec == Spec /\ Fairness

----------------------------------------------------------------------------
(* Properties. *)

Settles == status # "Settled" /\ status' = "Settled"
Pays == ~payout.done /\ payout'.done

\* The trader's transfer and the pool's are never in flight together, and as
\* long as the trader's is, spot covers it: no step, in the same block or a later
\* one, sends the money somewhere else first (settle, :310-322), until the payout
\* has had its wait.
PayoutCovered ==
  \A i \in DOMAIN flight : ToTrader(flight[i]) /\ payout.at <= PayoutWait =>
    /\ core.spot >= SendCost(traderExists, flight[i][2])
    /\ \A j \in DOMAIN flight : flight[j][1] = "send" => j = i

\* A share is cut short only by an account that really holds less: either spot
\* covers it, or nothing is left on the perp side that could cross, or the wait for
\* what was crossing is over (audits A-04 and A-12, settle :279-309).
ShortOnlyIfAllThere ==
  [][Pays => \/ core.spot >= payout.owed
             \/ core.perp = 0
             \/ payout.shortAt > PayoutWait]_vars

\* When the challenge settles the trader has what was sent, once, unless the
\* payout had its whole wait and still did not show.
SettledMeansPaid ==
  [][Settles => received = payout'.sent \/ payout.at > PayoutWait]_vars

\* Settling strands nothing of the account's own: no position or order is left,
\* a share that is owed has been paid, and unless the return window is over the
\* perp side is empty and what is on spot leaves with this step (settle :324-350).
SettledStrandsNothing ==
  [][Settles =>
       /\ core.open = {} /\ core.orders = {} /\ (payout.owed # 0 => payout'.done)
       /\ giveBack'.at > ReturnWait \/
            (core.perp = 0 /\ (core.spot = 0 \/ InFlight("send")'))]_vars

\* A stopped trader's key is replaced on HyperCore, or its replacement is on its
\* way: whatever calls meet in one block, a start among them, no stop, pass or
\* settlement leaves the trader in (_cutAgent; only where the replacement cannot
\* fail, see Recut).
TraderIsOut ==
  status \notin {"Created", "Active"} /\ core.agent = "trader" => InFlight("agent")

\* A zero base would switch the daily limit off.  No start and no checkpoint leaves
\* one on an account that has its capital, unless that is late in crossing to the
\* perp side: the start writes the capital, because the equity it could read in its
\* own block is still zero (activate, _startDay, violation :107).
DailyLimitInForce ==
  [][status' = "Active" /\ dayStartEquity' = 0 /\ ~(status = "Active" /\ dayStartEquity = 0)
       => InFlight("toPerp") \/ Wealth(core) < Capital * SpotPerPerp]_vars

\* A trader who paid is started or refunded.
StartsOrAborts == status = "Created" ~> status # "Created"

\* Every challenge ends, whatever the trader does.
Ends == status = "Active" ~> IsStopped

\* And settles, however long strangers keep sending dust, the trader's orders rest
\* or its key stays in, unless a share is owed by an account with nothing left:
\* settle returns at `spot == 0`, and such a challenge stays Passed.
Emptied == Owing /\ core.spot = 0 /\ core.perp = 0
SettlesOrEmptied == IsStopped ~> (status = "Settled" \/ Emptied)

=============================================================================
