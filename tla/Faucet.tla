------------------------------- MODULE Faucet ------------------------------
(***************************************************************************)
(* The faucet (src/gateway/faucet.py): a grant is taken in the day's ledger *)
(* before anything is sent, then HYPE is sent, then dUSDC, each transaction *)
(* waited for, and what went is recorded.  One grant at a time.             *)
(*                                                                         *)
(* The ledger is in memory and on disk, and the process may end between any *)
(* two steps.  A transaction handed to the node may be known to it, on its   *)
(* way, or gone; the wallet's nonces order those the node knows.            *)
(***************************************************************************)
EXTENDS Naturals, FiniteSets, Functions

CONSTANTS
  Addresses, Clients,
  PerClient,      \* per_ip
  MaxDays,        \* bound: days
  MaxCrashes,     \* bound: ends of the process
  MaxNonce        \* bound: transactions of the wallet

ASSUME FaucetAssumption == {PerClient, MaxDays, MaxCrashes, MaxNonce} \subseteq Nat

VARIABLES
  today,
  ledger,    \* _state: the day, its addresses with a status, its clients with a count
  disk,      \* state.json
  grant,     \* the grant in hand: for whom, the day it was taken on, how far it is, its nonce
  journal,   \* grants.jsonl: for whom, the day and what became of it
  mined,     \* the wallet's transactions in blocks, a number: its next nonce
  pool,      \* transactions the node holds
  adrift,    \* transactions that may still reach the node
  paid,      \* transactions that went through
  failed,    \* transactions that reverted
  crashes

chainVars == <<mined, pool, adrift, paid, failed>>
faucetVars == <<today, ledger, disk, grant, journal, mined, pool, adrift, paid, failed, crashes>>

NoGrant == [at |-> "none"]
NewDay(day) == [day |-> day, addresses |-> <<>>, clients |-> [c \in Clients |-> 0]]
At(where) == grant.at = where
\* _today
Current(l) == IF l.day = today THEN l ELSE NewDay(today)

FaucetInit ==
  /\ today = 0
  /\ ledger = NewDay(0) /\ disk = NewDay(0)
  /\ grant = NoGrant /\ journal = {}
  /\ mined = 0 /\ pool = {} /\ adrift = {} /\ paid = {} /\ failed = {}
  /\ crashes = 0

Marked(l, day, to) == l.day = day /\ to \in DOMAIN l.addresses
With(l, to, status) ==
  [l EXCEPT !.addresses = [a \in DOMAIN l.addresses \cup {to} |-> IF a = to THEN status ELSE l.addresses[a]]]
Without(l, to) ==
  [l EXCEPT !.addresses = [a \in DOMAIN l.addresses \ {to} |-> l.addresses[a]]]

\* _grant and Ledger.reserve: refused if the address had its grant today or the client all of its.
\* The write may fail; then nothing is sent, and memory alone has the reservation.
Reserve(to, by) ==
  LET l == Current(ledger)
      taken == With([l EXCEPT !.clients[by] = @ + 1], to, "reserved")
  IN /\ At("none")
     /\ ~Marked(l, today, to) /\ l.clients[by] < PerClient
     /\ ledger' = taken
     /\ \/ /\ disk' = taken
           /\ grant' = [to |-> to, by |-> by, day |-> today, at |-> "reserved", nonce |-> 0]
        \/ UNCHANGED <<disk, grant>>
     /\ UNCHANGED <<today, journal, chainVars, crashes>>

\* Ledger.release: a day that has turned over has dropped the grant already.
GrantReleased ==
  LET l == Current(ledger) IN
  IF Marked(l, grant.day, grant.to)
  THEN /\ ledger' = Without([l EXCEPT !.clients[grant.by] = IF @ > 0 THEN @ - 1 ELSE 0], grant.to)
       /\ disk' = ledger'
  ELSE ledger' = l /\ UNCHANGED disk

GiveUp == GrantReleased /\ grant' = NoGrant /\ UNCHANGED <<today, journal, crashes>>

\* Ledger.settle, by _record.
SettleGrant(status) ==
  LET l == Current(ledger) IN
  /\ IF l.day = grant.day THEN ledger' = With(l, grant.to, status) /\ disk' = ledger'
                          ELSE ledger' = l /\ UNCHANGED disk
  /\ journal' = journal \cup {[to |-> grant.to, day |-> grant.day, status |-> status]}
  /\ grant' = NoGrant
  /\ UNCHANGED <<today, crashes>>

Tx(what) == [what |-> what, to |-> grant.to, by |-> grant.by, day |-> grant.day, nonce |-> grant.nonce]

\* The node's count of the wallet's transactions, those it holds included: the first nonce free.
PendingNonce(n) ==
  /\ \A t \in pool : t.nonce # n
  /\ \A k \in mined..n - 1 : \E t \in pool : t.nonce = k

\* _check: the token's day, the balance and both estimates, and the nonce read last.
CheckFails == At("reserved") /\ GiveUp /\ UNCHANGED chainVars
CheckPasses ==
  /\ At("reserved")
  /\ \E n \in mined..MaxNonce - 1 :
       PendingNonce(n) /\ grant' = [grant EXCEPT !.at = "checked", !.nonce = n]
  /\ UNCHANGED <<today, ledger, disk, journal, chainVars, crashes>>

----------------------------------------------------------------------------
(* Wallet.send and what follows it. *)

\* Handed over, the node holds it unless its nonce is taken; or the connection broke, and it
\* is held, on its way or gone.
Hand(t) ==
  /\ \/ t.nonce >= mined /\ (\A u \in pool : u.nonce # t.nonce) /\ pool' = pool \cup {t} /\ UNCHANGED adrift
     \/ adrift' \in {adrift, adrift \cup {t}} /\ UNCHANGED pool
  /\ UNCHANGED <<mined, paid, failed>>

Moved(where, nonce) ==
  /\ grant' = [grant EXCEPT !.at = where, !.nonce = nonce]
  /\ UNCHANGED <<today, ledger, disk, journal, crashes>>

SendHype == At("checked") /\ Hand(Tx("hype")) /\ Moved("hype", grant.nonce)
HypeNotSent == At("checked") /\ GiveUp /\ UNCHANGED chainVars

\* Fault: a transfer that does not show is taken for one that was not sent.
HypeGivenUp == At("hype") /\ GiveUp /\ UNCHANGED chainVars
\* No receipt in time.
HypePending == At("hype") /\ SettleGrant("pending") /\ UNCHANGED chainVars
HypeReverted == At("hype") /\ Tx("hype") \in failed /\ GiveUp /\ UNCHANGED chainVars

HypeMined == At("hype") /\ Tx("hype") \in paid /\ Moved("mined", grant.nonce + 1) /\ UNCHANGED chainVars
SendUsdc == At("mined") /\ Hand(Tx("usdc")) /\ Moved("usdc", grant.nonce)
UsdcNotSent == At("mined") /\ SettleGrant("partial") /\ UNCHANGED chainVars
UsdcEnds ==
  /\ At("usdc")
  /\ \/ SettleGrant("pending")
     \/ Tx("usdc") \in failed /\ SettleGrant("partial")
     \/ Tx("usdc") \in paid /\ SettleGrant("sent")
  /\ UNCHANGED chainVars

GrantStep ==
  \/ CheckFails \/ CheckPasses
  \/ SendHype \/ HypeNotSent \/ HypePending \/ HypeReverted \/ HypeMined
  \/ SendUsdc \/ UsdcNotSent \/ UsdcEnds

----------------------------------------------------------------------------
(* The chain, the clock and the process. *)

Arrives(t) ==
  /\ t \in adrift /\ t.nonce >= mined /\ \A u \in pool : u.nonce # t.nonce
  /\ adrift' = adrift \ {t} /\ pool' = pool \cup {t}
  /\ UNCHANGED <<today, ledger, disk, grant, journal, mined, paid, failed, crashes>>

Mine(t) ==
  /\ t \in pool /\ t.nonce = mined
  /\ pool' = pool \ {t} /\ mined' = mined + 1
  /\ \/ paid' = paid \cup {t} /\ UNCHANGED failed
     \/ failed' = failed \cup {t} /\ UNCHANGED paid
  /\ UNCHANGED <<today, ledger, disk, grant, journal, adrift, crashes>>

DayTurns ==
  /\ today < MaxDays /\ today' = today + 1
  /\ UNCHANGED <<ledger, disk, grant, journal, chainVars, crashes>>

\* The grant in hand is forgotten; the ledger is read back from the disk.
FaucetCrash ==
  /\ crashes < MaxCrashes /\ crashes' = crashes + 1
  /\ ledger' = disk /\ grant' = NoGrant
  /\ UNCHANGED <<today, disk, journal, chainVars>>

FaucetSteps ==
  \/ \E to \in Addresses, by \in Clients : Reserve(to, by)
  \/ GrantStep
  \/ (\E t \in adrift : Arrives(t)) \/ (\E t \in pool : Mine(t))
  \/ DayTurns

----------------------------------------------------------------------------
(* An address is paid once for a day it was granted, whatever is lost, late   *)
(* or crashes on the way: at most one transfer of each kind goes through.     *)
PaidOnce ==
  \A t, u \in paid : t.what = u.what /\ t.to = u.to /\ t.day = u.day => t = u

(* And a client is granted no more than its number a day, where a grant is    *)
(* one that moved something; dUSDC goes only where the gas for it went.       *)
GrantsAreLimited ==
  /\ PaidOnce
  /\ \A c \in Clients, d \in 0..today :
       Cardinality({t \in paid : t.what = "hype" /\ t.by = c /\ t.day = d}) <= PerClient
  /\ \A t \in paid : t.what = "usdc" => \E u \in paid : u.what = "hype" /\ u.to = t.to /\ u.day = t.day
=============================================================================
