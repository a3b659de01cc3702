----------------------------- MODULE ShareBook -----------------------------
(***************************************************************************)
(* The share ledger of a shared pool and the queue of holders who wait to be *)
(* paid (src/shared/SharedPool.sol), as operators on one record.  A book is   *)
(*                                                                         *)
(*   shares, basis, queued   per holder: sharesOf, basis, queuedOf           *)
(*   total, queuedShares     the two sums the contract keeps                 *)
(*   queue, slot             _queue and _queueSlot (index + 1, 0 when absent) *)
(***************************************************************************)
EXTENDS Units, Sequences, FiniteSets, SequencesExt

CONSTANTS
  Holders, Platform,
  FeeBps,
  MaxQueue       \* MAX_QUEUE

ASSUME BookAssumption ==
  /\ Platform \in Holders /\ IsFiniteSet(Holders)
  /\ {FeeBps, MaxQueue} \subseteq Nat /\ FeeBps <= BPS

Books == [shares : [Holders -> Nat], basis : [Holders -> Nat], queued : [Holders -> Nat],
          total : Nat, queuedShares : Nat, queue : Seq(Holders), slot : [Holders -> Nat]]

Nobody == [h \in Holders |-> 0]

EmptyBook == [shares |-> Nobody, basis |-> Nobody, queued |-> Nobody,
              total |-> 0, queuedShares |-> 0, queue |-> <<>>, slot |-> Nobody]

Mint(b, to, amount) == [b EXCEPT !.shares[to] = @ + amount, !.total = @ + amount]

----------------------------------------------------------------------------
(* The queue: an array with the place of each holder in it beside it. *)

Join(b, h) ==
  IF b.slot[h] # 0 THEN b
  ELSE [b EXCEPT !.queue = Append(@, h), !.slot[h] = Len(b.queue) + 1]

Enqueue(b, h, n) ==
  [Join(b, h) EXCEPT !.queued[h] = @ + n, !.queuedShares = @ + n]

\* Fault: the holder who moved keeps the old place.
DropKeepsSlot(b, h) ==
  [b EXCEPT !.queue = Front([@ EXCEPT ![b.slot[h]] = Last(b.queue)]), !.slot[h] = 0]

\* The last holder takes the place of the one who leaves.
Drop(b, h) ==
  LET at == b.slot[h]
      end == Last(b.queue)
  IN  [b EXCEPT !.queue = Front([@ EXCEPT ![at] = end]),
                !.slot = [@ EXCEPT ![end] = at, ![h] = 0]]

----------------------------------------------------------------------------
(* Payment. *)

\* For num / den of a holder's request: the shares burned, the shares the
\* platform keeps as its fee on the holder's profit, and what is paid, in perp units.
Quote(b, h, price, num, den) ==
  LET s == (b.queued[h] * num) \div den
      gross == (s * price.value) \div price.shares
      cost == (b.basis[h] * s) \div b.shares[h]
      fee == IF h # Platform /\ gross > cost
             THEN (s * (((gross - cost) * FeeBps) \div BPS)) \div gross
             ELSE 0
  IN  [burn |-> s - fee, fee |-> fee,
       net |-> (((s - fee) * price.value) \div price.shares) \div SpotPerPerp]

SettleHolder(b, h, burned, fee) ==
  LET s == burned + fee
      left == [b.shares EXCEPT ![h] = @ - s]
  IN  [b EXCEPT !.basis[h] = @ - (@ * s) \div b.shares[h],
                !.shares = [left EXCEPT ![Platform] = @ + fee],
                !.queued[h] = @ - s, !.queuedShares = @ - s,
                !.total = @ - burned]

DropIfDone(b, h) == IF b.queued[h] = 0 THEN Drop(b, h) ELSE b

\* Requests too small to carry a payment are burned for nothing.
DustCleared(b, dust) ==
  FoldLeft(LAMBDA c, h : IF h \in dust THEN Drop(SettleHolder(c, h, c.queued[h], 0), h) ELSE c,
           b, b.queue)

SumOver(S, Op(_)) == FoldSet(LAMBDA x, acc : Op(x) + acc, 0, S)

SmallerOf(i, j) == IF i < j THEN i ELSE j

\* A unit per holder is set aside for rounding each holder's split in two.
Spare(money, holders) == IF money > holders THEN money - holders ELSE 0

\* What paying the queue does at this price with `evm` and `core` perp units at
\* hand: the book after it, what leaves on HyperEVM and, in spot units, on HyperCore.
Pay(b, price, evm, core) ==
  LET full == [h \in ToSet(b.queue) |-> Quote(b, h, price, 1, 1)]
      dust == {h \in DOMAIN full : full[h].net = 0}
      due == DOMAIN full \ dust
      cleared == DustCleared(b, dust)
      wanted == SumOver(due, LAMBDA h : full[h].net)
      have == Spare(evm + core, Len(b.queue))
      quote == IF wanted <= have THEN full
               ELSE [h \in due |-> Quote(cleared, h, price, have, wanted)]
      paid == {h \in due : quote[h].net # 0}
      sum == SumOver(paid, LAMBDA h : quote[h].net)
      fromEvm == SmallerOf(evm, sum)
      onEvm == [h \in paid |-> (quote[h].net * fromEvm) \div sum]
      Paid(c, h) == IF h \in paid
                    THEN DropIfDone(SettleHolder(c, h, quote[h].burn, quote[h].fee), h)
                    ELSE c
  IN  [book |-> FoldLeft(Paid, cleared, b.queue),
       evm |-> SumOver(paid, LAMBDA h : onEvm[h]),
       core |-> SumOver(paid, LAMBDA h : (quote[h].net - onEvm[h]) * SpotPerPerp)]

----------------------------------------------------------------------------

\* The sums are sums, the queue holds exactly those who wait, each once and at
\* the place noted for them, and nobody waits with shares they do not have;
\* what is `locked` of a holder besides is still there too.
Coherent(b, locked) ==
  /\ b.total = SumOver(Holders, LAMBDA h : b.shares[h])
  /\ b.queuedShares = SumOver(Holders, LAMBDA h : b.queued[h])
  /\ Len(b.queue) <= MaxQueue
  /\ \A h \in Holders :
       /\ b.queued[h] + locked[h] <= b.shares[h]
       /\ b.slot[h] = 0 <=> b.queued[h] = 0
       /\ b.slot[h] # 0 => b.slot[h] \in DOMAIN b.queue /\ b.queue[b.slot[h]] = h
  /\ \A i \in DOMAIN b.queue : b.slot[b.queue[i]] = i
=============================================================================
