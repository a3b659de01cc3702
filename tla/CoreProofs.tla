----------------------------- MODULE CoreProofs -----------------------------
(***************************************************************************)
(* What holds of an account contract and its HyperCore account whichever of  *)
(* Pool and ChallengeAccount it is: what its calls send, what an action does  *)
(* when it lands, and that a trader's key with its replacement behind it      *)
(* stays replaced.                                                          *)
(***************************************************************************)
EXTENDS RuledAccount, SequenceTheorems, FiniteSetTheorems, TLAPS

Approval == <<"agent", "trader">>
Replacement == <<"agent", "keyless">>

Recipients == {"pool", "trader", "owner", "challenge"}
Transfers == ({"toPerp", "toSpot"} \X Nat) \cup ({"send"} \X Nat \X Recipients)
Stops == ({"cancel"} \X SUBSET Orders) \cup ({"close"} \X SUBSET Assets)
\* What a call sends that gives nobody a key.
Harmless == Transfers \cup Stops \cup {Replacement}
Sendable == Harmless \cup {Approval}

\* An account is never in debt, and what its orders hold is there.
Accounts ==
  {c \in [exists : BOOLEAN, spot : Nat, perp : Nat, orders : SUBSET Orders,
          open : SUBSET Assets, agent : Agents] : Held(c) <= c.perp}

\* An account with the same agent.
Like(c) == {d \in Accounts : d.agent = c.agent}

CoreTypes == core \in Accounts /\ flight \in Seq(Sendable)

----------------------------------------------------------------------------
(* What the contract reads and sends. *)

LEMMA HeldType ==
  ASSUME NEW c, c.orders \in SUBSET Orders
  PROVE  Held(c) \in Nat /\ (Held(c) <= 0 => c.orders = {})
<1>1. IsFiniteSet(c.orders)
  BY FS_Subset, UnitsAssumption
<1>2. Cardinality(c.orders) \in Nat /\ (Cardinality(c.orders) = 0 => c.orders = {})
  BY <1>1, FS_CardinalityType, FS_EmptySet
<1>3. \A n \in Nat : OrderMargin * n \in Nat /\ (OrderMargin * n <= 0 => n = 0)
  BY UnitsAssumption
<1> QED BY <1>2, <1>3 DEF Held

\* Fewer orders hold no more.
LEMMA HeldFewer ==
  ASSUME NEW c, NEW d, c.orders \in SUBSET Orders, d.orders \subseteq c.orders
  PROVE  Held(d) <= Held(c)
<1>1. IsFiniteSet(c.orders)
  BY FS_Subset, UnitsAssumption
<1>2. Cardinality(c.orders) \in Nat /\ Cardinality(d.orders) \in Nat /\ Cardinality(d.orders) <= Cardinality(c.orders)
  BY <1>1, FS_Subset, FS_CardinalityType
<1>3. \A m, n \in Nat : m <= n => OrderMargin * m <= OrderMargin * n
  BY UnitsAssumption
<1> QED BY <1>2, <1>3 DEF Held

LEMMA HeldSame ==
  ASSUME NEW c, NEW d, d.orders = c.orders
  PROVE  Held(d) = Held(c)
BY DEF Held

LEMMA WithdrawableType ==
  ASSUME NEW c \in Accounts
  PROVE  /\ Withdrawable(c) \in Nat
         /\ \A n \in Nat : Withdrawable(c) >= n => Held(c) <= c.perp - n
BY HeldType DEF Withdrawable, Accounts

\* Where nothing is held back there is no order, and all there is can be withdrawn.
LEMMA NothingHeld ==
  ASSUME core \in Accounts, core.open = {}, NothingHeldOnPerp
  PROVE  core.orders = {} /\ Free = core.perp
<1>1. Held(core) \in Nat /\ core.perp \in Nat
  BY HeldType DEF Accounts
<1>2. core.perp <= core.perp - Held(core)
  BY DEF NothingHeldOnPerp, Withdrawable
<1>3. Held(core) = 0
  BY <1>1, <1>2
<1> QED BY <1>1, <1>3, HeldType DEF Free, Withdrawable, Accounts

LEMMA Pair ==
  ASSUME NEW S, NEW a \in S, NEW b \in S, NEW s, s = <<a>> \o <<b>>
  PROVE  s \in Seq(S) /\ Len(s) = 2 /\ s[1] = a /\ s[2] = b
<1>1. <<a>> \in Seq(S) /\ Len(<<a>>) = 1 /\ <<a>>[1] = a
  OBVIOUS
<1>2. s = Append(<<a>>, b)
  BY <1>1, AppendIsConcat
<1>3. s \in Seq(S) /\ Len(s) = 1 + 1 /\ s[1] = a /\ s[1 + 1] = b
  BY <1>1, <1>2, AppendProperties
<1> QED BY <1>3

LEMMA Singles ==
  ASSUME NEW S, NEW a \in S
  PROVE  <<a>> \in Seq(S) /\ <<>> \in Seq(S)
OBVIOUS

LEMMA SendsType ==
  /\ \A n \in Nat : ToPerp(n) \in Seq(Harmless) /\ ToSpot(n) \in Seq(Harmless)
  /\ \A n \in Nat, to \in Recipients : SendUsdc(to, n) \in Seq(Harmless)
  /\ \A oids \in SUBSET Orders : CancelOrders(oids) \in Seq(Harmless)
  /\ \A perps \in SUBSET Assets : ClosePositions(perps) \in Seq(Harmless)
  /\ CutActions \in Seq(Harmless)
<1>1. /\ \A n \in Nat : <<"toPerp", n>> \in Harmless /\ <<"toSpot", n>> \in Harmless
      /\ \A n \in Nat, to \in Recipients : <<"send", n, to>> \in Harmless
      /\ \A oids \in SUBSET Orders : <<"cancel", oids>> \in Harmless
      /\ \A perps \in SUBSET Assets : <<"close", perps>> \in Harmless
      /\ Replacement \in Harmless
  BY DEF Harmless, Transfers, Stops
<1> QED BY <1>1, Singles DEF ToPerp, ToSpot, SendUsdc, CancelOrders, ClosePositions, CutActions, SetAgent, Replacement

LEMMA HarmlessIs ==
  ASSUME NEW s \in Seq(Harmless)
  PROVE  s \in Seq(Sendable)
BY SeqMonotonic DEF Sendable

\* What drains an account: it takes nothing from spot and nothing of the agent.
Drains == Stops \cup ({"toSpot"} \X Nat)

LEMMA DrainType ==
  ASSUME core \in Accounts, NEW oids \in CancelSets, NEW extra \in ExtraSets
  PROVE  DrainActions(oids, extra) \in Seq(Drains)
<1> DEFINE cancel == CancelOrders(oids)
           close == ClosePositions(Named(extra))
           home == IF core.open = {} THEN ToSpot(Free) ELSE <<>>
<1>1. Named(extra) \in SUBSET Assets /\ oids \in SUBSET Orders /\ Free \in Nat
  BY WithdrawableType DEF Named, CancelSets, Free, Accounts
<1>2. cancel \in Seq(Drains) /\ close \in Seq(Drains) /\ home \in Seq(Drains)
  <2>1. <<"cancel", oids>> \in Drains /\ <<"close", Named(extra)>> \in Drains /\ <<"toSpot", Free>> \in Drains
    BY <1>1 DEF Drains, Stops
  <2> QED BY <2>1, Singles DEF CancelOrders, ClosePositions, ToSpot
<1> HIDE DEF cancel, close, home
<1>3. (cancel \o close) \o home \in Seq(Drains)
  BY <1>2, ConcatProperties
<1> QED BY <1>3 DEF DrainActions, cancel, close, home

LEMMA DrainsAre ==
  ASSUME NEW s \in Seq(Drains)
  PROVE  s \in Seq(Harmless) /\ s \in Seq(Sendable)
<1>1. Drains \subseteq Harmless
  BY DEF Drains, Harmless, Transfers
<1> QED BY <1>1, SeqMonotonic, HarmlessIs

LEMMA StopType ==
  ASSUME core \in Accounts, NEW oids \in CancelSets, NEW extra \in ExtraSets
  PROVE  /\ StopActions(oids, extra) \in Seq(Stops \cup {Replacement})
         /\ Len(StopActions(oids, extra)) > 0 /\ StopActions(oids, extra)[1] = Replacement
<1> DEFINE S == Stops \cup {Replacement}
           cancel == CancelOrders(oids)
           close == ClosePositions(Named(extra))
<1>1. Named(extra) \in SUBSET Assets /\ oids \in SUBSET Orders
  BY DEF Named, CancelSets, Accounts
<1>2. cancel \in Seq(S) /\ close \in Seq(S) /\ CutActions \in Seq(S)
  <2>1. <<"cancel", oids>> \in S /\ <<"close", Named(extra)>> \in S /\ Replacement \in S
    BY <1>1 DEF Stops
  <2> QED BY <2>1, Singles DEF CancelOrders, ClosePositions, CutActions, SetAgent, Replacement
<1>3. CutActions \o cancel \in Seq(S) /\ Len(CutActions) = 1 /\ CutActions[1] = Replacement
  BY <1>2, ConcatProperties DEF CutActions, SetAgent, Replacement
<1> HIDE DEF S, cancel, close
<1>4. Len(CutActions \o cancel) >= 1 /\ (CutActions \o cancel)[1] = Replacement
  <2>1. Len(cancel) \in Nat /\ 1 \in 1..Len(CutActions) + Len(cancel)
    BY <1>2, <1>3, LenProperties
  <2> QED BY <1>2, <1>3, <2>1, ConcatProperties
<1>5. /\ (CutActions \o cancel) \o close \in Seq(S)
      /\ Len((CutActions \o cancel) \o close) >= 1 /\ ((CutActions \o cancel) \o close)[1] = Replacement
  BY <1>2, <1>3, <1>4, ConcatProperties, LenProperties
<1> QED BY <1>5 DEF StopActions, cancel, close, S

LEMMA StopsAre ==
  ASSUME NEW s \in Seq(Stops \cup {Replacement})
  PROVE  s \in Seq(Harmless) /\ s \in Seq(Sendable)
<1>1. Stops \cup {Replacement} \subseteq Harmless
  BY DEF Harmless
<1> QED BY <1>1, SeqMonotonic, HarmlessIs

----------------------------------------------------------------------------
(* How the account changes. *)

LEMMA AccountWith ==
  ASSUME NEW c \in Accounts
  PROVE  /\ c \in Like(c)
         /\ \A spot \in Nat : [c EXCEPT !.spot = spot] \in Like(c)
         /\ \A spot, perp \in Nat : Held(c) <= perp => [c EXCEPT !.perp = perp, !.spot = spot] \in Like(c)
         /\ \A orders \in SUBSET c.orders : [c EXCEPT !.orders = orders] \in Like(c)
<1>1. c \in Like(c)
  BY DEF Like
<1>2. ASSUME NEW spot \in Nat PROVE [c EXCEPT !.spot = spot] \in Like(c)
  <2>1. Held([c EXCEPT !.spot = spot]) = Held(c)
    BY HeldSame DEF Accounts
  <2> QED BY <2>1 DEF Like, Accounts
<1>3. ASSUME NEW spot \in Nat, NEW perp \in Nat, Held(c) <= perp
      PROVE  [c EXCEPT !.perp = perp, !.spot = spot] \in Like(c)
  <2>1. [c EXCEPT !.perp = perp, !.spot = spot].orders = c.orders
    BY DEF Accounts
  <2>2. Held([c EXCEPT !.perp = perp, !.spot = spot]) = Held(c)
    BY <2>1 DEF Held
  <2> QED BY <1>3, <2>2 DEF Like, Accounts
<1>4. ASSUME NEW orders \in SUBSET c.orders PROVE [c EXCEPT !.orders = orders] \in Like(c)
  <2>1. Held([c EXCEPT !.orders = orders]) <= Held(c)
    BY HeldFewer DEF Accounts
  <2>2. [c EXCEPT !.orders = orders].orders \in SUBSET Orders
    BY DEF Accounts
  <2>3. Held([c EXCEPT !.orders = orders]) \in Nat /\ Held(c) \in Nat /\ c.perp \in Nat /\ Held(c) <= c.perp
    BY <2>2, HeldType DEF Accounts
  <2>4. Held([c EXCEPT !.orders = orders]) <= c.perp
    BY <2>1, <2>3
  <2> QED BY <2>4 DEF Like, Accounts
<1> QED BY <1>1, <1>2, <1>3, <1>4

LEMMA BookedType ==
  ASSUME NEW c \in Accounts, NEW perp \in Int, NEW open \in SUBSET Assets, NEW orders \in SUBSET Orders,
         Held(Booked(c, perp, open, orders)) <= Booked(c, perp, open, orders).perp
  PROVE  Booked(c, perp, open, orders) \in Like(c) /\ Booked(c, perp, open, orders).spot = c.spot
<1> DEFINE d == Booked(c, perp, open, orders)
<1>1. d.orders = orders /\ d.perp = perp /\ d.spot = c.spot /\ d.agent = c.agent
  BY DEF Booked, Accounts
<1>2. Held(d) \in Nat
  BY <1>1, HeldType
<1>3. perp \in Nat
  BY <1>1, <1>2
<1>4. d \in [exists : BOOLEAN, spot : Nat, perp : Nat, orders : SUBSET Orders, open : SUBSET Assets, agent : Agents]
  BY <1>3 DEF Booked, Accounts
<1> QED BY <1>1, <1>4 DEF Like, Accounts

LEMMA ClosedType ==
  ASSUME NEW c \in Accounts, NEW perps, NEW d \in Closed(c, perps)
  PROVE  d \in Like(c) /\ d.spot = c.spot
<1>1. PICK e \in {c.perp, c.perp - 1}, p \in SUBSET c.open : d = Booked(c, e, p, c.orders)
  BY DEF Closed
<1>2. Held(d) <= d.perp
  BY DEF Closed
<1>3. p \in SUBSET Assets /\ c.orders \in SUBSET Orders /\ e \in Int
  BY DEF Accounts
<1> QED BY <1>1, <1>2, <1>3, BookedType

LEMMA RebookedType ==
  ASSUME NEW c \in Accounts, NEW orders \in SUBSET Orders, NEW d \in Rebooked(c, Assets, orders)
  PROVE  d \in Like(c) /\ d.spot = c.spot
<1>1. PICK e \in 0..(MaxWealth \div SpotPerPerp), p \in SUBSET Assets, o \in SUBSET orders :
        d = Booked(c, e, p, o)
  BY DEF Rebooked
<1>2. e \in Int /\ o \in SUBSET Orders
  BY UnitsAssumption
<1>3. Held(d) <= d.perp
  BY DEF Rebooked
<1> QED BY <1>1, <1>2, <1>3, BookedType

LEMMA TradedType ==
  ASSUME NEW c \in Accounts, NEW d \in Traded(c) \cup Moved(c)
  PROVE  d \in Like(c) /\ d.spot = c.spot
<1>1. d \in Rebooked(c, Assets, Orders) \/ d \in Rebooked(c, Assets, c.orders)
  BY DEF Traded, Moved
<1>2. c.orders \in SUBSET Orders
  BY DEF Accounts
<1> QED BY <1>1, <1>2, RebookedType

LEMMA FundedType ==
  ASSUME NEW c \in Accounts, NEW n \in Nat
  PROVE  /\ [c EXCEPT !.spot = n, !.exists = TRUE] \in Like(c)
         /\ [c EXCEPT !.exists = TRUE, !.spot = n] \in Like(c)
         /\ Held(c) <= n => [c EXCEPT !.perp = n, !.exists = TRUE] \in Like(c)
<1>1. /\ [c EXCEPT !.spot = n, !.exists = TRUE].orders = c.orders
      /\ [c EXCEPT !.exists = TRUE, !.spot = n].orders = c.orders
      /\ [c EXCEPT !.perp = n, !.exists = TRUE].orders = c.orders
  BY DEF Accounts
<1>2. /\ Held([c EXCEPT !.spot = n, !.exists = TRUE]) = Held(c)
      /\ Held([c EXCEPT !.exists = TRUE, !.spot = n]) = Held(c)
      /\ Held([c EXCEPT !.perp = n, !.exists = TRUE]) = Held(c)
  BY <1>1 DEF Held
<1> QED BY <1>2 DEF Accounts, Like

\* Dust is one unit on one side.
LEMMA DonatedType ==
  ASSUME NEW c \in Accounts, NEW d \in Donated(c)
  PROVE  /\ d \in Like(c) /\ Wealth(d) <= MaxDusted
         /\ \/ d.spot = c.spot + 1 /\ d.perp = c.perp
            \/ d.spot = c.spot /\ d.perp = c.perp + 1
<1>1. \/ d = [c EXCEPT !.spot = c.spot + 1, !.exists = TRUE]
      \/ d = [c EXCEPT !.perp = c.perp + 1, !.exists = TRUE]
  BY DEF Donated
<1>2. c.spot + 1 \in Nat /\ c.perp + 1 \in Nat /\ Held(c) <= c.perp + 1
  BY HeldType DEF Accounts
<1>3. CASE d = [c EXCEPT !.spot = c.spot + 1, !.exists = TRUE]
  BY <1>2, <1>3, FundedType DEF Accounts, Donated
<1>4. CASE d = [c EXCEPT !.perp = c.perp + 1, !.exists = TRUE]
  BY <1>2, <1>4, FundedType DEF Accounts, Donated
<1> QED BY <1>1, <1>3, <1>4

\* What an action does to the account when it lands: who the agent is, and what is on spot.
LEMMA LandedType ==
  ASSUME NEW c \in Accounts, NEW a \in Sendable, NEW t, NEW k, NEW d \in Landed(c, a, t, k)
  PROVE  /\ d \in Accounts /\ (a[1] # "agent" => d \in Like(c))
         /\ a[1] \in {"agent", "cancel", "close"} => d.spot = c.spot
         /\ a[1] = "toSpot" => d.spot >= c.spot
         /\ a[1] = "toPerp" => d.spot = IF c.spot >= a[2] * SpotPerPerp THEN c.spot - a[2] * SpotPerPerp ELSE c.spot
         /\ a[1] = "send" => d.spot = IF c.spot >= SendCost(t, a[2]) THEN c.spot - SendCost(t, a[2]) ELSE c.spot
<1>0. c.spot \in Nat /\ c.perp \in Nat /\ Held(c) \in Nat /\ Held(c) <= c.perp /\ c \in Like(c)
  BY HeldType DEF Accounts, Like
<1>1. ASSUME a \in {Approval, Replacement}
      PROVE  d \in Accounts /\ d.spot = c.spot /\ a[1] = "agent"
  <2>1. d = c \/ d = [c EXCEPT !.agent = "trader"] \/ d = [c EXCEPT !.agent = "keyless"]
    BY <1>1 DEF Landed, Approval, Replacement
  <2>2. /\ [c EXCEPT !.agent = "trader"].orders = c.orders /\ [c EXCEPT !.agent = "keyless"].orders = c.orders
    BY DEF Accounts
  <2>3. Held([c EXCEPT !.agent = "trader"]) = Held(c) /\ Held([c EXCEPT !.agent = "keyless"]) = Held(c)
    BY <2>2 DEF Held
  <2> QED BY <1>1, <2>1, <2>3 DEF Accounts, Agents, Approval, Replacement
<1>2. ASSUME a \in {"toPerp"} \X Nat
      PROVE  /\ d \in Like(c) /\ a[1] = "toPerp"
             /\ d.spot = IF c.spot >= a[2] * SpotPerPerp THEN c.spot - a[2] * SpotPerPerp ELSE c.spot
  <2>1. a[1] = "toPerp" /\ a[2] \in Nat /\ a[2] * SpotPerPerp \in Nat
    BY <1>2, UnitsAssumption
  <2> DEFINE cost == a[2] * SpotPerPerp
             e == [c EXCEPT !.perp = c.perp + a[2], !.spot = c.spot - cost]
  <2>2. d = IF c.spot >= cost THEN e ELSE c
    BY <2>1 DEF Landed
  <2>3. cost \in Nat
    BY <2>1
  <2>4. e.spot = c.spot - cost
    BY DEF Accounts
  <2>5. c.spot >= cost => e \in Like(c)
    <3> HIDE DEF cost
    <3>1. c.spot >= cost => c.spot - cost \in Nat /\ c.perp + a[2] \in Nat /\ Held(c) <= c.perp + a[2]
      BY <1>0, <2>1, <2>3
    <3> QED BY <3>1, AccountWith
  <2> HIDE DEF e
  <2> QED BY <1>0, <2>1, <2>2, <2>4, <2>5
<1>3. ASSUME a \in {"toSpot"} \X Nat
      PROVE  d \in Like(c) /\ a[1] = "toSpot" /\ d.spot >= c.spot
  <2>1. a[1] = "toSpot" /\ a[2] \in Nat /\ a[2] * SpotPerPerp \in Nat
    BY <1>3, UnitsAssumption
  <2> DEFINE gain == a[2] * SpotPerPerp
             e == [c EXCEPT !.perp = c.perp - a[2], !.spot = c.spot + gain]
  <2>2. d = IF Withdrawable(c) >= a[2] THEN e ELSE c
    BY <2>1 DEF Landed
  <2>3. gain \in Nat
    BY <2>1
  <2>4. e.spot = c.spot + gain
    BY DEF Accounts
  <2>5. Withdrawable(c) >= a[2] => e \in Like(c)
    <3> HIDE DEF gain
    <3>1. Withdrawable(c) >= a[2] => Held(c) <= c.perp - a[2]
      BY <2>1, WithdrawableType
    <3>2. Withdrawable(c) >= a[2] => c.spot + gain \in Nat /\ c.perp - a[2] \in Nat /\ Held(c) <= c.perp - a[2]
      BY <1>0, <2>1, <2>3, <3>1
    <3> QED BY <3>2, AccountWith
  <2> HIDE DEF e, gain
  <2> QED BY <1>0, <2>1, <2>2, <2>3, <2>4, <2>5
<1>4. ASSUME a \in {"send"} \X Nat \X Recipients
      PROVE  /\ d \in Like(c) /\ a[1] = "send"
             /\ d.spot = IF c.spot >= SendCost(t, a[2]) THEN c.spot - SendCost(t, a[2]) ELSE c.spot
  <2>1. a[1] = "send" /\ SendCost(t, a[2]) \in Nat
    BY <1>4, UnitsAssumption DEF SendCost
  <2>2. d = IF c.spot >= SendCost(t, a[2]) THEN [c EXCEPT !.spot = c.spot - SendCost(t, a[2])] ELSE c
    BY <2>1 DEF Landed
  <2>3. c.spot >= SendCost(t, a[2]) => c.spot - SendCost(t, a[2]) \in Nat
    BY <1>0, <2>1
  <2>4. [c EXCEPT !.spot = c.spot - SendCost(t, a[2])].spot = c.spot - SendCost(t, a[2])
    BY DEF Accounts
  <2> QED BY <1>0, <2>1, <2>2, <2>3, <2>4, AccountWith
<1>5. ASSUME a \in {"cancel"} \X SUBSET Orders
      PROVE  d \in Like(c) /\ a[1] = "cancel" /\ d.spot = c.spot
  <2>1. a[1] = "cancel" /\ c.orders \ a[2] \in SUBSET c.orders
    BY <1>5 DEF Accounts
  <2>2. d = [c EXCEPT !.orders = c.orders \ a[2]]
    BY <2>1 DEF Landed
  <2>3. [c EXCEPT !.orders = c.orders \ a[2]].spot = c.spot
    BY DEF Accounts
  <2> QED BY <2>1, <2>2, <2>3, AccountWith
<1>6. ASSUME a \in {"close"} \X SUBSET Assets
      PROVE  d \in Like(c) /\ a[1] = "close" /\ d.spot = c.spot
  <2>1. a[1] = "close"
    BY <1>6
  <2>2. d \in Closed(c, a[2])
    BY <2>1 DEF Landed
  <2> QED BY <2>1, <2>2, ClosedType
<1>7. \/ a \in {Approval, Replacement} \/ a \in {"toPerp"} \X Nat \/ a \in {"toSpot"} \X Nat
      \/ a \in {"send"} \X Nat \X Recipients \/ a \in {"cancel"} \X SUBSET Orders \/ a \in {"close"} \X SUBSET Assets
  BY DEF Sendable, Harmless, Transfers, Stops
<1>8. Like(c) \subseteq Accounts
  BY DEF Like
<1> QED BY <1>1, <1>2, <1>3, <1>4, <1>5, <1>6, <1>7, <1>8

\* Where agent actions cannot fail, whose key is in is told by the last that landed.
LEMMA LandedAgent ==
  ASSUME NEW c \in Accounts, NEW a \in Sendable, NEW t, NEW k, NEW d \in Landed(c, a, t, k), ~CutMayFail
  PROVE  /\ a = Replacement => d.agent # "trader"
         /\ d.agent = "trader" => c.agent = "trader" \/ a = Approval
<1>1. CASE a = Replacement
  <2>1. a[1] = "agent" /\ a[2] = "keyless" /\ a # Approval
    BY <1>1 DEF Replacement, Approval
  <2>2. d = [c EXCEPT !.agent = "keyless"]
    BY <2>1 DEF Landed
  <2> QED BY <2>2 DEF Accounts
<1>2. CASE a # Replacement /\ a # Approval
  BY <1>2, LandedType DEF Sendable, Harmless, Transfers, Stops, Like
<1>3. CASE a = Approval
  BY <1>3 DEF Approval, Replacement
<1> QED BY <1>1, <1>2, <1>3

\* What a transfer costs, and what can be sent of a budget.
LEMMA CostType ==
  ASSUME NEW t, NEW n \in Nat
  PROVE  SendCost(t, n) \in Nat /\ SendCost(t, n) >= n
BY UnitsAssumption DEF SendCost

LEMMA SendableNat ==
  ASSUME NEW t \in BOOLEAN, NEW budget \in Nat
  PROVE  SendableTo(t, budget) \in Nat /\ (SendableTo(t, budget) # 0 => SendCost(t, SendableTo(t, budget)) <= budget)
BY UnitsAssumption DEF SendableTo, SendCost

LEMMA OlderType ==
  /\ \A age \in Int, wait \in Nat : Older(age, wait) \in Int
  /\ \A age \in Int, wait \in Nat : Older(age, wait) >= age
BY DEF Older

----------------------------------------------------------------------------
(* What is in flight. *)

LEMMA WithoutType ==
  ASSUME NEW S, flight \in Seq(S), NEW i \in 1..Len(flight)
  PROVE  /\ Without(i) \in Seq(S) /\ Len(Without(i)) = Len(flight) - 1
         /\ \A j \in 1..Len(flight) - 1 : Without(i)[j] = IF j < i THEN flight[j] ELSE flight[j + 1]
<1> DEFINE before == SubSeq(flight, 1, i - 1)
           after == SubSeq(flight, i + 1, Len(flight))
<1>1. Len(flight) \in Nat /\ i \in Int /\ \A j \in 1..Len(flight) : flight[j] \in S
  BY LenProperties, ElementOfSeq
<1>2. /\ before \in Seq(S) /\ Len(before) = i - 1
      /\ \A j \in 1..i - 1 : before[j] = flight[j]
  BY <1>1, SubSeqProperties
<1>3. /\ after \in Seq(S) /\ Len(after) = Len(flight) - i
      /\ \A j \in 1..Len(flight) - i : after[j] = flight[i + j]
  BY <1>1, SubSeqProperties
<1> HIDE DEF before, after
<1>4. /\ before \o after \in Seq(S) /\ Len(before \o after) = Len(flight) - 1
      /\ \A j \in 1..Len(flight) - 1 :
           (before \o after)[j] = IF j <= i - 1 THEN before[j] ELSE after[j - (i - 1)]
  <2>1. /\ before \o after \in Seq(S) /\ Len(before \o after) = Len(before) + Len(after)
        /\ \A j \in 1..Len(before) + Len(after) :
             (before \o after)[j] = IF j <= Len(before) THEN before[j] ELSE after[j - Len(before)]
    BY <1>2, <1>3, ConcatProperties
  <2>2. Len(before) + Len(after) = Len(flight) - 1
    BY <1>1, <1>2, <1>3
  <2> QED BY <1>2, <2>1, <2>2
<1>5. \A j \in 1..Len(flight) - 1 : (before \o after)[j] = IF j < i THEN flight[j] ELSE flight[j + 1]
  <2> SUFFICES ASSUME NEW j \in 1..Len(flight) - 1
               PROVE  (before \o after)[j] = IF j < i THEN flight[j] ELSE flight[j + 1]
    OBVIOUS
  <2>1. CASE j < i
    <3>1. j \in 1..i - 1
      BY <1>1, <2>1
    <3> QED BY <1>1, <1>2, <1>4, <2>1, <3>1
  <2>2. CASE ~(j < i)
    <3>1. j - (i - 1) \in 1..Len(flight) - i /\ i + (j - (i - 1)) = j + 1
      BY <1>1, <2>2
    <3>2. after[j - (i - 1)] = flight[j + 1]
      BY <1>3, <3>1
    <3>3. ~(j <= i - 1)
      BY <1>1, <2>2
    <3> QED BY <1>4, <2>2, <3>2, <3>3
  <2> QED BY <2>1, <2>2
<1> QED BY <1>4, <1>5 DEF Without, before, after

\* Behind what was in flight is what the call sends.
LEMMA SentSeq ==
  ASSUME NEW S, flight \in Seq(S), NEW s \in Seq(S), flight' = flight \o s
  PROVE  /\ flight' \in Seq(S) /\ Len(flight) \in Nat /\ Len(s) \in Nat
         /\ DOMAIN flight = 1..Len(flight) /\ DOMAIN flight' = 1..Len(flight) + Len(s) /\ DOMAIN s = 1..Len(s)
         /\ \A i \in DOMAIN flight : i \in DOMAIN flight' /\ flight'[i] = flight[i]
         /\ \A i \in DOMAIN flight' : i > Len(flight) => i - Len(flight) \in DOMAIN s /\ flight'[i] = s[i - Len(flight)]
         /\ \A i \in DOMAIN s : Len(flight) + i \in DOMAIN flight' /\ flight'[Len(flight) + i] = s[i]
<1> DEFINE n == Len(flight)
<1>1. n \in Nat /\ Len(s) \in Nat /\ DOMAIN flight = 1..n /\ DOMAIN s = 1..Len(s)
  BY LenProperties
<1>2. /\ flight' \in Seq(S) /\ Len(flight') = n + Len(s)
      /\ \A i \in 1..n + Len(s) : flight'[i] = IF i <= n THEN flight[i] ELSE s[i - n]
  BY ConcatProperties
<1>3. DOMAIN flight' = 1..n + Len(s)
  BY <1>2, LenProperties
<1> HIDE DEF n
<1>4. \A i \in 1..n : i \in 1..n + Len(s) /\ i <= n
  BY <1>1
<1>5. \A i \in 1..n + Len(s) : i > n => i - n \in 1..Len(s) /\ ~(i <= n)
  BY <1>1
<1>6. \A i \in 1..Len(s) : n + i \in 1..n + Len(s) /\ ~(n + i <= n) /\ (n + i) - n = i
  BY <1>1
<1> QED BY <1>1, <1>2, <1>3, <1>4, <1>5, <1>6 DEF n

\* The last of what is sent is the last in flight.
LEMMA SentLast ==
  ASSUME flight \in Seq(Sendable), NEW d \in Seq(Sendable), NEW a \in Sendable, flight' = flight \o (d \o <<a>>)
  PROVE  \E n \in DOMAIN flight' :
           /\ flight'[n] = a
           /\ \A i \in DOMAIN flight' : i # n =>
                i < n /\ ((i \in DOMAIN flight /\ flight'[i] = flight[i]) \/ \E j \in DOMAIN d : flight'[i] = d[j])
           /\ n > Len(flight)
<1> DEFINE s == d \o <<a>>
           n == Len(flight) + (Len(d) + 1)
<1>1. <<a>> \in Seq(Sendable) /\ Len(<<a>>) = 1 /\ <<a>>[1] = a /\ Len(d) \in Nat
  BY LenProperties
<1>2. /\ s \in Seq(Sendable) /\ Len(s) = Len(d) + 1
      /\ \A i \in 1..Len(d) + 1 : s[i] = IF i <= Len(d) THEN d[i] ELSE <<a>>[i - Len(d)]
  BY <1>1, ConcatProperties
<1>3. \A i \in 1..Len(d) + 1 : ~(i <= Len(d)) => i - Len(d) = 1
  BY <1>1
<1>4. \A i \in 1..Len(d) + 1 : s[i] = IF i <= Len(d) THEN d[i] ELSE a
  BY <1>1, <1>2, <1>3
<1>5. flight' = flight \o s
  OBVIOUS
<1> HIDE DEF s
<1>6. /\ Len(flight) \in Nat /\ DOMAIN flight = 1..Len(flight) /\ DOMAIN flight' = 1..Len(flight) + Len(s)
      /\ \A i \in DOMAIN flight : i \in DOMAIN flight' /\ flight'[i] = flight[i]
      /\ \A i \in DOMAIN flight' : i > Len(flight) => flight'[i] = s[i - Len(flight)]
  BY <1>2, <1>5, SentSeq
<1>7. n \in DOMAIN flight' /\ flight'[n] = a /\ n > Len(flight)
  <2>1. n - Len(flight) = Len(d) + 1 /\ n > Len(flight) /\ n \in DOMAIN flight'
    BY <1>1, <1>2, <1>6
  <2>2. Len(d) + 1 \in 1..Len(d) + 1 /\ ~(Len(d) + 1 <= Len(d))
    BY <1>1
  <2> QED BY <1>4, <1>6, <2>1, <2>2
<1>8. ASSUME NEW i \in DOMAIN flight', i # n
      PROVE  i < n /\ ((i \in DOMAIN flight /\ flight'[i] = flight[i]) \/ \E j \in DOMAIN d : flight'[i] = d[j])
  <2>9. /\ i \in Int /\ 1 <= i /\ i <= Len(flight) + (Len(d) + 1) /\ i # Len(flight) + (Len(d) + 1)
        /\ Len(flight) \in Nat /\ Len(d) \in Nat /\ DOMAIN flight = 1..Len(flight)
    <3>1. DOMAIN flight' = 1..Len(flight) + (Len(d) + 1)
      BY <1>2, <1>6
    <3>2. i \in 1..Len(flight) + (Len(d) + 1)
      BY <1>8, <3>1
    <3>3. i # Len(flight) + (Len(d) + 1)
      BY <1>8
    <3>4. i \in Int /\ 1 <= i /\ i <= Len(flight) + (Len(d) + 1)
      BY <1>1, <1>6, <3>2
    <3> QED BY <1>1, <1>6, <3>3, <3>4
  <2>8. \A x \in Int : \A p, q \in Nat : 1 <= x /\ x <= p + (q + 1) /\ x # p + (q + 1)
           => x < p + (q + 1) /\ (x > p \/ x \in 1..p)
    OBVIOUS
  <2>1. i < n /\ (i \in DOMAIN flight \/ i > Len(flight))
    BY <2>8, <2>9
  <2>2. CASE i > Len(flight)
    <3>1. i - Len(flight) \in 1..Len(d) + 1 /\ i - Len(flight) <= Len(d) /\ i - Len(flight) \in 1..Len(d)
      BY <1>1, <1>2, <1>6, <1>8, <2>2
    <3>2. flight'[i] = d[i - Len(flight)]
      BY <1>4, <1>6, <2>2, <3>1
    <3>3. DOMAIN d = 1..Len(d)
      BY LenProperties
    <3> QED BY <2>1, <3>1, <3>2, <3>3
  <2> QED BY <1>6, <2>1, <2>2
<1> QED BY <1>7, <1>8

\* What moves nothing out of spot and gives nobody a key.
Quiet == Drains \cup {Replacement}

LEMMA QuietSend ==
  ASSUME CoreTypes, NEW s \in Seq(Quiet), Send(s)
  PROVE  /\ \A i \in DOMAIN flight' : flight'[i][1] \in {"send", "toPerp"} =>
              i \in DOMAIN flight /\ flight'[i] = flight[i]
         /\ \A i \in DOMAIN flight' : flight'[i] = Approval => i \in DOMAIN flight /\ flight'[i] = flight[i]
         /\ \A i \in DOMAIN flight : i \in DOMAIN flight' /\ flight'[i] = flight[i]
         /\ core' = core /\ block' = "evm" /\ block = "evm"
<1>1. Quiet \subseteq Sendable /\ \A a \in Quiet : a[1] \notin {"send", "toPerp"} /\ a # Approval
  BY DEF Quiet, Drains, Stops, Sendable, Harmless, Transfers, Replacement, Approval
<1>2. s \in Seq(Sendable)
  BY <1>1, SeqMonotonic
<1>3. flight' = flight \o s /\ core' = core /\ block' = "evm" /\ block = "evm" /\ flight \in Seq(Sendable)
  BY DEF Send, CoreTypes
<1>4. /\ Len(flight) \in Nat /\ DOMAIN flight = 1..Len(flight) /\ DOMAIN flight' = 1..Len(flight) + Len(s)
      /\ Len(s) \in Nat
      /\ \A i \in DOMAIN flight : i \in DOMAIN flight' /\ flight'[i] = flight[i]
      /\ \A i \in DOMAIN flight' : i > Len(flight) => i - Len(flight) \in DOMAIN s /\ flight'[i] = s[i - Len(flight)]
  BY <1>2, <1>3, SentSeq
<1>5. \A i \in DOMAIN s : s[i] \in Quiet
  OBVIOUS
<1>6. \A i \in DOMAIN flight' : i \in DOMAIN flight \/ i > Len(flight)
  BY <1>4
<1> QED BY <1>1, <1>3, <1>4, <1>5, <1>6

\* Old actions and new ones, and how they are ordered.
LEMMA SentWhat ==
  ASSUME flight \in Seq(Sendable), NEW s \in Seq(Sendable), flight' = flight \o s
  PROVE  /\ \A i \in DOMAIN flight : i \in DOMAIN flight' /\ flight'[i] = flight[i]
         /\ \A i \in DOMAIN flight' : \/ i \in DOMAIN flight /\ flight'[i] = flight[i]
                                      \/ i > Len(flight) /\ i - Len(flight) \in DOMAIN s /\ flight'[i] = s[i - Len(flight)]
         /\ \A i \in DOMAIN flight, j \in DOMAIN flight' : j < i => j \in DOMAIN flight
<1>1. /\ Len(flight) \in Nat /\ DOMAIN flight = 1..Len(flight) /\ DOMAIN flight' = 1..Len(flight) + Len(s)
      /\ Len(s) \in Nat
      /\ \A i \in DOMAIN flight : i \in DOMAIN flight' /\ flight'[i] = flight[i]
      /\ \A i \in DOMAIN flight' : i > Len(flight) => i - Len(flight) \in DOMAIN s /\ flight'[i] = s[i - Len(flight)]
  BY SentSeq
<1>2. \A i \in DOMAIN flight' : i \in DOMAIN flight \/ i > Len(flight)
  BY <1>1
<1>3. \A i \in DOMAIN flight, j \in DOMAIN flight' : j < i => j \in DOMAIN flight
  BY <1>1
<1>4. \A i \in DOMAIN flight' : \/ i \in DOMAIN flight /\ flight'[i] = flight[i]
                                \/ i > Len(flight) /\ i - Len(flight) \in DOMAIN s /\ flight'[i] = s[i - Len(flight)]
  <2> SUFFICES ASSUME NEW i \in DOMAIN flight'
               PROVE  \/ i \in DOMAIN flight /\ flight'[i] = flight[i]
                      \/ i > Len(flight) /\ i - Len(flight) \in DOMAIN s /\ flight'[i] = s[i - Len(flight)]
    OBVIOUS
  <2>1. CASE i \in DOMAIN flight
    BY <1>1, <2>1
  <2>2. CASE i > Len(flight)
    BY <1>1, <2>2
  <2> QED BY <1>2, <2>1, <2>2
<1>5. \A i \in DOMAIN flight : i \in DOMAIN flight' /\ flight'[i] = flight[i]
  BY <1>1
<1> QED BY <1>3, <1>4, <1>5

\* What stays in flight when one has landed was in flight, in the same order.
LEMMA LeftSeq ==
  ASSUME NEW S, flight \in Seq(S), NEW i \in DOMAIN flight, flight' = Without(i)
  PROVE  /\ flight' \in Seq(S)
         /\ \A j \in DOMAIN flight' : j < i => j \in DOMAIN flight /\ flight'[j] = flight[j]
         /\ \A j \in DOMAIN flight' : ~(j < i) => j + 1 \in DOMAIN flight /\ flight'[j] = flight[j + 1]
         /\ \A j \in DOMAIN flight : j < i => j \in DOMAIN flight' /\ flight'[j] = flight[j]
         /\ \A j \in DOMAIN flight : j > i => j - 1 \in DOMAIN flight' /\ flight'[j - 1] = flight[j]
         /\ DOMAIN flight \subseteq Nat \ {0} /\ DOMAIN flight' \subseteq Nat \ {0}
<1> DEFINE n == Len(flight)
<1>1. n \in Nat /\ DOMAIN flight = 1..n /\ i \in 1..n
  BY LenProperties
<1>2. /\ flight' \in Seq(S) /\ Len(flight') = n - 1
      /\ \A j \in 1..n - 1 : flight'[j] = IF j < i THEN flight[j] ELSE flight[j + 1]
  BY <1>1, WithoutType
<1>3. DOMAIN flight' = 1..n - 1
  BY <1>2, LenProperties
<1> HIDE DEF n
<1>4. \A j \in 1..n - 1 : j \in 1..n /\ j + 1 \in 1..n
  BY <1>1
<1>5. \A j \in 1..n : j < i => j \in 1..n - 1
  BY <1>1
<1>6. \A j \in 1..n : j > i => j - 1 \in 1..n - 1 /\ ~(j - 1 < i) /\ (j - 1) + 1 = j
  BY <1>1
<1>7. 1..n \subseteq Nat \ {0} /\ 1..n - 1 \subseteq Nat \ {0}
  BY <1>1
<1> QED BY <1>1, <1>2, <1>3, <1>4, <1>5, <1>6, <1>7

\* Where in flight it was, before action i landed.
Was(i, j) == IF j < i THEN j ELSE j + 1

LEMMA LeftWas ==
  ASSUME NEW S, flight \in Seq(S), NEW i \in DOMAIN flight, flight' = Without(i)
  PROVE  /\ \A j \in DOMAIN flight' : Was(i, j) \in DOMAIN flight /\ Was(i, j) # i /\ flight'[j] = flight[Was(i, j)]
         /\ \A j, l \in DOMAIN flight' : j < l <=> Was(i, j) < Was(i, l)
         /\ \A j, l \in DOMAIN flight' : Was(i, j) = Was(i, l) => j = l
         /\ \A l \in DOMAIN flight : l # i => \E j \in DOMAIN flight' : Was(i, j) = l
<1>1. /\ \A j \in DOMAIN flight' : j < i => j \in DOMAIN flight /\ flight'[j] = flight[j]
      /\ \A j \in DOMAIN flight' : ~(j < i) => j + 1 \in DOMAIN flight /\ flight'[j] = flight[j + 1]
      /\ \A j \in DOMAIN flight : j < i => j \in DOMAIN flight' /\ flight'[j] = flight[j]
      /\ \A j \in DOMAIN flight : j > i => j - 1 \in DOMAIN flight' /\ flight'[j - 1] = flight[j]
      /\ DOMAIN flight \subseteq Nat \ {0} /\ DOMAIN flight' \subseteq Nat \ {0}
  BY LeftSeq
<1>2. i \in Nat
  BY <1>1
<1>3. /\ \A j \in DOMAIN flight' : Was(i, j) \in DOMAIN flight /\ Was(i, j) # i /\ flight'[j] = flight[Was(i, j)]
      /\ \A j, l \in DOMAIN flight' : j < l <=> Was(i, j) < Was(i, l)
      /\ \A j, l \in DOMAIN flight' : Was(i, j) = Was(i, l) => j = l
  BY <1>1, <1>2 DEF Was
<1>4. ASSUME NEW l \in DOMAIN flight, l # i PROVE \E j \in DOMAIN flight' : Was(i, j) = l
  <2>1. CASE l < i
    BY <1>1, <2>1 DEF Was
  <2>2. CASE l > i
    <3>1. l - 1 \in DOMAIN flight' /\ ~(l - 1 < i) /\ (l - 1) + 1 = l
      BY <1>1, <1>2, <2>2
    <3> QED BY <3>1 DEF Was
  <2> QED BY <1>1, <1>2, <1>4, <2>1, <2>2
<1> QED BY <1>3, <1>4

LEMMA LeftKinds ==
  ASSUME NEW S, flight \in Seq(S), NEW i \in DOMAIN flight, flight' = Without(i), NEW op
  PROVE  InFlight(op)' => InFlight(op)
BY LeftWas DEF InFlight

----------------------------------------------------------------------------
(* The trader's key does not outlive its stop, where a replacement cannot     *)
(* fail and agent actions land in order.                                     *)

\* Behind every approval of the trader's key in flight there is one of a keyless address, and
\* so there is when the key is in.
Replaced ==
  /\ \A i \in DOMAIN flight : flight[i] = Approval => \E j \in DOMAIN flight : j > i /\ flight[j] = Replacement
  /\ core.agent = "trader" => \E j \in DOMAIN flight : flight[j] = Replacement

LEMMA NoAgentNoKey ==
  ASSUME CoreTypes
  PROVE  /\ ~InFlight("agent") => \A i \in DOMAIN flight : flight[i] # Approval /\ flight[i] # Replacement
         /\ (\E j \in DOMAIN flight : flight[j] = Replacement) => InFlight("agent")
BY DEF InFlight, Approval, Replacement

LEMMA HarmlessGivesNoKey == Approval \notin Harmless
BY DEF Harmless, Transfers, Stops, Approval, Replacement

\* What is sent adds no approval, so everything stays replaced.
LEMMA HarmlessKeeps ==
  ASSUME CoreTypes, NEW s \in Seq(Harmless), Send(s), Replaced
  PROVE  Replaced'
<1> DEFINE n == Len(flight)
<1>1. flight' = flight \o s /\ core' = core /\ flight \in Seq(Sendable) /\ s \in Seq(Sendable)
  BY HarmlessIs DEF CoreTypes, Send
<1>2. /\ n \in Nat /\ DOMAIN flight = 1..n
      /\ \A i \in DOMAIN flight : i \in DOMAIN flight' /\ flight'[i] = flight[i]
      /\ \A i \in DOMAIN flight' : i > n => i - n \in DOMAIN s /\ flight'[i] = s[i - n]
      /\ DOMAIN flight' = 1..n + Len(s) /\ Len(s) \in Nat
  BY <1>1, SentSeq
<1>3. \A i \in DOMAIN s : s[i] # Approval
  BY HarmlessGivesNoKey
<1> HIDE DEF n
<1>4. \A i \in DOMAIN flight' : flight'[i] = Approval => i \in DOMAIN flight
  BY <1>2, <1>3
<1> QED BY <1>1, <1>2, <1>4 DEF Replaced

\* A stop, a pass and a recut send the replacement first.
LEMMA CutReplaces ==
  ASSUME CoreTypes, NEW s \in Seq(Harmless), Send(s), Len(s) > 0, s[1] = Replacement
  PROVE  Replaced'
<1> DEFINE n == Len(flight)
<1>1. flight' = flight \o s /\ flight \in Seq(Sendable) /\ s \in Seq(Sendable)
  BY HarmlessIs DEF CoreTypes, Send
<1>2. /\ n \in Nat /\ DOMAIN flight = 1..n /\ DOMAIN s = 1..Len(s) /\ Len(s) \in Nat
      /\ \A i \in DOMAIN flight' : i > n => i - n \in DOMAIN s /\ flight'[i] = s[i - n]
      /\ \A i \in DOMAIN s : n + i \in DOMAIN flight' /\ flight'[n + i] = s[i]
      /\ DOMAIN flight' = 1..n + Len(s)
  BY <1>1, SentSeq
<1>3. \A i \in DOMAIN s : s[i] # Approval
  BY HarmlessGivesNoKey
<1> HIDE DEF n
<1>4. n + 1 \in DOMAIN flight' /\ flight'[n + 1] = Replacement
  BY <1>2
<1>5. \A i \in DOMAIN flight' : flight'[i] = Approval => n + 1 > i
  BY <1>2, <1>3
<1> QED BY <1>4, <1>5 DEF Replaced

LEMMA LandKeeps ==
  ASSUME CoreTypes, Replaced, ~CutMayFail, "agent" \notin LateOps, NEW i \in DOMAIN flight, MayLand(i),
         flight' = Without(i), NEW t, NEW k, NEW d \in Landed(core, flight[i], t, k), core'.agent = d.agent
  PROVE  Replaced'
<1>1. /\ \A j \in DOMAIN flight' : j < i => j \in DOMAIN flight /\ flight'[j] = flight[j]
      /\ \A j \in DOMAIN flight' : ~(j < i) => j + 1 \in DOMAIN flight /\ flight'[j] = flight[j + 1]
      /\ \A j \in DOMAIN flight : j < i => j \in DOMAIN flight' /\ flight'[j] = flight[j]
      /\ \A j \in DOMAIN flight : j > i => j - 1 \in DOMAIN flight' /\ flight'[j - 1] = flight[j]
      /\ DOMAIN flight \subseteq Nat \ {0} /\ DOMAIN flight' \subseteq Nat \ {0}
  BY LeftSeq DEF CoreTypes
<1>2. flight[i] = Replacement => \A j \in DOMAIN flight : j < i => flight[j] # Approval
  BY <1>1 DEF MayLand, Approval, Replacement
<1>3. \A j \in DOMAIN flight : flight[j] = Replacement /\ flight[i] # Replacement =>
        \E l \in DOMAIN flight' : flight'[l] = Replacement /\ (j > i => l = j - 1) /\ (j < i => l = j)
  <2> SUFFICES ASSUME NEW j \in DOMAIN flight, flight[j] = Replacement, flight[i] # Replacement
               PROVE  \E l \in DOMAIN flight' : flight'[l] = Replacement /\ (j > i => l = j - 1) /\ (j < i => l = j)
    OBVIOUS
  <2>1. j \in Nat /\ i \in Nat /\ (j < i \/ j > i)
    BY <1>1
  <2> QED BY <1>1, <2>1
<1>4. \A j \in DOMAIN flight' : flight'[j] = Approval => \E l \in DOMAIN flight' : l > j /\ flight'[l] = Replacement
  <2> SUFFICES ASSUME NEW j \in DOMAIN flight', flight'[j] = Approval
               PROVE  \E l \in DOMAIN flight' : l > j /\ flight'[l] = Replacement
    OBVIOUS
  <2>0. j \in Nat /\ i \in Nat
    BY <1>1
  <2>1. CASE j < i
    <3>1. j \in DOMAIN flight /\ flight[j] = Approval
      BY <1>1, <2>1
    <3>2. PICK l \in DOMAIN flight : l > j /\ flight[l] = Replacement
      BY <3>1 DEF Replaced
    <3>3. flight[i] # Replacement /\ l # i /\ l \in Nat
      BY <1>1, <1>2, <2>1, <3>1, <3>2
    <3>4. CASE l < i
      BY <1>1, <3>2, <3>4
    <3>5. CASE l > i
      <4>1. l - 1 \in DOMAIN flight' /\ flight'[l - 1] = Replacement /\ l - 1 > j
        BY <1>1, <2>0, <2>1, <3>2, <3>3, <3>5
      <4> QED BY <4>1
    <3> QED BY <2>0, <3>3, <3>4, <3>5
  <2>2. CASE ~(j < i)
    <3>1. j + 1 \in DOMAIN flight /\ flight[j + 1] = Approval
      BY <1>1, <2>2
    <3>2. PICK l \in DOMAIN flight : l > j + 1 /\ flight[l] = Replacement
      BY <3>1 DEF Replaced
    <3>3. l \in Nat /\ l > i /\ l - 1 > j
      BY <1>1, <2>0, <2>2, <3>2
    <3>4. l - 1 \in DOMAIN flight' /\ flight'[l - 1] = Replacement
      BY <1>1, <3>2, <3>3
    <3> QED BY <3>3, <3>4
  <2> QED BY <2>1, <2>2
<1>5. ASSUME core'.agent = "trader"
      PROVE  \E l \in DOMAIN flight' : flight'[l] = Replacement
  <2>1. flight[i] # Replacement /\ (core.agent = "trader" \/ flight[i] = Approval)
    <3>1. flight[i] \in Sendable /\ core \in Accounts /\ d.agent = "trader"
      BY <1>5 DEF CoreTypes
    <3> QED BY <3>1, LandedAgent
  <2>2. PICK l \in DOMAIN flight : flight[l] = Replacement
    BY <2>1 DEF Replaced
  <2> QED BY <1>3, <2>1, <2>2
<1> QED BY <1>4, <1>5 DEF Replaced

\* Where nothing is in flight for the agent, landing leaves it so and gives nobody a key.
LEMMA LandWithoutAgent ==
  ASSUME CoreTypes, ~InFlight("agent"), NEW i \in DOMAIN flight, flight' = Without(i),
         NEW t, NEW k, NEW d \in Landed(core, flight[i], t, k), core'.agent = d.agent
  PROVE  ~InFlight("agent")' /\ core'.agent = core.agent
<1>1. /\ \A j \in DOMAIN flight' : j < i => j \in DOMAIN flight /\ flight'[j] = flight[j]
      /\ \A j \in DOMAIN flight' : ~(j < i) => j + 1 \in DOMAIN flight /\ flight'[j] = flight[j + 1]
  BY LeftSeq DEF CoreTypes
<1>2. ~InFlight("agent")'
  BY <1>1 DEF InFlight
<1>3. d \in Like(core)
  BY LandedType DEF CoreTypes, InFlight
<1> QED BY <1>2, <1>3 DEF Like
=============================================================================
