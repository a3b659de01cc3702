------------------------- MODULE KeyRegistryProofs -------------------------
(***************************************************************************)
(* What holds of the key registry for every set of keys, accounts and       *)
(* traders, every batch and every bound on skips.                           *)
(*                                                                         *)
(* The invariant MapsAgree is not inductive by itself: that the key an      *)
(* account is handed serves nobody else follows from its being Free, which  *)
(* only FreeListExact says of the entries of the list.  RegistryInv is      *)
(* their conjunction with the types.                                        *)
(***************************************************************************)
EXTENDS KeyRegistry, TLAPS

RegistryInv == TypeOK /\ MapsAgree /\ FreeListExact /\ BoundToAccounts

(* The first n entries of a list without duplicates, for the pops of assign *)
(* and purgeSpoiled.                                                        *)
LEMMA PrefixFacts ==
  ASSUME NEW s \in Seq(Keys), NEW n \in 0..Len(s)
  PROVE  /\ SubSeq(s, 1, n) \in Seq(Keys)
         /\ DOMAIN SubSeq(s, 1, n) = 1..n
         /\ \A i \in 1..n : SubSeq(s, 1, n)[i] = s[i]
  OBVIOUS

(* What publish appends: the old entries keep their places and the batch    *)
(* follows them.                                                            *)
LEMMA AppendFacts ==
  ASSUME NEW s \in Seq(Keys), NEW b \in Seq(Keys)
  PROVE  /\ s \o b \in Seq(Keys)
         /\ DOMAIN (s \o b) = 1..(Len(s) + Len(b))
         /\ \A i \in 1..Len(s) : (s \o b)[i] = s[i]
         /\ \A i \in 1..Len(b) : (s \o b)[Len(s) + i] = b[i]
         /\ \A i \in DOMAIN (s \o b) :
              i \in 1..Len(s) \/ \E j \in 1..Len(b) : i = Len(s) + j
<1>1. /\ s \o b \in Seq(Keys)
      /\ DOMAIN (s \o b) = 1..(Len(s) + Len(b))
      /\ \A i \in 1..Len(s) : (s \o b)[i] = s[i]
      /\ \A i \in 1..Len(b) : (s \o b)[Len(s) + i] = b[i]
  OBVIOUS
<1>2. ASSUME NEW i \in 1..(Len(s) + Len(b)), i \notin 1..Len(s)
      PROVE  i - Len(s) \in 1..Len(b) /\ i = Len(s) + (i - Len(s))
  BY <1>2
<1> QED BY <1>1, <1>2

(* Popping the list down to its first `left` entries and marking what was   *)
(* above them anything but Free keeps the list exact.                       *)
LEMMA PopKeepsExact ==
  ASSUME TypeOK, FreeListExact, NEW left \in 0..Len(free),
         free' = SubSeq(free, 1, left),
         \A k \in Above(left) : state'[k] # "Free",
         \A k \in Keys \ Above(left) : state'[k] = "Free" <=> state[k] = "Free"
  PROVE  FreeListExact'
<1>1. free \in Seq(Keys)
  BY DEF TypeOK
<1>2. DOMAIN free' = 1..left /\ (\A i \in 1..left : free'[i] = free[i])
  BY <1>1, PrefixFacts
<1>3. \A i \in DOMAIN free : i \in 1..left \/ free[i] \in Above(left)
  BY <1>1 DEF Above
<1>4. \A i \in 1..left : free[i] \notin Above(left)
  BY <1>1 DEF Above, FreeListExact
<1>5. \A i, j \in DOMAIN free' : free'[i] = free'[j] => i = j
  BY <1>1, <1>2 DEF FreeListExact
<1>6. ASSUME NEW k \in Keys
      PROVE  state'[k] = "Free" <=> \E i \in DOMAIN free' : free'[i] = k
  <2>1. CASE k \in Above(left)
    BY <1>2, <1>4, <2>1
  <2>2. CASE k \notin Above(left)
    <3>1. state'[k] = "Free" <=> \E i \in DOMAIN free : free[i] = k
      BY <2>2 DEF FreeListExact
    <3>2. (\E i \in DOMAIN free : free[i] = k) <=> (\E i \in 1..left : free[i] = k)
      BY <1>1, <1>3, <2>2
    <3> QED BY <1>2, <3>1, <3>2
  <2> QED BY <2>1, <2>2
<1> QED BY <1>5, <1>6 DEF FreeListExact

(* Every key above a position of the list is a Free key.                    *)
LEMMA AboveIsFree ==
  ASSUME TypeOK, FreeListExact, NEW left \in 0..Len(free)
  PROVE  \A k \in Above(left) : k \in Keys /\ state[k] = "Free"
<1> SUFFICES ASSUME NEW k \in Above(left) PROVE k \in Keys /\ state[k] = "Free"
  OBVIOUS
<1>1. PICK j \in (left + 1)..Len(free) : k = free[j]
  BY DEF Above
<1>2. free \in Seq(Keys) /\ j \in DOMAIN free
  BY DEF TypeOK
<1>3. free[j] \in Keys
  BY <1>2
<1> QED BY <1>1, <1>2, <1>3 DEF FreeListExact

LEMMA InitRegistryInv == Init => RegistryInv
<1> SUFFICES ASSUME Init PROVE RegistryInv
  OBVIOUS
<1> USE DEF Init
<1>1. TypeOK
  <2>1. free \in Seq(Keys)
    OBVIOUS
  <2> QED BY <2>1 DEF TypeOK, States
<1>2. MapsAgree
  BY AddressesAssumption DEF MapsAgree
<1>3. FreeListExact
  BY DEF FreeListExact
<1>4. BoundToAccounts
  BY DEF BoundToAccounts
<1> QED BY <1>1, <1>2, <1>3, <1>4 DEF RegistryInv

LEMMA PublishStep ==
  ASSUME RegistryInv, NEW c \in Callers, NEW batch \in Batches, Publish(c, batch)
  PROVE  RegistryInv'
<1> USE DEF RegistryInv
<1>1. batch \in Seq(Keys) /\ free \in Seq(Keys)
  BY BoundsAssumption DEF Batches, TypeOK
<1>2. /\ free' \in Seq(Keys)
      /\ DOMAIN free' = 1..(Len(free) + Len(batch))
      /\ \A i \in 1..Len(free) : free'[i] = free[i]
      /\ \A i \in 1..Len(batch) : free'[Len(free) + i] = batch[i]
      /\ \A i \in DOMAIN free' :
           i \in 1..Len(free) \/ \E j \in 1..Len(batch) : i = Len(free) + j
  BY <1>1, AppendFacts DEF Publish
<1>3. /\ state' = [k \in Keys |-> IF \E i \in DOMAIN batch : batch[i] = k
                                    THEN "Free" ELSE state[k]]
      /\ UNCHANGED <<account, trader, keyOf, operator, pendingOperator, sourceSet, exists>>
      /\ \A i \in DOMAIN batch : state[batch[i]] = "Unknown"
      /\ \A i, j \in DOMAIN batch : batch[i] = batch[j] => i = j
  BY DEF Publish, New, adminVars
<1>4. TypeOK'
  BY <1>2, <1>3 DEF TypeOK, States
<1>5. \A k \in Keys : state'[k] = "Bound" <=> state[k] = "Bound"
  BY <1>1, <1>3
<1>6. MapsAgree' /\ BoundToAccounts'
  BY <1>3, <1>5 DEF MapsAgree, BoundToAccounts
<1>7. DOMAIN batch = 1..Len(batch) /\ DOMAIN free = 1..Len(free)
  BY <1>1
<1>8. \A i \in 1..Len(free), j \in 1..Len(batch) : free[i] # batch[j]
  BY <1>1, <1>3, <1>7 DEF FreeListExact
<1>9. \A i, j \in DOMAIN free' : free'[i] = free'[j] => i = j
  <2> SUFFICES ASSUME NEW i \in DOMAIN free', NEW j \in DOMAIN free', free'[i] = free'[j]
               PROVE  i = j
    OBVIOUS
  <2>1. CASE i \in 1..Len(free) /\ j \in 1..Len(free)
    BY <1>2, <1>7, <2>1 DEF FreeListExact
  <2>2. CASE i \notin 1..Len(free) /\ j \notin 1..Len(free)
    BY <1>2, <1>3, <1>7, <2>2
  <2>3. CASE i \in 1..Len(free) /\ j \notin 1..Len(free)
    BY <1>2, <1>8, <2>3
  <2>4. CASE i \notin 1..Len(free) /\ j \in 1..Len(free)
    BY <1>2, <1>8, <2>4
  <2> QED BY <2>1, <2>2, <2>3, <2>4
<1>10. ASSUME NEW k \in Keys
       PROVE  state'[k] = "Free" <=> \E i \in DOMAIN free' : free'[i] = k
  <2>1. state'[k] = "Free" <=>
          (\E i \in 1..Len(batch) : batch[i] = k) \/ (\E i \in 1..Len(free) : free[i] = k)
    BY <1>3, <1>7 DEF FreeListExact
  <2>2. (\E i \in DOMAIN free' : free'[i] = k) =>
          (\E i \in 1..Len(batch) : batch[i] = k) \/ (\E i \in 1..Len(free) : free[i] = k)
    BY <1>2
  <2>3. ASSUME NEW i \in 1..Len(batch), batch[i] = k
        PROVE  \E j \in DOMAIN free' : free'[j] = k
    <3>1. Len(free) + i \in DOMAIN free'
      BY <1>1, <1>2
    <3> QED BY <1>2, <2>3, <3>1
  <2>4. ASSUME NEW i \in 1..Len(free), free[i] = k
        PROVE  \E j \in DOMAIN free' : free'[j] = k
    <3>1. i \in DOMAIN free'
      BY <1>1, <1>2
    <3> QED BY <1>2, <2>4, <3>1
  <2> QED BY <2>1, <2>2, <2>3, <2>4
<1> QED BY <1>4, <1>6, <1>9, <1>10 DEF FreeListExact

LEMMA AssignStep ==
  ASSUME RegistryInv, NEW a \in Callers, NEW t \in Traders, Assign(a, t)
  PROVE  RegistryInv'
<1> USE DEF RegistryInv
<1>1. PICK i \in DOMAIN free :
        /\ state' = [k \in Keys |-> IF k = free[i] THEN "Bound"
                                    ELSE IF k \in Above(i) THEN "Retired"
                                    ELSE state[k]]
        /\ account' = [account EXCEPT ![free[i]] = a]
        /\ trader' = [trader EXCEPT ![free[i]] = t]
        /\ keyOf' = [keyOf EXCEPT ![a] = free[i]]
        /\ free' = SubSeq(free, 1, i - 1)
  BY DEF Assign
<1>2. /\ a \in Accounts /\ keyOf[a] = None
      /\ UNCHANGED <<operator, pendingOperator, sourceSet, exists>>
  BY DEF Assign, KnownAccount, adminVars
<1>3. free \in Seq(Keys) /\ i \in 1..Len(free) /\ free[i] \in Keys /\ i - 1 \in 0..Len(free)
  BY DEF TypeOK
<1>4. \A k \in Above(i) : state[k] = "Free"
  BY <1>3, AboveIsFree
<1>5. state[free[i]] = "Free"
  BY <1>3 DEF FreeListExact
<1>6. TypeOK'
  <2>1. free' \in Seq(Keys)
    BY <1>1, <1>3, PrefixFacts
  <2> QED BY <1>1, <1>2, <1>3, <2>1 DEF TypeOK, States
<1>7. \A k \in Keys : state'[k] = "Bound" <=> state[k] = "Bound" \/ k = free[i]
  BY <1>1, <1>3, <1>4
<1>8. MapsAgree'
  <2> SUFFICES ASSUME NEW k \in Keys, NEW b \in Callers
               PROVE  (keyOf'[b] = k) <=> (state'[k] = "Bound" /\ account'[k] = b)
    BY DEF MapsAgree
  <2>1. CASE k = free[i]
    BY <1>1, <1>2, <1>3, <1>5, <2>1, AddressesAssumption DEF MapsAgree, TypeOK
  <2>2. CASE k # free[i]
    BY <1>1, <1>2, <1>3, <1>7, <2>2, AddressesAssumption DEF MapsAgree, TypeOK
  <2> QED BY <2>1, <2>2
<1>9. BoundToAccounts'
  BY <1>1, <1>2, <1>3, <1>7 DEF BoundToAccounts, TypeOK
<1>10. FreeListExact'
  <2>1. Above(i - 1) = Above(i) \cup {free[i]}
    BY <1>3 DEF Above
  <2>2. \A k \in Above(i - 1) : state'[k] # "Free"
    BY <1>1, <1>3, <2>1 DEF Above
  <2>3. \A k \in Keys \ Above(i - 1) : state'[k] = state[k]
    BY <1>1, <2>1
  <2> QED BY <1>1, <1>3, <2>2, <2>3, PopKeepsExact
<1> QED BY <1>6, <1>8, <1>9, <1>10

LEMMA PurgeStep ==
  ASSUME RegistryInv, NEW max \in 1..MaxBatch, PurgeSpoiled(max)
  PROVE  RegistryInv'
<1> USE DEF RegistryInv
<1>1. PICK left \in 0..(Len(free) - 1) :
        /\ state' = [k \in Keys |-> IF k \in Above(left) THEN "Retired" ELSE state[k]]
        /\ free' = SubSeq(free, 1, left)
  BY DEF PurgeSpoiled
<1>2. UNCHANGED <<account, trader, keyOf, operator, pendingOperator, sourceSet, exists>>
  BY DEF PurgeSpoiled, adminVars
<1>3. free \in Seq(Keys) /\ left \in 0..Len(free)
  BY DEF TypeOK
<1>4. \A k \in Above(left) : k \in Keys /\ state[k] = "Free"
  BY <1>3, AboveIsFree
<1>5. TypeOK'
  <2>1. free' \in Seq(Keys)
    BY <1>1, <1>3, PrefixFacts
  <2> QED BY <1>1, <1>2, <2>1 DEF TypeOK, States
<1>6. \A k \in Keys : state'[k] = "Bound" <=> state[k] = "Bound"
  BY <1>1, <1>4
<1>7. MapsAgree' /\ BoundToAccounts'
  BY <1>2, <1>6 DEF MapsAgree, BoundToAccounts
<1>8. FreeListExact'
  <2>1. \A k \in Above(left) : state'[k] # "Free"
    BY <1>1, <1>4
  <2>2. \A k \in Keys \ Above(left) : state'[k] = state[k]
    BY <1>1
  <2> QED BY <1>1, <1>3, <2>1, <2>2, PopKeepsExact
<1> QED BY <1>5, <1>7, <1>8

LEMMA RetireStep ==
  ASSUME RegistryInv, NEW c \in Callers, NEW k \in Keys, Retire(c, k)
  PROVE  RegistryInv'
<1> USE DEF RegistryInv
<1>1. /\ state[k] = "Bound" /\ account[k] = c
      /\ state' = [state EXCEPT ![k] = "Retired"]
      /\ keyOf' = [keyOf EXCEPT ![c] = IF @ = k THEN None ELSE @]
      /\ UNCHANGED <<account, trader, free, operator, pendingOperator, sourceSet, exists>>
  BY DEF Retire, adminVars
<1>2. keyOf[c] = k
  BY <1>1 DEF MapsAgree
<1>3. TypeOK'
  BY <1>1 DEF TypeOK, States
<1>4. MapsAgree'
  BY <1>1, <1>2, AddressesAssumption DEF MapsAgree, TypeOK
<1>5. BoundToAccounts'
  BY <1>1 DEF BoundToAccounts, TypeOK
<1>6. FreeListExact'
  BY <1>1 DEF FreeListExact, TypeOK
<1> QED BY <1>3, <1>4, <1>5, <1>6

(* The operator's own changes and a key's new HyperCore account touch none  *)
(* of the maps.                                                             *)
LEMMA OtherStep ==
  ASSUME RegistryInv, TypeOK', UNCHANGED <<state, account, trader, keyOf, free>>
  PROVE  RegistryInv'
BY DEF RegistryInv, MapsAgree, FreeListExact, BoundToAccounts

LEMMA NextRegistryInv == RegistryInv /\ [Next]_vars => RegistryInv'
<1> SUFFICES ASSUME RegistryInv, [Next]_vars PROVE RegistryInv'
  OBVIOUS
<1>0. TypeOK
  BY DEF RegistryInv
<1>1. ASSUME NEW c \in Callers, SetAccountSource(c) PROVE RegistryInv'
  <2>1. TypeOK'
    BY <1>0, <1>1 DEF SetAccountSource, bindingVars, TypeOK
  <2> QED BY <1>1, <2>1, OtherStep DEF SetAccountSource, bindingVars
<1>2. ASSUME NEW c \in Callers, NEW to \in Callers \cup {None}, TransferOperator(c, to)
      PROVE  RegistryInv'
  <2>1. TypeOK'
    BY <1>0, <1>2 DEF TransferOperator, bindingVars, TypeOK
  <2> QED BY <1>2, <2>1, OtherStep DEF TransferOperator, bindingVars
<1>3. ASSUME NEW c \in Callers, AcceptOperator(c) PROVE RegistryInv'
  <2>1. TypeOK'
    BY <1>0, <1>3 DEF AcceptOperator, bindingVars, TypeOK
  <2> QED BY <1>3, <2>1, OtherStep DEF AcceptOperator, bindingVars
<1>4. ASSUME NEW c \in Callers, NEW batch \in Batches, Publish(c, batch) PROVE RegistryInv'
  BY <1>4, PublishStep
<1>5. ASSUME NEW a \in Callers, NEW t \in Traders, Assign(a, t) PROVE RegistryInv'
  BY <1>5, AssignStep
<1>6. ASSUME NEW max \in 1..MaxBatch, PurgeSpoiled(max) PROVE RegistryInv'
  BY <1>6, PurgeStep
<1>7. ASSUME NEW c \in Callers, NEW k \in Keys, Retire(c, k) PROVE RegistryInv'
  BY <1>7, RetireStep
<1>8. ASSUME NEW k \in Keys, Spoil(k) PROVE RegistryInv'
  <2>1. TypeOK'
    BY <1>0, <1>8 DEF Spoil, bindingVars, adminVars, TypeOK
  <2> QED BY <1>8, <2>1, OtherStep DEF Spoil, bindingVars
<1>9. CASE UNCHANGED vars
  <2>1. TypeOK'
    BY <1>0, <1>9 DEF vars, TypeOK
  <2> QED BY <1>9, <2>1, OtherStep DEF vars
<1> QED BY <1>1, <1>2, <1>3, <1>4, <1>5, <1>6, <1>7, <1>8, <1>9 DEF Next

(* Every variable of the registry keeps its type, and the conjunction that  *)
(* the other theorems rest on holds in every reachable state.               *)
THEOREM RegistryInvariant == Spec => []RegistryInv
<1> QED BY InitRegistryInv, NextRegistryInv, PTL DEF Spec

(* The types, for every instance (KeyRegistry.sol's storage).               *)
THEOREM TypesHold == Spec => []TypeOK
<1>1. RegistryInv => TypeOK
  BY DEF RegistryInv
<1> QED BY <1>1, RegistryInvariant, PTL

(* keyOf and the bindings never disagree, whatever is published, sold,      *)
(* spoiled, purged or retired, in any order.                                *)
THEOREM MapsAlwaysAgree == Spec => []MapsAgree
<1>1. RegistryInv => MapsAgree
  BY DEF RegistryInv
<1> QED BY <1>1, RegistryInvariant, PTL

(* The free list is exactly the Free keys, each once.                       *)
THEOREM FreeListAlwaysExact == Spec => []FreeListExact
<1>1. RegistryInv => FreeListExact
  BY DEF RegistryInv
<1> QED BY <1>1, RegistryInvariant, PTL

(* Only the factory's accounts hold keys.                                   *)
THEOREM KeysOnlyOnAccounts == Spec => []BoundToAccounts
<1>1. RegistryInv => BoundToAccounts
  BY DEF RegistryInv
<1> QED BY <1>1, RegistryInvariant, PTL

(* One step of the life of a key.  Assign and purge move Free keys only,    *)
(* which is what the exactness of the free list gives.                      *)
LEMMA KeyGoesOnStep ==
  ASSUME RegistryInv, [Next]_vars
  PROVE  [\A k \in Keys : KeyGoesOn(k)]_vars
<1> SUFFICES ASSUME NEW k \in Keys PROVE KeyGoesOn(k)
  OBVIOUS
<1> USE DEF RegistryInv
<1>1. ASSUME UNCHANGED <<state, account, trader>> PROVE KeyGoesOn(k)
  BY <1>1 DEF KeyGoesOn
<1>2. ASSUME NEW c \in Callers, NEW batch \in Batches, Publish(c, batch) PROVE KeyGoesOn(k)
  <2>1. UNCHANGED <<account, trader>>
    BY <1>2 DEF Publish
  <2>2. (\E i \in DOMAIN batch : batch[i] = k) => state[k] = "Unknown"
    BY <1>2 DEF Publish, New
  <2>3. state'[k] = IF \E i \in DOMAIN batch : batch[i] = k THEN "Free" ELSE state[k]
    BY <1>2 DEF Publish
  <2> QED BY <2>1, <2>2, <2>3 DEF KeyGoesOn
<1>3. ASSUME NEW a \in Callers, NEW t \in Traders, Assign(a, t) PROVE KeyGoesOn(k)
  <2>1. PICK i \in DOMAIN free :
          /\ state' = [q \in Keys |-> IF q = free[i] THEN "Bound"
                                      ELSE IF q \in Above(i) THEN "Retired"
                                      ELSE state[q]]
          /\ account' = [account EXCEPT ![free[i]] = a]
          /\ trader' = [trader EXCEPT ![free[i]] = t]
    BY <1>3 DEF Assign
  <2>2. i \in 0..Len(free) /\ free[i] \in Keys /\ state[free[i]] = "Free"
    BY DEF TypeOK, FreeListExact
  <2>3. \A q \in Above(i) : state[q] = "Free"
    BY <2>2, AboveIsFree
  <2> QED BY <2>1, <2>2, <2>3 DEF KeyGoesOn, TypeOK
<1>4. ASSUME NEW max \in 1..MaxBatch, PurgeSpoiled(max) PROVE KeyGoesOn(k)
  <2>1. PICK left \in 0..(Len(free) - 1) :
          state' = [q \in Keys |-> IF q \in Above(left) THEN "Retired" ELSE state[q]]
    BY <1>4 DEF PurgeSpoiled
  <2>2. UNCHANGED <<account, trader>>
    BY <1>4 DEF PurgeSpoiled
  <2>3. left \in 0..Len(free)
    BY DEF TypeOK
  <2>4. \A q \in Above(left) : state[q] = "Free"
    BY <2>3, AboveIsFree
  <2> QED BY <2>1, <2>2, <2>4 DEF KeyGoesOn
<1>5. ASSUME NEW c \in Callers, NEW q \in Keys, Retire(c, q) PROVE KeyGoesOn(k)
  BY <1>5 DEF Retire, KeyGoesOn, TypeOK
<1>6. CASE UNCHANGED vars
  BY <1>1, <1>6 DEF vars
<1> QED
  BY <1>1, <1>2, <1>3, <1>4, <1>5, <1>6
  DEF Next, SetAccountSource, TransferOperator, AcceptOperator, Spoil, bindingVars

(* No key ever serves a second account or a second trader, and none comes   *)
(* back from retirement.                                                    *)
THEOREM OneServiceInLifeHolds == Spec => OneServiceInLife
<1> QED BY RegistryInvariant, KeyGoesOnStep, PTL DEF Spec, OneServiceInLife
=============================================================================
