---------------------------- MODULE KeyRegistry ----------------------------
(***************************************************************************)
(* The pool of agent keys (src/KeyRegistry.sol).  The operator publishes    *)
(* keys, a pool account takes the top of the free list for its trader, and  *)
(* gives the key up for good when the trader is stopped.  A free key is     *)
(* public, and anyone may give it a HyperCore account of its own, which     *)
(* makes it useless as an agent: it is then "spoiled" and is retired when   *)
(* the list is next read.                                                   *)
(***************************************************************************)
EXTENDS Integers, Sequences

CONSTANTS
  Keys,             \* key addresses
  Callers,          \* addresses that call the registry
  Accounts,         \* the callers the factory knows as pool accounts
  Traders,
  MaxSpoiledSkips,  \* MAX_SPOILED_SKIPS
  MaxBatch,         \* bound: keys in one publish, entries in one purge
  None              \* the zero address

ASSUME AddressesAssumption ==
  /\ Accounts \subseteq Callers
  /\ None \notin Keys /\ None \notin Callers /\ None \notin Traders

ASSUME BoundsAssumption == MaxSpoiledSkips \in Nat /\ MaxBatch \in Nat

VARIABLES
  state,      \* _bindings[key].state
  account,    \* _bindings[key].account
  trader,     \* _bindings[key].trader
  keyOf,      \* the key an account holds, or None
  free,       \* _free, its top at the end
  operator, pendingOperator,
  sourceSet,  \* accounts # address(0)
  exists      \* keys that have a HyperCore account (external)

bindingVars == <<state, account, trader>>
adminVars == <<operator, pendingOperator, sourceSet>>
vars == <<state, account, trader, keyOf, free, operator, pendingOperator,
          sourceSet, exists>>

States == {"Unknown", "Free", "Bound", "Retired"}

TypeOK ==
  /\ state \in [Keys -> States]
  /\ account \in [Keys -> Callers \cup {None}]
  /\ trader \in [Keys -> Traders \cup {None}]
  /\ keyOf \in [Callers -> Keys \cup {None}]
  /\ free \in Seq(Keys)
  /\ operator \in Callers /\ pendingOperator \in Callers \cup {None}
  /\ sourceSet \in BOOLEAN
  /\ exists \subseteq Keys

Init ==
  /\ state = [k \in Keys |-> "Unknown"]
  /\ account = [k \in Keys |-> None]
  /\ trader = [k \in Keys |-> None]
  /\ keyOf = [c \in Callers |-> None]
  /\ free = <<>>
  /\ operator \in Callers /\ pendingOperator = None
  /\ sourceSet = FALSE
  /\ exists = {}

----------------------------------------------------------------------------
(* The operator. *)

SetAccountSource(c) ==
  /\ c = operator
  /\ ~sourceSet
  /\ sourceSet' = TRUE
  /\ UNCHANGED <<bindingVars, keyOf, free, operator, pendingOperator, exists>>

TransferOperator(c, to) ==
  /\ c = operator
  /\ pendingOperator' = to
  /\ UNCHANGED <<bindingVars, keyOf, free, operator, sourceSet, exists>>

AcceptOperator(c) ==
  /\ c = pendingOperator
  /\ operator' = c
  /\ pendingOperator' = None
  /\ UNCHANGED <<bindingVars, keyOf, free, sourceSet, exists>>

\* Fault: a listed key would do.
AnyUnserved(k) == state[k] \in {"Unknown", "Free"} /\ k \notin exists
\* Fault: a used key would do.
AnyNotListed(k) == state[k] # "Free" /\ k \notin exists
New(k) == state[k] = "Unknown" /\ k \notin exists

\* One bad key reverts the whole batch; a key named twice is not new the
\* second time.
Publish(c, batch) ==
  /\ c = operator
  /\ \A i, j \in DOMAIN batch : batch[i] = batch[j] => i = j
  /\ \A i \in DOMAIN batch : New(batch[i])
  /\ state' = [k \in Keys |-> IF \E i \in DOMAIN batch : batch[i] = k
                                THEN "Free" ELSE state[k]]
  /\ free' = free \o batch
  /\ UNCHANGED <<account, trader, keyOf, adminVars, exists>>

----------------------------------------------------------------------------
(* The accounts. *)

KnownAccount(c) == sourceSet /\ c \in Accounts

\* The keys of the free list above position i.
Above(i) == {free[j] : j \in (i + 1)..Len(free)}

\* Position i holds the live key nearest to the top, and no more spoiled keys
\* lie on it than one call skips.
Reachable(i) ==
  /\ i \in DOMAIN free
  /\ free[i] \notin exists
  /\ Above(i) \subseteq exists
  /\ Len(free) - i <= MaxSpoiledSkips

\* The spoiled keys above the one handed out are retired in the same call.  If
\* none is reachable the call reverts, and with it every retirement it made.
Assign(a, t) ==
  /\ KnownAccount(a)
  /\ keyOf[a] = None
  /\ \E i \in DOMAIN free :
       /\ Reachable(i)
       /\ state' = [k \in Keys |-> IF k = free[i] THEN "Bound"
                                   ELSE IF k \in Above(i) THEN "Retired"
                                   ELSE state[k]]
       /\ account' = [account EXCEPT ![free[i]] = a]
       /\ trader' = [trader EXCEPT ![free[i]] = t]
       /\ keyOf' = [keyOf EXCEPT ![a] = free[i]]
       /\ free' = SubSeq(free, 1, i - 1)
  /\ UNCHANGED <<adminVars, exists>>

\* Where a purge of at most max keys stops: when it has done as many, or at a
\* live key or the bottom.
StopsAt(max, left) ==
  /\ Len(free) - left <= max
  /\ Above(left) \subseteq exists
  /\ (Len(free) - left < max /\ left # 0) => free[left] \notin exists

\* Fault: retires them where they are.
PurgeInPlace(max) ==
  /\ \E left \in 0..(Len(free) - 1) :
       /\ StopsAt(max, left)
       /\ state' = [k \in Keys |-> IF k \in Above(left) THEN "Retired" ELSE state[k]]
  /\ UNCHANGED <<account, trader, keyOf, free, adminVars, exists>>
PurgeSpoiled(max) ==
  /\ \E left \in 0..(Len(free) - 1) :
       /\ StopsAt(max, left)
       /\ state' = [k \in Keys |-> IF k \in Above(left) THEN "Retired" ELSE state[k]]
       /\ free' = SubSeq(free, 1, left)
  /\ UNCHANGED <<account, trader, keyOf, adminVars, exists>>

\* Fault: keeps the account's key.
RetireForgetsKeyOf(c, k) ==
  /\ state[k] = "Bound" /\ account[k] = c
  /\ state' = [state EXCEPT ![k] = "Retired"]
  /\ UNCHANGED <<account, trader, keyOf, free, adminVars, exists>>
Retire(c, k) ==
  /\ state[k] = "Bound" /\ account[k] = c
  /\ state' = [state EXCEPT ![k] = "Retired"]
  /\ keyOf' = [keyOf EXCEPT ![c] = IF @ = k THEN None ELSE @]
  /\ UNCHANGED <<account, trader, free, adminVars, exists>>

\* HyperCore: somebody sends the smallest amount to a key and creates its account.
Spoil(k) ==
  /\ k \notin exists
  /\ exists' = exists \cup {k}
  /\ UNCHANGED <<bindingVars, keyOf, free, adminVars>>

Batches == UNION {[1..n -> Keys] : n \in 1..MaxBatch}

Next ==
  \/ \E c \in Callers : SetAccountSource(c)
  \/ \E c \in Callers, to \in Callers \cup {None} : TransferOperator(c, to)
  \/ \E c \in Callers : AcceptOperator(c)
  \/ \E c \in Callers, batch \in Batches : Publish(c, batch)
  \/ \E a \in Callers, t \in Traders : Assign(a, t)
  \/ \E max \in 1..MaxBatch : PurgeSpoiled(max)
  \/ \E c \in Callers, k \in Keys : Retire(c, k)
  \/ \E k \in Keys : Spoil(k)

Spec == Init /\ [][Next]_vars

\* Anyone may purge, and the app does when a sale meets TooManySpoiledKeys.
FairSpec == Spec /\ WF_vars(\E max \in 1..MaxBatch : PurgeSpoiled(max))

----------------------------------------------------------------------------
(* Properties. *)

\* The two maps of the contract say the same thing: the key an account holds is
\* bound to it, and a bound key is the one its account holds (assign, retire).
MapsAgree ==
  \A k \in Keys, a \in Callers :
    (keyOf[a] = k) <=> (state[k] = "Bound" /\ account[k] = a)

\* The free list holds exactly the keys marked Free, each of them once, so no
\* key is handed out twice and none is lost from the list (publish, assign,
\* purgeSpoiled).
FreeListExact ==
  /\ \A i, j \in DOMAIN free : free[i] = free[j] => i = j
  /\ \A k \in Keys : state[k] = "Free" <=> \E i \in DOMAIN free : free[i] = k

\* Only an account of the factory ever holds a key, and for a named trader.
BoundToAccounts ==
  \A k \in Keys : state[k] = "Bound" => account[k] \in Accounts /\ trader[k] \in Traders

KeyGoesOn(k) ==
  /\ state[k] = "Retired" => state'[k] = "Retired"
  /\ state[k] \in {"Bound", "Retired"} =>
       /\ state'[k] \in {"Bound", "Retired"}
       /\ account'[k] = account[k] /\ trader'[k] = trader[k]

\* A key that once served a trader never serves another account or another
\* trader, and a retired key never comes back: the gateway may cache "retired"
\* and the audit trail of a key names one trader (assign, retire, _spoil).
OneServiceInLife == [][\A k \in Keys : KeyGoesOn(k)]_vars

\* Spoiled keys stacked on live ones delay a sale but do not end sales: as long
\* as a live key is left in the list, purging brings one within reach of assign
\* (the reason purgeSpoiled exists, KeyRegistry.sol:138-140).
HasLiveKey == \E i \in DOMAIN free : free[i] \notin exists
LiveKeyWithinReach == HasLiveKey ~> ((\E i \in DOMAIN free : Reachable(i)) \/ ~HasLiveKey)
=============================================================================
