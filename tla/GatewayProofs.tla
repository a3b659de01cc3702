---------------------------- MODULE GatewayProofs ----------------------------
(***************************************************************************)
(* The gateway's process, for any requests, addresses, clients, records,      *)
(* expiries and bounds: what its orders, its faucet and its owners' records   *)
(* keep to, route by route, and so what the whole process does.             *)
(***************************************************************************)
EXTENDS Gateway, FiniteSetTheorems, TLAPS, SequenceTheorems, WellFoundedInduction

----------------------------------------------------------------------------
(* One route at a time: what a behaviour of the process does on each.         *)

FaucetNext == FaucetSteps \/ FaucetCrash
FaucetSpec == FaucetInit /\ [][FaucetNext]_faucetVars

LEMMA GatewayIsRoutes == GatewaySpec => Spec /\ ContactsSpec /\ FaucetSpec
<1>1. GatewayInit => Init /\ ContactsInit /\ FaucetInit
  BY DEF GatewayInit
<1>2. [GatewayNext]_gatewayState => [Next]_vars /\ [ContactsNext]_contactsVars /\ [FaucetNext]_faucetVars
  <2> SUFFICES ASSUME [GatewayNext]_gatewayState
               PROVE  [Next]_vars /\ [ContactsNext]_contactsVars /\ [FaucetNext]_faucetVars
    OBVIOUS
  <2>1. CASE OnOrders
    BY <2>1 DEF OnOrders, Next
  <2>2. CASE OnFaucet
    BY <2>2 DEF OnFaucet, FaucetNext
  <2>3. CASE OnContacts
    BY <2>3 DEF OnContacts, ContactsNext
  <2>4. CASE OnLines
    BY <2>4 DEF OnLines
  <2>5. CASE ProcessEnds
    BY <2>5 DEF ProcessEnds, Next, ContactsNext, FaucetNext
  <2>6. CASE UNCHANGED gatewayState
    BY <2>6 DEF gatewayState
  <2> QED BY <2>1, <2>2, <2>3, <2>4, <2>5, <2>6 DEF GatewayNext
<1> QED BY <1>1, <1>2, PTL DEF GatewaySpec, Spec, ContactsSpec, FaucetSpec

----------------------------------------------------------------------------
(* The owners' records.  KeptIsServed is not inductive: that a stop loses      *)
(* nothing needs the process to count every whole line there is, so that what *)
(* it writes next is written over part of a line only.                       *)

\* The record served is the newest of a file's lines.
Newest(n, wrote) ==
  /\ n \in Nat
  /\ n = 0 \/ \E j \in DOMAIN wrote : wrote[j] = n
  /\ \A j \in DOMAIN wrote : wrote[j] <= n

ContactsInv ==
  /\ lines \in Seq(Records) /\ end = Len(lines)
  /\ Newest(last, lines)
  /\ kept \subseteq Records /\ \A r \in kept : r <= last

LEMMA LinesAreNonces ==
  ASSUME NEW wrote \in Seq(Records)
  PROVE  DOMAIN wrote = 1..Len(wrote) /\ \A j \in DOMAIN wrote : wrote[j] \in Nat /\ wrote[j] # 0
<1>1. DOMAIN wrote = 1..Len(wrote) /\ \A j \in 1..Len(wrote) : wrote[j] \in Records
  OBVIOUS
<1> QED BY <1>1, ContactsAssumption

LEMMA NewestIsMax ==
  ASSUME NEW wrote \in Seq(Records), NEW n, Newest(n, wrote)
  PROVE  Max({0} \cup {wrote[j] : j \in DOMAIN wrote}) = n
<1> DEFINE S == {0} \cup {wrote[j] : j \in DOMAIN wrote}
<1>1. \A j \in DOMAIN wrote : wrote[j] \in Nat
  BY LinesAreNonces
<1>2. S \subseteq Nat /\ n \in S /\ \A x \in S : x <= n
  BY <1>1 DEF Newest
<1> HIDE DEF S
<1>3. \A m \in S : (\A x \in S : x <= m) => m = n
  BY <1>2
<1>4. Max(S) = n
  BY <1>2, <1>3 DEF Max
<1> QED BY <1>4 DEF S

\* The file once a newer record is written where the process puts it.
LEMMA PlacedIsNewest ==
  ASSUME ContactsInv, NEW r \in Records, r > last
  PROVE  /\ Placed(r) \in Seq(Records) /\ Len(Placed(r)) = end + 1
         /\ Newest(r, Placed(r))
<1>1. SubSeq(lines, 1, end) = lines
  BY DEF ContactsInv
<1>2. Placed(r) = Append(lines, r)
  BY <1>1 DEF Placed
<1>3. r \in Nat /\ last \in Nat /\ \A j \in DOMAIN lines : lines[j] \in Nat /\ lines[j] <= last
  BY LinesAreNonces, ContactsAssumption DEF ContactsInv, Newest
<1>4. /\ Append(lines, r) \in Seq(Records) /\ Len(Append(lines, r)) = Len(lines) + 1
      /\ \A j \in 1..Len(lines) : Append(lines, r)[j] = lines[j]
      /\ Append(lines, r)[Len(lines) + 1] = r
  BY DEF ContactsInv
<1>5. \A j \in DOMAIN Append(lines, r) : Append(lines, r)[j] <= r
  <2> TAKE j \in DOMAIN Append(lines, r)
  <2>1. CASE j = Len(lines) + 1
    BY <1>3, <1>4, <2>1
  <2>2. CASE j \in 1..Len(lines)
    BY <1>3, <1>4, <2>2 DEF ContactsInv
  <2> QED BY <1>4, <2>1, <2>2 DEF ContactsInv
<1>6. \E j \in DOMAIN Append(lines, r) : Append(lines, r)[j] = r
  BY <1>4 DEF ContactsInv
<1> QED BY <1>2, <1>3, <1>4, <1>5, <1>6 DEF Newest, ContactsInv

LEMMA InitContactsInv == ContactsInit => ContactsInv
BY DEF ContactsInit, ContactsInv, Newest

LEMMA NextContactsInv == ContactsInv /\ [ContactsNext]_contactsVars => ContactsInv'
<1> SUFFICES ASSUME ContactsInv, [ContactsNext]_contactsVars PROVE ContactsInv'
  OBVIOUS
<1>1. ASSUME NEW r \in Records, Write(r) \/ RefuseWrite(r) \/ RefuseStale(r) PROVE ContactsInv'
  BY <1>1 DEF Write, RefuseWrite, RefuseStale, ContactsInv, Newest
<1>2. ASSUME NEW r \in Records, Keep(r) PROVE ContactsInv'
  <2>1. r > last
    BY <1>2 DEF Keep
  <2>2. lines' \in Seq(Records) /\ end' = Len(lines') /\ Newest(r, lines')
    BY <1>2, <2>1, PlacedIsNewest DEF Keep
  <2>3. \A q \in kept' : q <= last'
    <3>1. r \in Nat /\ last \in Nat /\ kept \subseteq Nat
      BY ContactsAssumption DEF ContactsInv, Newest
    <3> QED BY <1>2, <2>1, <3>1 DEF Keep, ContactsInv
  <2> QED BY <1>2, <2>2, <2>3 DEF Keep, ContactsInv, Newest
<1>3. ASSUME NEW r \in Records, KeepFails(r) PROVE ContactsInv'
  <2>1. SubSeq(lines, 1, end) = lines
    BY DEF ContactsInv
  <2> QED BY <1>3, <2>1 DEF KeepFails, ContactsInv, Newest
<1>4. CASE StopAndStart
  <2>1. ASSUME lines' = lines, Start(lines') PROVE ContactsInv'
    <3>1. last' = last
      BY <2>1, NewestIsMax DEF Start, ContactsInv
    <3> QED BY <1>4, <2>1, <3>1 DEF StopAndStart, Start, ContactsInv, Newest
  <2>2. ASSUME NEW r \in Records, r > last, lines' = Placed(r), Start(lines') PROVE ContactsInv'
    <3>1. lines' \in Seq(Records) /\ Newest(r, lines')
      BY <2>2, PlacedIsNewest
    <3>2. last' = r
      BY <2>2, <3>1, NewestIsMax DEF Start
    <3>3. r \in Nat /\ last \in Nat /\ kept \subseteq Nat
      BY ContactsAssumption DEF ContactsInv, Newest
    <3>4. kept' = kept /\ end' = Len(lines')
      BY <1>4, <2>2 DEF StopAndStart, Start
    <3>5. kept' \subseteq Records /\ \A q \in kept' : q <= last'
      BY <2>2, <3>2, <3>3, <3>4 DEF ContactsInv
    <3> QED BY <3>1, <3>2, <3>4, <3>5 DEF ContactsInv, Newest
  <2>3. SubSeq(lines, 1, end) = lines
    BY DEF ContactsInv
  <2> QED BY <1>4, <2>1, <2>2, <2>3 DEF StopAndStart
<1>5. CASE UNCHANGED contactsVars
  BY <1>5 DEF contactsVars, ContactsInv, Newest
<1> QED BY <1>1, <1>2, <1>3, <1>4, <1>5 DEF ContactsNext, ContactsSteps

LEMMA ContactsInvSuffices == ContactsInv => KeptIsServed
<1> SUFFICES ASSUME ContactsInv PROVE KeptIsServed
  OBVIOUS
<1>1. last = Max({0} \cup {lines[j] : j \in 1..end})
  BY NewestIsMax DEF ContactsInv
<1>2. \A j \in DOMAIN lines : lines[j] # 0
  BY LinesAreNonces DEF ContactsInv
<1> QED BY <1>1, <1>2 DEF ContactsInv, KeptIsServed

(* A record answered as kept is served until a newer one is, through failed    *)
(* writes and stops in the middle of one, and the file can be read (contacts.py). *)
THEOREM KeptAlwaysServed == GatewaySpec => []KeptIsServed
<1>1. ContactsInit => ContactsInv
  BY InitContactsInv
<1>2. ContactsInv /\ [ContactsNext]_contactsVars => ContactsInv'
  BY NextContactsInv
<1>3. ContactsInv => KeptIsServed
  BY ContactsInvSuffices
<1> QED BY <1>1, <1>2, <1>3, GatewayIsRoutes, PTL DEF ContactsSpec

----------------------------------------------------------------------------
(* The nonces of the gateway's own actions.  OwnNonceApart is not inductive: a *)
(* request signed again would move the nonce the action was kept apart from.  *)
(* An action is sent only for a request whose first posting has left its      *)
(* sender, and such a request is signed already (Postings).                  *)

\* A delivery its sender has posted.
Left(d) == thread[d].at \notin {"unsent", "never"}
First(d) == <<d[1], 1>>

Postings ==
  /\ DOMAIN thread = Deliveries /\ DOMAIN asked = Requests
  /\ \A d \in Deliveries : thread[d] = [at |-> thread[d].at, answer |-> thread[d].answer]
  /\ \A d \in Deliveries : Left(d) => Left(First(d))
  /\ \A d \in Deliveries : ~Left(First(d)) => Ask(d) = None

Clocks == now \in Nat /\ ownNonce \in Nat

OwnApart ==
  \A u \in used : u.own => u.by \in Deliveries /\ Left(u.by) /\ u.nonce # Ask(u.by).nonce

NonceInv == Postings /\ Clocks /\ OwnApart

LEMMA MaxOfTwo ==
  ASSUME NEW a \in Nat, NEW b \in Nat
  PROVE  Max({a, b}) \in {a, b}
<1>1. \E x \in {a, b} : \A y \in {a, b} : x >= y
  OBVIOUS
<1> QED BY <1>1 DEF Max

LEMMA NextNonceApart ==
  ASSUME Clocks, NEW avoid
  PROVE  NextNonce(avoid) \in Nat /\ NextNonce(avoid) # avoid
<1>1. Max({now, ownNonce + 1}) \in Nat
  BY MaxOfTwo DEF Clocks
<1> QED BY <1>1 DEF NextNonce

LEMMA DeliveryFacts ==
  ASSUME NEW d \in Deliveries
  PROVE  d[1] \in Requests /\ First(d) \in Deliveries /\ First(First(d)) = First(d)
BY DEF Deliveries, Requests, First

LEMMA InitNonceInv == Init => NonceInv
<1> SUFFICES ASSUME Init PROVE NonceInv
  OBVIOUS
<1>1. \A d \in Deliveries : Ask(d) = None
  BY DeliveryFacts DEF Init, IntakeInit, Ask
<1>2. PICK scene : thread = [d \in Deliveries |-> [at |-> IF d \in scene THEN "unsent" ELSE "never", answer |-> "none"]]
  BY DEF Init, IntakeInit
<1>3. \A d \in Deliveries : ~Left(d)
  BY <1>2 DEF Left
<1> QED BY <1>1, <1>2, <1>3 DEF Init, IntakeInit, NonceInv, Postings, Clocks, OwnApart

----------------------------------------------------------------------------
\* A step that signs nothing and posts nothing.
SamePostings ==
  /\ asked' = asked /\ DOMAIN thread' = Deliveries
  /\ \A d \in Deliveries : /\ thread'[d] = [at |-> thread'[d].at, answer |-> thread'[d].answer]
                           /\ thread'[d].at \in {"unsent", "never"} <=> thread[d].at \in {"unsent", "never"}

LEMMA PostingsKept ==
  ASSUME Postings, SamePostings
  PROVE  /\ Postings'
         /\ \A d \in Deliveries : Ask(d)' = Ask(d) /\ (Left(d) => Left(d)')
BY DeliveryFacts DEF Postings, SamePostings, Ask, Left, First

\* ... and sends no action of the gateway's.
LEMMA OtherStep ==
  ASSUME NonceInv, SamePostings, Clocks', \A u \in used' : u.own => u \in used
  PROVE  NonceInv'
<1>1. Postings'
  BY PostingsKept DEF NonceInv
<1>2. OwnApart'
  <2> SUFFICES ASSUME NEW u \in used', u.own
               PROVE  u.by \in Deliveries /\ Left(u.by)' /\ u.nonce # Ask(u.by)'.nonce
    BY DEF OwnApart
  <2>1. u.by \in Deliveries /\ Left(u.by) /\ u.nonce # Ask(u.by).nonce
    BY DEF NonceInv, OwnApart
  <2> QED BY <2>1, PostingsKept DEF NonceInv
<1> QED BY <1>1, <1>2 DEF NonceInv

\* A delivery's thread alone is written, and no sender takes a posting back.
MovesOn(d) ==
  /\ DOMAIN thread' = DOMAIN thread
  /\ \A e \in DOMAIN thread \ {d} : thread'[e] = thread[e]
  /\ thread'[d] = [at |-> thread'[d].at, answer |-> thread'[d].answer]
  /\ thread'[d].at \notin {"unsent", "never"}

LEMMA MovedStep ==
  ASSUME NonceInv, UNCHANGED <<asked, now>>, ownNonce' \in Nat, NEW d \in Deliveries, Left(d), MovesOn(d),
         \A u \in used' : u.own => u \in used
  PROVE  NonceInv'
<1>1. SamePostings
  BY DEF SamePostings, MovesOn, NonceInv, Postings, Left
<1>2. Clocks'
  BY DEF NonceInv, Clocks
<1> QED BY <1>1, <1>2, OtherStep

\* Nothing of it concerns the threads.
LEMMA StillStep ==
  ASSUME NonceInv, UNCHANGED <<asked, thread>>, Clocks', \A u \in used' : u.own => u \in used
  PROVE  NonceInv'
<1>1. SamePostings
  BY DEF SamePostings, NonceInv, Postings
<1> QED BY <1>1, OtherStep

\* A request is signed and posted for the first time: no action was sent for it.
LEMMA SignStep ==
  ASSUME NonceInv, NEW r \in Requests, NEW nonce, NEW expires, Sign(r, nonce, expires),
         UNCHANGED <<now, ownNonce, used>>
  PROVE  NonceInv'
<1> DEFINE d == <<r, 1>>
<1>1. d \in Deliveries /\ First(d) = d /\ ~Left(d)
  BY DEF Deliveries, Requests, First, Left, Sign
<1>2. /\ DOMAIN thread' = Deliveries /\ thread'[d] = [at |-> "wire", answer |-> thread[d].answer]
      /\ \A e \in Deliveries \ {d} : thread'[e] = thread[e]
  BY <1>1 DEF Sign, NonceInv, Postings
<1>3. /\ DOMAIN asked' = Requests
      /\ \A q \in Requests \ {r} : asked'[q] = asked[q]
  BY DEF Sign, NonceInv, Postings
<1>4. \A e \in Deliveries : Left(e)' <=> (Left(e) \/ e = d)
  BY <1>2 DEF Left
<1>5. \A e \in Deliveries : First(e) # d => e[1] \in Requests \ {r}
  BY DeliveryFacts DEF First
<1> HIDE DEF d
<1>6. Postings'
  <2>1. \A e \in Deliveries : thread'[e] = [at |-> thread'[e].at, answer |-> thread'[e].answer]
    BY <1>2 DEF NonceInv, Postings
  <2>2. \A e \in Deliveries : Left(e)' => Left(First(e))'
    BY <1>1, <1>4, DeliveryFacts DEF NonceInv, Postings, First
  <2>3. \A e \in Deliveries : ~Left(First(e))' => Ask(e)' = None
    <3> TAKE e \in Deliveries
    <3> HAVE ~Left(First(e))'
    <3>1. ~Left(First(e)) /\ First(e) # d
      BY <1>4, DeliveryFacts DEF First
    <3>2. e[1] \in Requests \ {r} /\ Ask(e) = None
      BY <1>5, <3>1 DEF NonceInv, Postings
    <3> QED BY <1>3, <3>2 DEF Ask
  <2> QED BY <1>2, <1>3, <2>1, <2>2, <2>3 DEF Postings
<1>7. OwnApart'
  <2> SUFFICES ASSUME NEW u \in used, u.own
               PROVE  u.by \in Deliveries /\ Left(u.by)' /\ u.nonce # Ask(u.by)'.nonce
    BY DEF OwnApart
  <2>1. u.by \in Deliveries /\ Left(u.by) /\ u.nonce # Ask(u.by).nonce /\ Left(First(u.by))
    BY DEF NonceInv, OwnApart, Postings
  <2>2. u.by[1] \in Requests \ {r}
    BY <1>1, <1>5, <2>1
  <2> QED BY <1>3, <1>4, <2>1, <2>2 DEF Ask
<1> QED BY <1>6, <1>7 DEF NonceInv, Clocks

LEMMA PostsAgainStep ==
  ASSUME NonceInv, NEW r \in PageAsks, asked[r] # None,
         thread' = [thread EXCEPT ![<<r, 2>>].at = "wire"],
         UNCHANGED <<asked, now, ownNonce, used>>
  PROVE  NonceInv'
<1> DEFINE d == <<r, 2>>
<1>1. d \in Deliveries /\ d[1] = r /\ First(d) # d
  BY DEF Deliveries, First
<1>2. Left(First(d))
  BY <1>1 DEF NonceInv, Postings, Ask
<1>3. /\ DOMAIN thread' = Deliveries /\ thread'[d] = [at |-> "wire", answer |-> thread[d].answer]
      /\ \A e \in Deliveries \ {d} : thread'[e] = thread[e]
  <2>1. thread' = [thread EXCEPT ![d].at = "wire"] /\ DOMAIN thread = Deliveries
    BY DEF NonceInv, Postings
  <2>2. thread[d] = [at |-> thread[d].at, answer |-> thread[d].answer]
    BY <1>1 DEF NonceInv, Postings
  <2> HIDE DEF d
  <2>3. [thread[d] EXCEPT !.at = "wire"] = [at |-> "wire", answer |-> thread[d].answer]
    BY <2>2
  <2> QED BY <1>1, <2>1, <2>3
<1>4. \A e \in Deliveries : Left(e)' <=> (Left(e) \/ e = d)
  BY <1>3 DEF Left
<1> HIDE DEF d
<1>5. Postings'
  <2>1. \A e \in Deliveries : thread'[e] = [at |-> thread'[e].at, answer |-> thread'[e].answer]
    BY <1>3 DEF NonceInv, Postings
  <2>2. \A e \in Deliveries : Left(e)' => Left(First(e))'
    BY <1>2, <1>4, DeliveryFacts DEF NonceInv, Postings
  <2>3. \A e \in Deliveries : ~Left(First(e))' => Ask(e)' = None
    BY <1>4, DeliveryFacts DEF NonceInv, Postings, Ask
  <2> QED BY <1>3, <2>1, <2>2, <2>3 DEF NonceInv, Postings
<1>6. OwnApart'
  BY <1>4 DEF NonceInv, OwnApart, Ask
<1> QED BY <1>5, <1>6 DEF NonceInv, Clocks

----------------------------------------------------------------------------
\* One delivery moves on, with what it is told if its sender still listens.
LEMMA AnsweredMovesOn ==
  ASSUME Postings, NEW d \in Deliveries, NEW answer, Answered(d, answer)
  PROVE  MovesOn(d)
<1> DEFINE told == IF d \in listens THEN answer ELSE "none"
<1>1. thread' = [thread EXCEPT ![d] = [at |-> "answered", answer |-> told]]
  BY DEF Answered, Answer
<1> HIDE DEF told
<1>2. thread'[d] = [at |-> "answered", answer |-> told]
  BY <1>1 DEF Postings
<1> QED BY <1>1, <1>2 DEF MovesOn, Left

LEMMA GoesToMovesOn ==
  ASSUME Postings, NEW d \in Deliveries,
         \/ thread' = [thread EXCEPT ![d].at = "claimed"]
         \/ thread' = [thread EXCEPT ![d].at = "held"]
         \/ thread' = [thread EXCEPT ![d].at = "submitted"]
  PROVE  MovesOn(d)
<1>1. PICK at \in {"claimed", "held", "submitted"} : thread' = [thread EXCEPT ![d].at = at]
  OBVIOUS
<1>2. thread[d] = [at |-> thread[d].at, answer |-> thread[d].answer]
  BY DEF Postings
<1>3. thread'[d] = [thread[d] EXCEPT !.at = at]
  BY <1>1 DEF Postings
<1>4. thread'[d] = [at |-> at, answer |-> thread[d].answer]
  BY <1>2, <1>3
<1> QED BY <1>1, <1>4 DEF MovesOn, Left

\* An action of the gateway's own, for a request it has in hand.
LEMMA ActForStep ==
  ASSUME NonceInv, NEW d \in Deliveries, ActFor(d)
  PROVE  NonceInv'
<1> DEFINE nonce == NextNonce(Ask(d).nonce)
           own == [nonce |-> nonce, own |-> TRUE, by |-> d]
<1>1. nonce \in Nat /\ nonce # Ask(d).nonce
  BY NextNonceApart DEF NonceInv
<1>2. Left(d)
  BY DEF ActFor, Holds, Left
<1>3. /\ UNCHANGED <<now, asked>> /\ ownNonce' = nonce
      /\ used' \in {used, used \cup {own}}
  BY DEF ActFor
<1>4. Clocks'
  BY <1>1, <1>3 DEF NonceInv, Clocks
<1>5. MovesOn(d)
  <2> Postings
    BY DEF NonceInv
  <2>1. CASE thread' = [thread EXCEPT ![d].at = "held"]
    BY <2>1, GoesToMovesOn
  <2>2. CASE Answered(d, "not_sent")
    BY <2>2, AnsweredMovesOn DEF NonceInv
  <2> QED BY <2>1, <2>2 DEF ActFor
<1> HIDE DEF nonce
<1>7. SamePostings
  BY <1>2, <1>3, <1>5 DEF SamePostings, MovesOn, NonceInv, Postings, Left
<1>8. Postings' /\ \A e \in Deliveries : Ask(e)' = Ask(e) /\ (Left(e) => Left(e)')
  BY <1>7, PostingsKept DEF NonceInv
<1>9. OwnApart'
  <2> SUFFICES ASSUME NEW u \in used', u.own
               PROVE  u.by \in Deliveries /\ Left(u.by)' /\ u.nonce # Ask(u.by)'.nonce
    BY DEF OwnApart
  <2>1. CASE u \in used
    BY <1>8, <2>1 DEF NonceInv, OwnApart
  <2>2. CASE u = own
    BY <1>1, <1>2, <1>8, <2>2
  <2> QED BY <1>3, <2>1, <2>2
<1> QED BY <1>4, <1>8, <1>9 DEF NonceInv

LEMMA LandStep ==
  ASSUME NonceInv, NEW d \in Deliveries, Land(d)
  PROVE  NonceInv'
<1>1. /\ UNCHANGED <<now, asked, ownNonce>>
      /\ used' = used \cup {[nonce |-> Ask(d).nonce, own |-> FALSE, by |-> d]}
  BY DEF Land, gatewayVars
<1>2. Clocks' /\ \A u \in used' : u.own => u \in used
  BY <1>1 DEF NonceInv, Clocks
<1>3. CASE thread' = thread
  BY <1>1, <1>2, <1>3, StillStep
<1>4. ASSUME thread[d].at = "submitted", NEW answer, thread' = [thread EXCEPT ![d].answer = answer]
      PROVE  NonceInv'
  <2>1. thread[d] = [at |-> "submitted", answer |-> thread[d].answer]
    BY <1>4 DEF NonceInv, Postings
  <2>2. thread'[d] = [thread[d] EXCEPT !.answer = answer]
    BY <1>4 DEF NonceInv, Postings
  <2>3. thread'[d] = [at |-> "submitted", answer |-> answer]
    BY <2>1, <2>2
  <2>4. MovesOn(d) /\ Left(d)
    BY <1>4, <2>3 DEF MovesOn, Left
  <2> QED BY <1>1, <1>2, <2>4, MovedStep DEF Clocks
<1> QED BY <1>3, <1>4 DEF Land

LEMMA RestartStep ==
  ASSUME NonceInv, Restart
  PROVE  NonceInv'
<1>1. /\ UNCHANGED <<now, asked, used>> /\ ownNonce' = 0
      /\ thread' = [d \in Deliveries |-> IF InGateway(d) THEN Answer(d, "unclear") ELSE thread[d]]
  BY DEF Restart, venueVars
<1>2. SamePostings
  BY <1>1 DEF SamePostings, NonceInv, Postings, InGateway, Answer
<1>3. Clocks'
  BY <1>1 DEF NonceInv, Clocks
<1> QED BY <1>1, <1>2, <1>3, OtherStep

LEMMA IntakeStepsKeep ==
  ASSUME NonceInv, IntakeSteps
  PROVE  NonceInv'
<1>1. ASSUME NEW r \in PageAsks, Sign(r, now, now + MaxExpiry), UNCHANGED <<now, gatewayVars, venueVars>>
      PROVE  NonceInv'
  BY <1>1, SignStep DEF Requests, gatewayVars, venueVars
<1>2. CASE PagePostsAgain
  BY <1>2, PostsAgainStep DEF PagePostsAgain, gatewayVars, venueVars
<1>3. ASSUME NEW d \in Deliveries, RefuseUnclaimed(d) PROVE NonceInv'
  BY <1>3, AnsweredMovesOn, MovedStep DEF RefuseUnclaimed, gatewayVars, venueVars, Left, NonceInv, Clocks
<1>4. ASSUME NEW d \in Deliveries, Claim(d) PROVE NonceInv'
  <2>1. UNCHANGED <<asked, now, ownNonce, used>> /\ Left(d)
    BY <1>4 DEF Claim, venueVars, Left
  <2>2. \/ Answered(d, "replayed") \/ Answered(d, "not_sent")
        \/ thread' = [thread EXCEPT ![d].at = "claimed"]
    BY <1>4 DEF Claim
  <2>3. MovesOn(d)
    BY <2>2, AnsweredMovesOn, GoesToMovesOn DEF NonceInv
  <2> QED BY <2>1, <2>3, MovedStep DEF NonceInv, Clocks
<1>5. ASSUME NEW d \in Deliveries, RefuseHeld(d) PROVE NonceInv'
  BY <1>5, AnsweredMovesOn, MovedStep DEF RefuseHeld, Holds, venueVars, Left, NonceInv, Clocks
<1>6. ASSUME NEW d \in Deliveries, ActFor(d) PROVE NonceInv'
  BY <1>6, ActForStep
<1>7. ASSUME NEW d \in Deliveries, Submit(d) PROVE NonceInv'
  <2>1. thread' = [thread EXCEPT ![d].at = "submitted"] /\ Postings
    BY <1>7 DEF Submit, NonceInv
  <2>2. MovesOn(d)
    BY <2>1, GoesToMovesOn
  <2> QED BY <1>7, <2>2, MovedStep DEF Submit, Holds, Left, NonceInv, Clocks
<1>8. ASSUME NEW d \in Deliveries, Land(d) PROVE NonceInv'
  BY <1>8, LandStep
<1>9. ASSUME NEW d \in Deliveries, Lost(d) PROVE NonceInv'
  BY <1>9, StillStep DEF Lost, gatewayVars, NonceInv, Clocks
<1>10. ASSUME NEW d \in Deliveries, AnswerSubmitted(d) PROVE NonceInv'
  <2>1. UNCHANGED <<asked, now, ownNonce, used>> /\ Left(d)
    BY <1>10 DEF AnswerSubmitted, venueVars, Left
  <2>2. Answered(d, thread[d].answer) \/ Answered(d, "unclear")
    BY <1>10 DEF AnswerSubmitted
  <2>3. MovesOn(d)
    BY <2>2, AnsweredMovesOn DEF NonceInv
  <2> QED BY <2>1, <2>3, MovedStep DEF NonceInv, Clocks
<1>11. CASE IntakeTick
  BY <1>11, StillStep DEF IntakeTick, wireVars, gatewayVars, venueVars, NonceInv, Clocks
<1> QED
  BY <1>1, <1>2, <1>3, <1>4, <1>5, <1>6, <1>7, <1>8, <1>9, <1>10, <1>11 DEF IntakeSteps, PageSigns

LEMMA DeskStepsKeep ==
  ASSUME NonceInv, DeskNext
  PROVE  NonceInv'
<1>1. CASE Settle \/ Kill
  BY <1>1, StillStep DEF Settle, Kill, intakeVars, gatewayVars, venueVars, NonceInv, Clocks
<1>2. ASSUME NEW r \in DeskAsks, Post(r) PROVE NonceInv'
  BY <1>2, SignStep DEF Post, Requests, gatewayVars, venueVars
<1>3. ASSUME NEW book, End(book) PROVE NonceInv'
  <2>1. UNCHANGED <<asked, now, ownNonce, used>>
    BY <1>3 DEF End, gatewayVars, venueVars
  <2>2. PICK answer : thread' = [thread EXCEPT ![<<desk.ask, 1>>].answer = answer]
    BY <1>3 DEF End
  <2>3. SamePostings
    BY <2>1, <2>2 DEF SamePostings, NonceInv, Postings
  <2>4. Clocks' /\ \A u \in used' : u.own => u \in used
    BY <2>1 DEF NonceInv, Clocks
  <2> QED BY <2>3, <2>4, OtherStep
<1>4. CASE HearAnswer \/ HearNothing
  BY <1>3, <1>4 DEF HearAnswer, HearNothing
<1> QED BY <1>1, <1>2, <1>4 DEF DeskNext

LEMMA NextNonceInv == NonceInv /\ [Next]_vars => NonceInv'
<1> SUFFICES ASSUME NonceInv, [Next]_vars PROVE NonceInv'
  OBVIOUS
<1>1. CASE UNCHANGED vars
  BY <1>1, StillStep DEF vars, intakeVars, NonceInv, Clocks
<1> QED BY <1>1, DeskStepsKeep, IntakeStepsKeep, RestartStep DEF Next, Steps

(* No action the gateway signs for a request takes the nonce the request        *)
(* itself has, whatever else is in flight and however often the process starts *)
(* (server.py, _next_nonce).                                                *)
THEOREM OwnNonceAlwaysApart == GatewaySpec => []OwnNonceApart
<1>1. Init => NonceInv
  BY InitNonceInv
<1>2. NonceInv /\ [Next]_vars => NonceInv'
  BY NextNonceInv
<1>3. NonceInv => OwnNonceApart
  BY DEF NonceInv, OwnApart, OwnNonceApart
<1> QED BY <1>1, <1>2, <1>3, GatewayIsRoutes, PTL DEF Spec


----------------------------------------------------------------------------
(* The desk's budget.  NoneForFree is not inductive: an attempt still on its   *)
(* way may be placed without a further charge, so it must be paid for already. *)

Spent == MaxOrders - OrdersLeft + kills

\* Every attempt that left and is not over is paid for.
PaidFor ==
  /\ Spent \in Nat
  /\ IsFiniteSet(OnHyperliquid \cup MayStillGo)
  /\ Cardinality(OnHyperliquid \cup MayStillGo) <= Spent

LEMMA InitPaidFor == Budget!Init => PaidFor
<1> SUFFICES ASSUME Budget!Init PROVE PaidFor
  OBVIOUS
<1>1. OnHyperliquid \cup MayStillGo = {}
  BY DEF Budget!Init
<1> QED BY <1>1, FS_EmptySet DEF Budget!Init, PaidFor, Spent

LEMMA StepPaidFor == PaidFor /\ [Budget!Next]_Budget!vars => PaidFor'
<1> SUFFICES ASSUME PaidFor, [Budget!Next]_Budget!vars PROVE PaidFor'
  OBVIOUS
<1> USE DEF PaidFor
<1>1. ASSUME NEW a \in DeskAsks, Budget!Spend(a) PROVE PaidFor'
  <2>1. OnHyperliquid' \cup MayStillGo' = (OnHyperliquid \cup MayStillGo) \cup {a} /\ a \notin OnHyperliquid \cup MayStillGo
    BY <1>1 DEF Budget!Spend, Spent
  <2>2. /\ IsFiniteSet(OnHyperliquid' \cup MayStillGo')
        /\ Cardinality(OnHyperliquid' \cup MayStillGo') = Cardinality(OnHyperliquid \cup MayStillGo) + 1
    BY <2>1, FS_AddElement
  <2>3. Cardinality(OnHyperliquid \cup MayStillGo) \in Nat
    BY FS_CardinalityType
  <2> QED BY <1>1, <2>2, <2>3 DEF Budget!Spend, Spent
<1>2. ASSUME NEW a \in DeskAsks, Budget!Place(a) PROVE PaidFor'
  <2>1. OnHyperliquid' \cup MayStillGo' = OnHyperliquid \cup MayStillGo
    BY <1>2 DEF Budget!Place, Spent
  <2> QED BY <1>2, <2>1 DEF Budget!Place, Spent
<1>3. CASE Budget!Lapse
  <2>1. OnHyperliquid' \cup MayStillGo' \subseteq OnHyperliquid \cup MayStillGo
    BY <1>3 DEF Budget!Lapse, Spent
  <2>2. /\ IsFiniteSet(OnHyperliquid' \cup MayStillGo')
        /\ Cardinality(OnHyperliquid' \cup MayStillGo') <= Cardinality(OnHyperliquid \cup MayStillGo)
    BY <2>1, FS_Subset
  <2>3. Cardinality(OnHyperliquid \cup MayStillGo) \in Nat /\ Cardinality(OnHyperliquid' \cup MayStillGo') \in Nat
    BY <2>2, FS_CardinalityType
  <2> QED BY <1>3, <2>2, <2>3 DEF Budget!Lapse, Spent
<1>4. CASE Budget!GiveBack
  <2>1. OnHyperliquid' \cup MayStillGo' = OnHyperliquid \cup MayStillGo
    BY <1>4 DEF Budget!GiveBack, Spent, Budget!Cardinality, Cardinality
  <2>2. Spent' \in 0..Spent /\ Cardinality(OnHyperliquid \cup MayStillGo) <= Spent'
    BY <1>4 DEF Budget!GiveBack, Spent, Budget!Cardinality, Cardinality
  <2> QED BY <2>1, <2>2
<1>5. CASE UNCHANGED Budget!vars
  BY <1>5 DEF Budget!vars, Spent
<1> QED BY <1>1, <1>2, <1>3, <1>4, <1>5 DEF Budget!Next

LEMMA PaidForSuffices == PaidFor => Budget!NoneForFree
<1> SUFFICES ASSUME PaidFor PROVE Budget!NoneForFree
  OBVIOUS
<1>1. IsFiniteSet(OnHyperliquid) /\ Cardinality(OnHyperliquid) <= Cardinality(OnHyperliquid \cup MayStillGo)
  BY FS_Subset DEF PaidFor
<1>2. Cardinality(OnHyperliquid) \in Nat /\ Cardinality(OnHyperliquid \cup MayStillGo) \in Nat
  BY <1>1, FS_CardinalityType DEF PaidFor
<1>3. Cardinality(OnHyperliquid) <= Spent
  BY <1>1, <1>2 DEF PaidFor
<1> QED BY <1>3 DEF Budget!NoneForFree, Spent, Budget!Cardinality, Cardinality

(* No order stands on Hyperliquid that the budget did not pay for: what the   *)
(* desk's promise, which the run checks, comes to (desk.py, place_order and    *)
(* settle_doubts).                                                          *)
THEOREM NothingForFree == BudgetKept => []Budget!NoneForFree
<1>1. Budget!Init => PaidFor
  BY InitPaidFor
<1>2. PaidFor /\ [Budget!Next]_Budget!vars => PaidFor'
  BY StepPaidFor
<1>3. PaidFor => Budget!NoneForFree
  BY PaidForSuffices
<1> QED BY <1>1, <1>2, <1>3, PTL DEF BudgetKept, Budget!Spec
----------------------------------------------------------------------------
(* What is submitted.  SubmittedOnce is not inductive: that a posting of a     *)
(* request already in hand is turned away needs the book to hold the pair      *)
(* until the request expires, which another posting or a release of it could   *)
(* end, were there two of them in hand.                                      *)

Asks == [nonce : Nat, expires : Nat, at : Nat]

\* No other request has its nonce.
Alone(r) == \A q \in Requests \ {r} : asked[q] # None => asked[q].nonce # asked[r].nonce

\* Claimed and not given back, in this life of the gateway.
InHand(d) == thread[d].at \in {"claimed", "held"} \/ d \in sent

SeenFor(d) == Ask(d).nonce \in DOMAIN nonces.seen /\ nonces.seen[Ask(d).nonce] = Ask(d).expires

ABook == nonces = [seen |-> nonces.seen, due |-> nonces.due]

BookInv ==
  /\ ABook /\ \A d \in Deliveries : Left(d) => Ask(d) \in Asks
  /\ sent \subseteq Deliveries /\ \A d \in sent : thread[d].at \in {"submitted", "answered"}
  /\ \A d, e \in Deliveries : d[1] = e[1] /\ InHand(d) /\ InHand(e) /\ Alone(d[1]) => d = e
  /\ \A d \in Deliveries : InHand(d) /\ Alone(d[1]) /\ now < Ask(d).expires => SeenFor(d)


LEMMA PrunedKeeps ==
  ASSUME NEW book, NEW time \in Nat, NEW p \in DOMAIN book.seen, book.seen[p] \in Nat, time < book.seen[p]
  PROVE  p \in DOMAIN Pruned(book, time).seen /\ Pruned(book, time).seen[p] = book.seen[p]
<1> DEFINE over == {e \in book.due : e[1] <= time}
<1>1. <<book.seen[p], p>> \notin over
  OBVIOUS
<1> HIDE DEF over
<1>2. Pruned(book, time) = [seen |-> Restrict(book.seen, {x \in DOMAIN book.seen : <<book.seen[x], x>> \notin over}),
                            due  |-> book.due \ over]
  BY DEF Pruned, RestrictDomain, over
<1> QED BY <1>1, <1>2 DEF Restrict

LEMMA ReleasedKeeps ==
  ASSUME NEW book, book = [seen |-> book.seen, due |-> book.due], NEW other, NEW p \in DOMAIN book.seen, p # other
  PROVE  p \in DOMAIN Released(book, other).seen /\ Released(book, other).seen[p] = book.seen[p]
<1>1. Released(book, other).seen = Restrict(book.seen, {x \in DOMAIN book.seen : x # other})
  BY DEF Released, RestrictDomain
<1> QED BY <1>1 DEF Restrict

LEMMA RecordedKeeps ==
  ASSUME NEW book, NEW other, NEW expires
  PROVE  /\ other \in DOMAIN Recorded(book, other, expires).seen /\ Recorded(book, other, expires).seen[other] = expires
         /\ \A p \in DOMAIN book.seen : p # other =>
              p \in DOMAIN Recorded(book, other, expires).seen /\ Recorded(book, other, expires).seen[p] = book.seen[p]
BY DEF Recorded


LEMMA InHandHasLeft ==
  ASSUME BookInv, NEW d \in Deliveries, InHand(d)
  PROVE  Left(d)
BY DEF BookInv, InHand, Left

\* What takes nothing in hand keeps the book, if what is in hand keeps its entry.
LEMMA HandsKept ==
  ASSUME BookInv, Clocks, Clocks', now' >= now, ABook',
         \A d \in Deliveries : Left(d)' => Ask(d)' \in Asks,
         sent' \subseteq Deliveries, \A d \in sent' : thread'[d].at \in {"submitted", "answered"},
         \A d \in Deliveries : InHand(d)' => InHand(d) /\ Ask(d)' = Ask(d) /\ (Alone(d[1])' => Alone(d[1])),
         \A d \in Deliveries : InHand(d)' /\ Alone(d[1]) /\ now < Ask(d).expires /\ SeenFor(d) => SeenFor(d)'
  PROVE  BookInv'
<1>1. \A d, e \in Deliveries : d[1] = e[1] /\ InHand(d)' /\ InHand(e)' /\ Alone(d[1])' => d = e
  BY DEF BookInv
<1>2. \A d \in Deliveries : InHand(d)' /\ Alone(d[1])' /\ now' < Ask(d)'.expires => SeenFor(d)'
  <2> SUFFICES ASSUME NEW d \in Deliveries, InHand(d)', Alone(d[1])', now' < Ask(d)'.expires
               PROVE  SeenFor(d)'
    OBVIOUS
  <2>1. InHand(d) /\ Ask(d)' = Ask(d) /\ Alone(d[1])
    OBVIOUS
  <2>2. Ask(d).expires \in Nat
    BY <2>1, InHandHasLeft DEF BookInv, Asks
  <2>3. now < Ask(d).expires
    BY <2>1, <2>2 DEF Clocks
  <2> QED BY <2>1, <2>3 DEF BookInv
<1> QED BY <1>1, <1>2 DEF BookInv

\* Where the gateway does nothing.
LEMMA GatewayStill ==
  ASSUME NonceInv, BookInv, NonceInv', now' >= now, UNCHANGED <<nonces, sent>>,
         \A d \in Deliveries : Left(d)' => Ask(d)' \in Asks,
         \A d \in Deliveries : Left(d) => thread'[d].at = thread[d].at /\ Ask(d)' = Ask(d),
         \A d \in Deliveries : ~Left(d) => thread'[d].at \notin {"claimed", "held"},
         \A q \in Requests : asked'[q] = asked[q] \/ asked[q] = None,
         \A d \in Deliveries : Left(d) => asked'[d[1]] = asked[d[1]]
  PROVE  BookInv'
<1>1. \A d \in Deliveries : InHand(d)' => InHand(d) /\ Left(d)
  BY InHandHasLeft DEF InHand, BookInv, Left
<1>2. ASSUME NEW d \in Deliveries, InHand(d)', Alone(d[1])'
      PROVE  Alone(d[1])
  BY <1>1, <1>2 DEF Alone
<1>3. \A d \in sent : thread'[d].at \in {"submitted", "answered"}
  BY DEF BookInv, Left
<1>4. \A d \in Deliveries : InHand(d)' => Ask(d)' = Ask(d)
  BY <1>1
<1>5. \A d \in Deliveries : InHand(d)' /\ SeenFor(d) => SeenFor(d)'
  BY <1>4 DEF SeenFor
<1>6. ABook'
  BY DEF BookInv, ABook
<1> QED BY <1>1, <1>2, <1>3, <1>4, <1>5, <1>6, HandsKept DEF NonceInv, BookInv

\* One delivery moves on in the gateway, and what stays in hand keeps its entry.
LEMMA GatewayMoves ==
  ASSUME NonceInv, BookInv, NonceInv', UNCHANGED <<asked, now>>, ABook', NEW f \in Deliveries, Left(f), MovesOn(f),
         thread'[f].at \in {"claimed", "held"} => InHand(f),
         sent' \in {sent, sent \cup {f}},
         f \in sent' => InHand(f) /\ thread'[f].at \in {"submitted", "answered"},
         \A d \in Deliveries : InHand(d)' /\ Alone(d[1]) /\ now < Ask(d).expires /\ SeenFor(d) => SeenFor(d)'
  PROVE  BookInv'
<1>1. DOMAIN thread = Deliveries /\ \A d \in Deliveries \ {f} : thread'[d] = thread[d]
  BY DEF MovesOn, NonceInv, Postings
<1>2. \A d \in Deliveries : Ask(d)' = Ask(d) /\ (Alone(d[1])' => Alone(d[1]))
  BY DEF Ask, Alone
<1>3. \A d \in Deliveries : Left(d)' => Left(d)
  BY <1>1 DEF Left
<1>4. \A d \in Deliveries : InHand(d)' => InHand(d)
  BY <1>1 DEF InHand
<1>5. sent' \subseteq Deliveries /\ \A d \in sent' : thread'[d].at \in {"submitted", "answered"}
  BY <1>1 DEF BookInv
<1>6. now' >= now /\ Clocks /\ Clocks'
  BY DEF NonceInv, Clocks
<1>7. \A d \in Deliveries : Left(d)' => Ask(d)' \in Asks
  BY <1>2, <1>3 DEF BookInv
<1>8. \A d \in Deliveries : InHand(d)' => InHand(d) /\ Ask(d)' = Ask(d) /\ (Alone(d[1])' => Alone(d[1]))
  BY <1>2, <1>4
<1> QED BY <1>5, <1>6, <1>7, <1>8, HandsKept

\* A pair is given back by the only delivery of its request in hand.
LEMMA ReleasedStep ==
  ASSUME NonceInv, BookInv, NonceInv', UNCHANGED <<asked, now, sent>>, NEW f \in Deliveries, Holds(f), MovesOn(f),
         thread'[f].at = "answered", nonces' = Released(nonces, Ask(f).nonce)
  PROVE  BookInv'
<1>1. f \notin sent /\ InHand(f) /\ Left(f) /\ Ask(f) \in Asks
  BY DEF Holds, BookInv, InHand, Left
<1>2. ~InHand(f)'
  BY <1>1 DEF InHand
<1>3. ABook'
  BY DEF BookInv, ABook, Released
<1>4. ASSUME NEW d \in Deliveries, InHand(d)', Alone(d[1]), SeenFor(d)
      PROVE  SeenFor(d)'
  <2>1. d # f /\ InHand(d)
    BY <1>2, <1>4 DEF InHand, MovesOn, NonceInv, Postings
  <2>2. d[1] # f[1] /\ f[1] \in Requests
    BY <1>1, <1>4, <2>1, DeliveryFacts DEF BookInv
  <2>3. asked[f[1]] # None
    BY <1>1, IntakeAssumption DEF Ask, Asks
  <2>4. Ask(f).nonce # Ask(d).nonce
    BY <1>4, <2>2, <2>3 DEF Alone, Ask
  <2>5. /\ Ask(d).nonce \in DOMAIN Released(nonces, Ask(f).nonce).seen
        /\ Released(nonces, Ask(f).nonce).seen[Ask(d).nonce] = nonces.seen[Ask(d).nonce]
    BY <1>4, <2>4, ReleasedKeeps DEF SeenFor, BookInv, ABook
  <2> QED BY <1>4, <2>5 DEF SeenFor, Ask
<1> QED BY <1>1, <1>2, <1>3, <1>4, GatewayMoves

\* A claim: another posting of a request in hand finds its nonce taken.
LEMMA ClaimStep ==
  ASSUME NonceInv, BookInv, NonceInv', NEW f \in Deliveries, Claim(f)
  PROVE  BookInv'
<1> DEFINE book == Pruned(nonces, now)
<1>1. UNCHANGED <<asked, now, sent>> /\ thread[f].at = "wire" /\ Fresh(f) /\ now \in Nat
  BY DEF Claim, NonceInv, Clocks
<1>2. Left(f) /\ f \notin sent /\ Ask(f) \in Asks /\ ~InHand(f)
  BY <1>1 DEF Left, BookInv, InHand
<1>3. ASSUME NEW d \in Deliveries, SeenFor(d), now < Ask(d).expires, InHand(d)
      PROVE  Ask(d).nonce \in DOMAIN book.seen /\ book.seen[Ask(d).nonce] = Ask(d).expires
  <2>1. Ask(d).expires \in Nat
    BY <1>3, InHandHasLeft DEF BookInv, Asks
  <2> QED BY <1>1, <1>3, <2>1, PrunedKeeps DEF SeenFor
<1>4. book = [seen |-> book.seen, due |-> book.due]
  BY DEF Pruned
<1> HIDE DEF book
<1>5. ASSUME nonces' = book, NEW answer, Answered(f, answer)
      PROVE  BookInv'
  <2>1. MovesOn(f) /\ thread'[f].at = "answered"
    BY <1>5, AnsweredMovesOn DEF NonceInv, Postings, Answered, Answer
  <2>2. ABook'
    BY <1>4, <1>5 DEF ABook
  <2>3. ASSUME NEW d \in Deliveries, InHand(d)', Alone(d[1]), now < Ask(d).expires, SeenFor(d)
        PROVE  SeenFor(d)'
    <3>1. InHand(d)
      BY <1>1, <1>2, <2>1, <2>3 DEF InHand, MovesOn, NonceInv, Postings
    <3> QED BY <1>1, <1>3, <1>5, <2>3, <3>1 DEF SeenFor, Ask
  <2> QED BY <1>1, <1>2, <2>1, <2>2, <2>3, GatewayMoves
<1>6. ASSUME ~Taken(book, Ask(f).nonce), nonces' = Recorded(book, Ask(f).nonce, Ask(f).expires),
             thread' = [thread EXCEPT ![f].at = "claimed"]
      PROVE  BookInv'
  <2>1. /\ thread'[f].at = "claimed" /\ DOMAIN thread = Deliveries
        /\ \A d \in Deliveries \ {f} : thread'[d] = thread[d]
    BY <1>6, GoesToMovesOn DEF NonceInv, Postings, MovesOn
  <2>2. \A d \in Deliveries : Ask(d)' = Ask(d) /\ (Alone(d[1])' <=> Alone(d[1]))
    BY <1>1 DEF Ask, Alone
  <2>3. \A d \in Deliveries : InHand(d)' => d = f \/ InHand(d)
    BY <1>1, <2>1 DEF InHand
  <2>4. /\ Ask(f).nonce \in DOMAIN nonces'.seen /\ nonces'.seen[Ask(f).nonce] = Ask(f).expires
        /\ \A p \in DOMAIN book.seen : p # Ask(f).nonce => p \in DOMAIN nonces'.seen /\ nonces'.seen[p] = book.seen[p]
    BY <1>6, RecordedKeeps
  <2>5. ABook'
    BY <1>6 DEF ABook, Recorded
  <2>6. ASSUME NEW d \in Deliveries, InHand(d), Alone(d[1]) PROVE d[1] # f[1]
    <3> SUFFICES ASSUME d[1] = f[1] PROVE FALSE
      OBVIOUS
    <3>1. Ask(d) = Ask(f) /\ now < Ask(d).expires
      BY <1>1 DEF Ask, Fresh
    <3>2. SeenFor(d)
      BY <2>6, <3>1 DEF BookInv
    <3> QED BY <1>3, <1>6, <2>6, <3>1, <3>2 DEF Taken
  <2>7. \A d, e \in Deliveries : d[1] = e[1] /\ InHand(d)' /\ InHand(e)' /\ Alone(d[1])' => d = e
    BY <2>2, <2>3, <2>6 DEF BookInv
  <2>8. ASSUME NEW d \in Deliveries, InHand(d)', Alone(d[1])', now' < Ask(d)'.expires PROVE SeenFor(d)'
    <3>1. CASE d = f
      BY <2>2, <2>4, <3>1 DEF SeenFor
    <3>2. CASE d # f
      <4>1. InHand(d) /\ Alone(d[1]) /\ now < Ask(d).expires /\ Ask(d)' = Ask(d)
        BY <1>1, <2>2, <2>3, <2>8, <3>2
      <4>2. SeenFor(d)
        BY <4>1 DEF BookInv
      <4>3. Ask(d).nonce \in DOMAIN book.seen /\ book.seen[Ask(d).nonce] = Ask(d).expires
        BY <1>3, <4>1, <4>2
      <4>4. Ask(d).nonce # Ask(f).nonce
        BY <1>6, <4>3 DEF Taken
      <4> QED BY <2>4, <4>1, <4>3, <4>4 DEF SeenFor
    <3> QED BY <3>1, <3>2
  <2>9. \A d \in Deliveries : Left(d)' => Ask(d)' \in Asks
    BY <1>2, <2>1, <2>2 DEF Left, BookInv
  <2>10. sent' \subseteq Deliveries /\ \A d \in sent' : thread'[d].at \in {"submitted", "answered"}
    BY <1>1, <1>2, <2>1 DEF BookInv
  <2> QED BY <2>5, <2>7, <2>8, <2>9, <2>10 DEF BookInv
<1> QED BY <1>5, <1>6 DEF Claim, book


LEMMA InitBookInv == Init => BookInv
<1> SUFFICES ASSUME Init PROVE BookInv
  OBVIOUS
<1>1. PICK scene : thread = [d \in Deliveries |-> [at |-> IF d \in scene THEN "unsent" ELSE "never", answer |-> "none"]]
  BY DEF Init, IntakeInit
<1>2. sent = {} /\ nonces = EmptyNonceBook
  BY DEF Init, IntakeInit
<1>3. \A d \in Deliveries : ~Left(d) /\ ~InHand(d)
  BY <1>1, <1>2 DEF Left, InHand
<1> QED BY <1>2, <1>3 DEF BookInv, ABook, EmptyNonceBook

\* A request is signed: whatever is in hand was signed before.
LEMMA SignBookStep ==
  ASSUME NonceInv, BookInv, NonceInv', NEW r \in Requests, NEW nonce \in Nat, NEW expires \in Nat,
         Sign(r, nonce, expires), UNCHANGED <<now, nonces, sent>>
  PROVE  BookInv'
<1> DEFINE d == <<r, 1>>
<1>1. d \in Deliveries /\ d[1] = r /\ First(d) = d /\ ~Left(d)
  BY DEF Deliveries, Requests, First, Left, Sign
<1>2. /\ DOMAIN thread' = Deliveries /\ thread'[d].at = "wire"
      /\ \A e \in Deliveries \ {d} : thread'[e] = thread[e]
  BY <1>1 DEF Sign, NonceInv, Postings
<1>3. /\ asked[r] = None /\ asked'[r] = [nonce |-> nonce, expires |-> expires, at |-> now]
      /\ \A q \in Requests \ {r} : asked'[q] = asked[q]
  BY DEF Sign, NonceInv, Postings
<1>4. \A e \in Deliveries : e[1] = r => First(e) = d
  BY DEF First
<1> HIDE DEF d
<1>5. \A e \in Deliveries : Left(e) => e # d /\ e[1] \in Requests \ {r}
  BY <1>1, <1>4, DeliveryFacts DEF NonceInv, Postings
<1>6. asked'[r] \in Asks
  BY <1>3 DEF NonceInv, Clocks, Asks
<1>7. \A e \in Deliveries : Left(e)' => Ask(e)' \in Asks
  BY <1>1, <1>2, <1>3, <1>5, <1>6 DEF BookInv, Ask, Left
<1>8. \A e \in Deliveries : Left(e) => thread'[e].at = thread[e].at /\ Ask(e)' = Ask(e) /\ asked'[e[1]] = asked[e[1]]
  BY <1>2, <1>3, <1>5 DEF Ask
<1>9. \A e \in Deliveries : ~Left(e) => thread'[e].at \notin {"claimed", "held"}
  BY <1>2 DEF Left
<1>10. \A q \in Requests : asked'[q] = asked[q] \/ asked[q] = None
  BY <1>3
<1>11. now' >= now
  BY DEF NonceInv, Clocks
<1> QED BY <1>7, <1>8, <1>9, <1>10, <1>11, GatewayStill

\* No request is signed, no thread of the gateway's moves.
LEMMA QuietBookStep ==
  ASSUME NonceInv, BookInv, NonceInv', now' >= now, UNCHANGED <<asked, nonces, sent>>,
         \A d \in Deliveries : Left(d) => thread'[d].at = thread[d].at,
         \A d \in Deliveries : Left(d)' /\ ~Left(d) => thread'[d].at = "wire" /\ asked[d[1]] \in Asks
  PROVE  BookInv'
<1>1. \A d \in Deliveries : Ask(d)' = Ask(d) /\ asked'[d[1]] = asked[d[1]]
  BY DEF Ask
<1>2. \A d \in Deliveries : Left(d)' => Ask(d)' \in Asks
  BY DEF BookInv, Ask
<1>3. \A d \in Deliveries : ~Left(d) => thread'[d].at \notin {"claimed", "held"}
  BY DEF Left
<1> QED BY <1>1, <1>2, <1>3, GatewayStill

LEMMA ExpiryIsNat == Expiry \in Nat /\ MaxExpiry \in Nat
BY IntakeAssumption

LEMMA PageBookStep ==
  ASSUME NonceInv, BookInv, NonceInv', PageSigns \/ PagePostsAgain
  PROVE  BookInv'
<1>1. ASSUME NEW r \in PageAsks, Sign(r, now, now + MaxExpiry), UNCHANGED <<now, gatewayVars>>
      PROVE  BookInv'
  <2>1. r \in Requests /\ now \in Nat /\ now + MaxExpiry \in Nat
    BY ExpiryIsNat DEF Requests, NonceInv, Clocks
  <2> QED BY <1>1, <2>1, SignBookStep DEF gatewayVars
<1>2. ASSUME NEW r \in PageAsks, asked[r] # None, thread[<<r, 2>>].at = "unsent",
             thread' = [thread EXCEPT ![<<r, 2>>].at = "wire"], UNCHANGED <<now, asked, gatewayVars>>
      PROVE  BookInv'
  <2> DEFINE d == <<r, 2>>
  <2>1. d \in Deliveries /\ d[1] = r /\ First(d) \in Deliveries /\ Ask(First(d)) = asked[r] /\ Ask(d) = asked[r]
    BY DEF Deliveries, First, Ask
  <2>2. Left(First(d))
    BY <1>2, <2>1 DEF NonceInv, Postings
  <2>3. asked[r] \in Asks
    BY <2>1, <2>2 DEF BookInv
  <2>4. \A e \in Deliveries \ {d} : thread'[e] = thread[e]
    BY <1>2 DEF NonceInv, Postings
  <2>5. thread'[d].at = "wire"
    BY <1>2, <2>1 DEF NonceInv, Postings
  <2> HIDE DEF d
  <2>6. \A e \in Deliveries : Left(e)' /\ ~Left(e) => thread'[e].at = "wire" /\ asked[e[1]] \in Asks
    BY <2>1, <2>3, <2>4, <2>5 DEF Left
  <2>7. \A e \in Deliveries : Left(e) => thread'[e].at = thread[e].at
    BY <1>2, <2>4 DEF Left, d
  <2> QED BY <1>2, <2>6, <2>7, QuietBookStep DEF gatewayVars, NonceInv, Clocks
<1> QED BY <1>1, <1>2 DEF PageSigns, PagePostsAgain

LEMMA DeskBookStep ==
  ASSUME NonceInv, BookInv, NonceInv', DeskNext
  PROVE  BookInv'
<1>1. ASSUME UNCHANGED <<now, asked, thread, nonces, sent>> PROVE BookInv'
  BY <1>1, QuietBookStep DEF NonceInv, Clocks, Left
<1>2. ASSUME NEW r \in DeskAsks, Post(r) PROVE BookInv'
  <2>1. r \in Requests /\ now \in Nat /\ now + Expiry \in Nat
    BY ExpiryIsNat DEF Requests, NonceInv, Clocks
  <2>2. Sign(r, now, now + Expiry) /\ UNCHANGED <<now, nonces, sent>>
    BY <1>2 DEF Post, gatewayVars
  <2> QED BY <2>1, <2>2, SignBookStep
<1>3. ASSUME NEW book, End(book) PROVE BookInv'
  <2>1. UNCHANGED <<now, asked, nonces, sent>>
    BY <1>3 DEF End, gatewayVars
  <2>2. PICK answer : thread' = [thread EXCEPT ![<<desk.ask, 1>>].answer = answer]
    BY <1>3 DEF End
  <2>3. \A d \in Deliveries : thread'[d].at = thread[d].at
    BY <2>2 DEF NonceInv, Postings
  <2> QED BY <2>1, <2>3, QuietBookStep DEF NonceInv, Clocks, Left
<1>4. CASE Settle \/ Kill
  BY <1>1, <1>4 DEF Settle, Kill, intakeVars, gatewayVars
<1> QED BY <1>2, <1>3, <1>4 DEF DeskNext, HearAnswer, HearNothing

LEMMA VenueBookStep ==
  ASSUME NonceInv, BookInv, NonceInv', NEW d \in Deliveries, Land(d) \/ Lost(d)
  PROVE  BookInv'
<1>1. UNCHANGED <<asked, nonces, sent>> /\ now' >= now
  BY DEF Land, Lost, gatewayVars, NonceInv, Clocks
<1>2. \A e \in Deliveries : thread'[e].at = thread[e].at
  <2>1. CASE thread' = thread
    BY <2>1
  <2>2. ASSUME NEW answer, thread' = [thread EXCEPT ![d].answer = answer]
        PROVE  \A e \in Deliveries : thread'[e].at = thread[e].at
    BY <2>2 DEF NonceInv, Postings
  <2> QED BY <2>1, <2>2 DEF Land, Lost
<1> QED BY <1>1, <1>2, QuietBookStep DEF Left

\* The book is left as it is, and so is every entry in it.
LEMMA SameBook ==
  ASSUME BookInv, UNCHANGED <<asked, nonces>>
  PROVE  ABook' /\ \A d \in Deliveries : SeenFor(d) => SeenFor(d)'
BY DEF BookInv, ABook, SeenFor, Ask

LEMMA RefuseUnclaimedBookStep ==
  ASSUME NonceInv, BookInv, NonceInv', NEW d \in Deliveries, RefuseUnclaimed(d)
  PROVE  BookInv'
<1>1. UNCHANGED <<asked, now, nonces, sent>> /\ Left(d) /\ d \notin sent
  BY DEF RefuseUnclaimed, gatewayVars, Left, BookInv
<1>2. MovesOn(d)
  BY AnsweredMovesOn DEF RefuseUnclaimed, NonceInv
<1>3. thread'[d].at = "answered"
  BY DEF RefuseUnclaimed, Answered, Answer, NonceInv, Postings
<1> QED BY <1>1, <1>2, <1>3, SameBook, GatewayMoves

LEMMA RefuseHeldBookStep ==
  ASSUME NonceInv, BookInv, NonceInv', NEW d \in Deliveries, RefuseHeld(d)
  PROVE  BookInv'
<1>1. MovesOn(d)
  BY AnsweredMovesOn DEF RefuseHeld, NonceInv
<1>2. thread'[d].at = "answered"
  BY DEF RefuseHeld, Answered, Answer, NonceInv, Postings
<1> QED BY <1>1, <1>2, ReleasedStep DEF RefuseHeld

LEMMA ActForBookStep ==
  ASSUME NonceInv, BookInv, NonceInv', NEW d \in Deliveries, ActFor(d)
  PROVE  BookInv'
<1>1. UNCHANGED <<asked, now, sent>> /\ Holds(d)
  BY DEF ActFor
<1>2. CASE thread' = [thread EXCEPT ![d].at = "held"] /\ UNCHANGED nonces
  <2>1. MovesOn(d)
    BY <1>2, GoesToMovesOn DEF NonceInv
  <2>2. thread'[d].at = "held" /\ InHand(d) /\ Left(d) /\ d \notin sent
    BY <1>1, <1>2 DEF NonceInv, Postings, Holds, InHand, Left, BookInv
  <2> QED BY <1>1, <1>2, <2>1, <2>2, SameBook, GatewayMoves
<1>3. CASE Answered(d, "not_sent") /\ nonces' = Released(nonces, Ask(d).nonce)
  <2>1. MovesOn(d)
    BY <1>3, AnsweredMovesOn DEF NonceInv
  <2>2. thread'[d].at = "answered"
    BY <1>3 DEF Answered, Answer, NonceInv, Postings
  <2> QED BY <1>1, <1>3, <2>1, <2>2, ReleasedStep
<1> QED BY <1>2, <1>3 DEF ActFor

LEMMA SubmitBookStep ==
  ASSUME NonceInv, BookInv, NonceInv', NEW d \in Deliveries, Submit(d)
  PROVE  BookInv'
<1>1. UNCHANGED <<asked, now, nonces>> /\ Holds(d) /\ sent' = sent \cup {d}
      /\ thread' = [thread EXCEPT ![d].at = "submitted"]
  BY DEF Submit
<1>2. MovesOn(d)
  BY <1>1, GoesToMovesOn DEF NonceInv
<1>3. thread'[d].at = "submitted" /\ InHand(d) /\ Left(d)
  BY <1>1 DEF NonceInv, Postings, Holds, InHand, Left
<1> QED BY <1>1, <1>2, <1>3, SameBook, GatewayMoves

LEMMA AnswerSubmittedBookStep ==
  ASSUME NonceInv, BookInv, NonceInv', NEW d \in Deliveries, AnswerSubmitted(d)
  PROVE  BookInv'
<1>1. UNCHANGED <<asked, now, nonces, sent>> /\ Left(d)
  BY DEF AnswerSubmitted, Left
<1>2. PICK answer : Answered(d, answer)
  BY DEF AnswerSubmitted
<1>3. MovesOn(d) /\ thread'[d].at = "answered"
  BY <1>2, AnsweredMovesOn DEF Answered, Answer, NonceInv, Postings
<1>4. d \in sent => InHand(d)
  BY DEF InHand
<1> QED BY <1>1, <1>3, <1>4, SameBook, GatewayMoves

\* A new life of the gateway: nothing is in hand, and the book is empty.
LEMMA RestartBookStep ==
  ASSUME NonceInv, BookInv, NonceInv', Restart
  PROVE  BookInv'
<1>1. /\ UNCHANGED <<now, asked>> /\ nonces' = EmptyNonceBook /\ sent' = {}
      /\ thread' = [d \in Deliveries |-> IF InGateway(d) THEN Answer(d, "unclear") ELSE thread[d]]
  BY DEF Restart
<1>2. \A d \in Deliveries : ~InHand(d)' /\ (Left(d)' => Left(d)) /\ Ask(d)' = Ask(d)
  BY <1>1 DEF InHand, Left, InGateway, Answer, Ask
<1>3. ABook'
  BY <1>1 DEF ABook, EmptyNonceBook
<1>4. \A d \in Deliveries : Left(d)' => Ask(d)' \in Asks
  BY <1>2 DEF BookInv
<1> QED BY <1>1, <1>2, <1>3, <1>4 DEF BookInv

LEMMA NextBookInv == NonceInv /\ BookInv /\ [Next]_vars => NonceInv' /\ BookInv'
<1> SUFFICES ASSUME NonceInv, BookInv, [Next]_vars PROVE NonceInv' /\ BookInv'
  OBVIOUS
<1>1. NonceInv'
  BY NextNonceInv
<1>2. CASE UNCHANGED vars
  BY <1>1, <1>2, QuietBookStep DEF vars, intakeVars, Left, NonceInv, Clocks
<1>3. ASSUME NEW d \in Deliveries,
             RefuseUnclaimed(d) \/ Claim(d) \/ RefuseHeld(d) \/ ActFor(d)
             \/ Submit(d) \/ Land(d) \/ Lost(d) \/ AnswerSubmitted(d)
      PROVE  BookInv'
  BY <1>1, <1>3, RefuseUnclaimedBookStep, ClaimStep, RefuseHeldBookStep, ActForBookStep, SubmitBookStep,
     VenueBookStep, AnswerSubmittedBookStep
<1>4. CASE IntakeTick
  <2>1. UNCHANGED <<asked, thread, nonces, sent>> /\ now' = now + 1
    BY <1>4 DEF IntakeTick, wireVars, gatewayVars
  <2>2. now' >= now
    BY <2>1 DEF NonceInv, Clocks
  <2>3. \A d \in Deliveries : thread'[d].at = thread[d].at
    BY <2>1
  <2> QED BY <1>1, <2>1, <2>2, <2>3, QuietBookStep DEF Left
<1>5. CASE PageSigns \/ PagePostsAgain
  BY <1>1, <1>5, PageBookStep
<1>6. CASE DeskNext
  BY <1>1, <1>6, DeskBookStep
<1>7. CASE Restart
  BY <1>1, <1>7, RestartBookStep
<1> QED BY <1>1, <1>2, <1>3, <1>4, <1>5, <1>6, <1>7 DEF Next, Steps, IntakeSteps

LEMMA BookInvSuffices == BookInv => SubmittedOnce
<1> SUFFICES ASSUME BookInv, NEW d \in sent, NEW e \in sent, d[1] = e[1], d # e
             PROVE  \E r \in Requests \ {d[1]} : asked[r] # None /\ asked[r].nonce = Ask(d).nonce
  BY DEF SubmittedOnce
<1>1. d \in Deliveries /\ e \in Deliveries /\ InHand(d) /\ InHand(e)
  BY DEF BookInv, InHand
<1>2. ~Alone(d[1])
  BY <1>1 DEF BookInv
<1> QED BY <1>2 DEF Alone, Ask

(* However often a signed request is posted, and however the pair is given     *)
(* back, dropped or claimed again, it goes to Hyperliquid at most once in a     *)
(* life of the gateway unless another request was signed with its nonce        *)
(* (checks.py, NonceBook).                                                  *)
THEOREM SubmittedAtMostOnce == GatewaySpec => []SubmittedOnce
<1>1. Init => NonceInv /\ BookInv
  BY InitNonceInv, InitBookInv
<1>2. NonceInv /\ BookInv /\ [Next]_vars => NonceInv' /\ BookInv'
  BY NextBookInv
<1>3. BookInv => SubmittedOnce
  BY BookInvSuffices
<1> QED BY <1>1, <1>2, <1>3, GatewayIsRoutes, PTL DEF Spec

----------------------------------------------------------------------------
(* The faucet.  GrantsAreLimited is not inductive: a transfer not yet mined     *)
(* goes through later, so whatever is held, on its way or paid, and the grant *)
(* in hand, must stand in the ledger and on the disk while its day lasts, and *)
(* a grant that is given back must have nothing out.                         *)

Txs == [what : {"hype", "usdc"}, to : Addresses, by : Clients, day : Nat, nonce : Nat]
Grants == [to : Addresses, by : Clients, day : Nat, nonce : Nat,
           at : {"reserved", "checked", "hype", "mined", "usdc"}]

InHandGrant == grant # NoGrant
OfGrant(t) == t.to = grant.to /\ t.day = grant.day

\* Transactions that went through or still may.
Live == pool \cup adrift \cup paid

FaucetTypes ==
  /\ today \in Nat /\ mined \in Nat
  /\ Live \cup failed \subseteq Txs
  /\ grant \in Grants \cup {NoGrant}

\* Each transaction is in one place, and one that reverted has used its nonce.
Places ==
  /\ pool \cap adrift = {} /\ paid \cap (pool \cup adrift) = {} /\ failed \cap Live = {}
  /\ \A t \in failed : t.nonce < mined

\* No two transfers of one kind for one address and day.
OneEach == \A t, u \in Live : t.what = u.what /\ t.to = u.to /\ t.day = u.day => t = u

\* What is out for the grant in hand is what its step says.
GrantInHand ==
  InHandGrant =>
    /\ grant.at \in {"reserved", "checked"} => \A t \in Live : ~OfGrant(t)
    /\ grant.at = "checked" => \A t \in failed : OfGrant(t) => t.nonce < grant.nonce
    /\ grant.at = "hype" => \A t \in Live : OfGrant(t) => t = Tx("hype")
    /\ grant.at # "usdc" => \A t \in Live \cup failed : OfGrant(t) => t.what = "hype"
    /\ grant.at \in {"mined", "usdc"} => \E t \in paid : t.what = "hype" /\ OfGrant(t)
    /\ \A t \in Live : t.what = "hype" /\ OfGrant(t) => t.by = grant.by

GasFirst ==
  \A t \in Live \cup failed : t.what = "usdc" => \E u \in paid : u.what = "hype" /\ u.to = t.to /\ u.day = t.day

TxInv == FaucetTypes /\ Places /\ OneEach /\ GrantInHand /\ GasFirst

\* The addresses each client has a grant for, each day.
Granted ==
  [c \in Clients |-> [d \in Nat |->
     {a \in Addresses : \/ \E t \in Live : t.what = "hype" /\ t.to = a /\ t.by = c /\ t.day = d
                        \/ InHandGrant /\ grant.to = a /\ grant.by = c /\ grant.day = d}]]

Booked(l, granted, day) ==
  /\ l = [day |-> l.day, addresses |-> l.addresses, clients |-> l.clients]
  /\ l.day \in 0..day /\ l.clients \in [Clients -> 0..PerClient]
  /\ \A c \in Clients : granted[c][day] # {} => l.day = day
  /\ \A c \in Clients : granted[c][l.day] \subseteq DOMAIN l.addresses
  /\ \A c \in Clients : Cardinality(granted[c][l.day]) <= l.clients[c]

Limited(granted, day) ==
  \A c \in Clients, d \in Nat :
    /\ IsFiniteSet(granted[c][d]) /\ Cardinality(granted[c][d]) <= PerClient
    /\ granted[c][d] # {} => d <= day

Books == Booked(ledger, Granted, today) /\ Booked(disk, Granted, today) /\ Limited(Granted, today)

FaucetInv == TxInv /\ Books

LEMMA PerClientIsNat == PerClient \in Nat /\ MaxNonce \in Nat
BY FaucetAssumption

\* The ledger as it is read on a day: a new one if the day has turned.
LEMMA CurrentBooked ==
  ASSUME NEW l, NEW g, NEW day \in Nat, Booked(l, g, day), Limited(g, day), l.day # day
  PROVE  Booked(NewDay(day), g, day) /\ \A c \in Clients : g[c][day] = {}
<1>1. \A c \in Clients : g[c][day] = {}
  BY DEF Booked
<1>2. Cardinality({}) = 0
  BY FS_EmptySet
<1>3. NewDay(day).day = day /\ NewDay(day).clients = [c \in Clients |-> 0]
  BY DEF NewDay
<1>4. NewDay(day).clients \in [Clients -> 0..PerClient]
  BY <1>3, PerClientIsNat
<1>5. \A c \in Clients : NewDay(day).clients[c] = 0
  BY <1>3
<1>6. \A c \in Clients : g[c][day] \subseteq DOMAIN NewDay(day).addresses /\ Cardinality(g[c][day]) <= NewDay(day).clients[c]
  BY <1>1, <1>2, <1>5
<1>7. NewDay(day) = [day |-> NewDay(day).day, addresses |-> NewDay(day).addresses, clients |-> NewDay(day).clients]
  BY DEF NewDay
<1> QED BY <1>1, <1>3, <1>4, <1>6, <1>7 DEF Booked

LEMMA FewerBooked ==
  ASSUME NEW l, NEW g, NEW h, NEW day \in Nat, Booked(l, g, day), Limited(g, day),
         \A c \in Clients, d \in Nat : h[c][d] \subseteq g[c][d]
  PROVE  Booked(l, h, day) /\ Limited(h, day)
<1>1. \A c \in Clients, d \in Nat : IsFiniteSet(h[c][d]) /\ Cardinality(h[c][d]) <= Cardinality(g[c][d])
  BY FS_Subset DEF Limited
<1>2. \A c \in Clients, d \in Nat : Cardinality(h[c][d]) \in Nat /\ Cardinality(g[c][d]) \in Nat
  BY <1>1, FS_CardinalityType DEF Limited
<1>3. Limited(h, day)
  BY <1>1, <1>2, PerClientIsNat DEF Limited
<1>4. l.day \in Nat /\ \A c \in Clients : l.clients[c] \in Nat
  BY PerClientIsNat DEF Booked
<1>5. \A c \in Clients : Cardinality(h[c][l.day]) <= l.clients[c]
  <2> TAKE c \in Clients
  <2>1. Cardinality(g[c][l.day]) <= l.clients[c]
    BY DEF Booked
  <2>2. /\ Cardinality(h[c][l.day]) \in Nat /\ Cardinality(g[c][l.day]) \in Nat
        /\ Cardinality(h[c][l.day]) <= Cardinality(g[c][l.day])
    BY <1>1, <1>2, <1>4
  <2> QED BY <1>4, <2>1, <2>2
<1> QED BY <1>3, <1>4, <1>5 DEF Booked

LEMMA LaterBooked ==
  ASSUME NEW l, NEW g, NEW day \in Nat, Booked(l, g, day), Limited(g, day)
  PROVE  Booked(l, g, day + 1) /\ Limited(g, day + 1)
<1>1. \A c \in Clients : g[c][day + 1] = {}
  BY DEF Limited
<1> QED BY <1>1 DEF Limited, Booked

\* A reservation: the address is marked and the client has one more.
LEMMA ReservedBooked ==
  ASSUME NEW l, NEW g, NEW h, NEW day \in Nat, Booked(l, g, day), Limited(g, day), l.day = day,
         NEW to \in Addresses, NEW by \in Clients, l.clients[by] < PerClient,
         \A c \in Clients, d \in Nat : h[c][d] \subseteq g[c][d] \cup (IF c = by /\ d = day THEN {to} ELSE {})
  PROVE  Booked(With([l EXCEPT !.clients[by] = @ + 1], to, "reserved"), h, day) /\ Limited(h, day)
<1> DEFINE m == With([l EXCEPT !.clients[by] = @ + 1], to, "reserved")
<1>1. /\ m = [day |-> m.day, addresses |-> m.addresses, clients |-> m.clients]
      /\ m.day = day /\ DOMAIN m.addresses = DOMAIN l.addresses \cup {to}
      /\ m.clients = [l.clients EXCEPT ![by] = @ + 1]
  <2> DEFINE k == [l EXCEPT !.clients[by] = @ + 1]
  <2>1. k = [day |-> l.day, addresses |-> l.addresses, clients |-> [l.clients EXCEPT ![by] = @ + 1]]
    BY DEF Booked
  <2>2. m = [k EXCEPT !.addresses = [a \in DOMAIN k.addresses \cup {to} |-> IF a = to THEN "reserved" ELSE k.addresses[a]]]
    BY DEF With
  <2> HIDE DEF k, m
  <2>3. k.day = l.day /\ k.addresses = l.addresses /\ k.clients = [l.clients EXCEPT ![by] = @ + 1]
    BY <2>1
  <2> DEFINE marks == [a \in DOMAIN k.addresses \cup {to} |-> IF a = to THEN "reserved" ELSE k.addresses[a]]
  <2>4. DOMAIN marks = DOMAIN l.addresses \cup {to}
    BY <2>3
  <2> HIDE DEF marks
  <2>5. m = [day |-> l.day, addresses |-> marks, clients |-> k.clients]
    BY <2>1, <2>2, <2>3 DEF marks
  <2> QED BY <2>3, <2>4, <2>5
<1> HIDE DEF m
<1>2. /\ m.clients \in [Clients -> 0..PerClient]
      /\ \A c \in Clients : m.clients[c] = IF c = by THEN l.clients[c] + 1 ELSE l.clients[c]
  BY <1>1, PerClientIsNat DEF Booked
<1>3. \A c \in Clients, d \in Nat : IsFiniteSet(g[c][d]) /\ Cardinality(g[c][d]) \in Nat
  BY FS_CardinalityType DEF Limited
<1>4. ASSUME NEW c \in Clients, NEW d \in Nat, ~(c = by /\ d = day)
      PROVE  IsFiniteSet(h[c][d]) /\ Cardinality(h[c][d]) \in Nat /\ Cardinality(h[c][d]) <= Cardinality(g[c][d])
  <2>1. h[c][d] \subseteq g[c][d]
    BY <1>4
  <2> QED BY <1>3, <2>1, FS_Subset, FS_CardinalityType
<1>5. IsFiniteSet(h[by][day]) /\ Cardinality(h[by][day]) \in Nat /\ Cardinality(h[by][day]) <= Cardinality(g[by][day]) + 1
  <2>1. /\ IsFiniteSet(g[by][day] \cup {to}) /\ Cardinality(g[by][day] \cup {to}) \in Nat
        /\ Cardinality(g[by][day] \cup {to}) <= Cardinality(g[by][day]) + 1
    <3>1. IsFiniteSet(g[by][day])
      BY <1>3
    <3>2. /\ IsFiniteSet(g[by][day] \cup {to})
          /\ Cardinality(g[by][day] \cup {to}) = IF to \in g[by][day] THEN Cardinality(g[by][day]) ELSE Cardinality(g[by][day]) + 1
      BY <3>1, FS_AddElement
    <3> QED BY <1>3, <3>2
  <2>2. h[by][day] \subseteq g[by][day] \cup {to}
    OBVIOUS
  <2>3. IsFiniteSet(h[by][day]) /\ Cardinality(h[by][day]) \in Nat /\ Cardinality(h[by][day]) <= Cardinality(g[by][day] \cup {to})
    BY <2>1, <2>2, FS_Subset, FS_CardinalityType
  <2> QED BY <1>3, <2>1, <2>3
<1>6. Cardinality(g[by][day]) <= l.clients[by] /\ \A c \in Clients : l.clients[c] \in Nat
  BY PerClientIsNat DEF Booked
<1>7. \A c \in Clients : Cardinality(h[c][day]) <= m.clients[c]
  <2> TAKE c \in Clients
  <2>1. CASE c = by
    BY <1>2, <1>3, <1>5, <1>6, <2>1
  <2>2. CASE c # by
    BY <1>2, <1>3, <1>4, <1>6, <2>2 DEF Booked
  <2> QED BY <2>1, <2>2
<1>8. Limited(h, day)
  <2> SUFFICES ASSUME NEW c \in Clients, NEW d \in Nat
               PROVE  /\ IsFiniteSet(h[c][d]) /\ Cardinality(h[c][d]) <= PerClient
                      /\ h[c][d] # {} => d <= day
    BY DEF Limited
  <2>1. CASE c = by /\ d = day
    BY <1>3, <1>5, <1>6, <2>1, PerClientIsNat
  <2>2. CASE ~(c = by /\ d = day)
    <3>1. Cardinality(g[c][d]) <= PerClient /\ (g[c][d] # {} => d <= day)
      BY DEF Limited
    <3> QED BY <1>3, <1>4, <2>2, <3>1, PerClientIsNat
  <2> QED BY <2>1, <2>2
<1>9. \A c \in Clients : h[c][day] \subseteq DOMAIN m.addresses
  BY <1>1 DEF Booked
<1>10. m.day \in 0..day
  BY <1>1
<1>11. Booked(m, h, day)
  BY <1>1, <1>2, <1>7, <1>9, <1>10 DEF Booked
<1> QED BY <1>8, <1>11 DEF m

\* A release: the address is free again and the client has one less.
LEMMA ReleasedBooked ==
  ASSUME NEW l, NEW g, NEW h, NEW day \in Nat, Booked(l, g, day), Limited(g, day),
         NEW to, NEW by \in Clients, to \in g[by][l.day],
         \A c \in Clients, d \in Nat : h[c][d] \subseteq g[c][d],
         \A c \in Clients : to \notin h[c][l.day]
  PROVE  Booked(Without([l EXCEPT !.clients[by] = IF @ > 0 THEN @ - 1 ELSE 0], to), h, day)
<1> DEFINE m == Without([l EXCEPT !.clients[by] = IF @ > 0 THEN @ - 1 ELSE 0], to)
<1>1. /\ m = [day |-> m.day, addresses |-> m.addresses, clients |-> m.clients]
      /\ m.day = l.day /\ DOMAIN m.addresses = DOMAIN l.addresses \ {to}
      /\ m.clients = [l.clients EXCEPT ![by] = IF @ > 0 THEN @ - 1 ELSE 0]
  <2> DEFINE k == [l EXCEPT !.clients[by] = IF @ > 0 THEN @ - 1 ELSE 0]
  <2>1. k = [day |-> l.day, addresses |-> l.addresses, clients |-> [l.clients EXCEPT ![by] = IF @ > 0 THEN @ - 1 ELSE 0]]
    BY DEF Booked
  <2>2. m = [k EXCEPT !.addresses = [a \in DOMAIN k.addresses \ {to} |-> k.addresses[a]]]
    BY DEF Without
  <2> HIDE DEF k, m
  <2>3. k.day = l.day /\ k.addresses = l.addresses /\ k.clients = [l.clients EXCEPT ![by] = IF @ > 0 THEN @ - 1 ELSE 0]
    BY <2>1
  <2> DEFINE marks == [a \in DOMAIN k.addresses \ {to} |-> k.addresses[a]]
  <2>4. DOMAIN marks = DOMAIN l.addresses \ {to}
    BY <2>3
  <2> HIDE DEF marks
  <2>5. m = [day |-> l.day, addresses |-> marks, clients |-> k.clients]
    BY <2>1, <2>2, <2>3 DEF marks
  <2> QED BY <2>3, <2>4, <2>5
<1> HIDE DEF m
<1>2. Booked(l, h, day) /\ Limited(h, day)
  BY FewerBooked
<1>3. l.day \in Nat /\ \A c \in Clients : l.clients[c] \in Nat
  BY PerClientIsNat DEF Booked
<1>4. /\ Cardinality(h[by][l.day]) \in Nat /\ Cardinality(g[by][l.day]) \in Nat
      /\ Cardinality(h[by][l.day]) <= Cardinality(g[by][l.day]) - 1
  <2>1. h[by][l.day] \subseteq g[by][l.day] \ {to} /\ IsFiniteSet(g[by][l.day])
    BY <1>3 DEF Limited
  <2>2. /\ IsFiniteSet(g[by][l.day] \ {to})
        /\ Cardinality(g[by][l.day] \ {to}) = Cardinality(g[by][l.day]) - 1
    BY <2>1, FS_RemoveElement
  <2>3. /\ IsFiniteSet(h[by][l.day]) /\ Cardinality(h[by][l.day]) <= Cardinality(g[by][l.day] \ {to})
    BY <2>1, <2>2, FS_Subset
  <2> QED BY <2>1, <2>2, <2>3, FS_CardinalityType
<1>5. Cardinality(g[by][l.day]) <= l.clients[by]
  BY DEF Booked
<1>6. /\ m.clients \in [Clients -> 0..PerClient]
      /\ m.clients[by] = l.clients[by] - 1
      /\ \A c \in Clients \ {by} : m.clients[c] = l.clients[c]
  BY <1>1, <1>3, <1>4, <1>5, PerClientIsNat DEF Booked
<1>7. \A c \in Clients : Cardinality(h[c][m.day]) <= m.clients[c]
  BY <1>1, <1>2, <1>3, <1>4, <1>5, <1>6 DEF Booked
<1>8. \A c \in Clients : h[c][m.day] \subseteq DOMAIN m.addresses
  BY <1>1, <1>2 DEF Booked
<1>9. Booked(m, h, day)
  BY <1>1, <1>2, <1>6, <1>7, <1>8 DEF Booked
<1> QED BY <1>9 DEF m

LEMMA SettledBooked ==
  ASSUME NEW l, NEW g, NEW day \in Nat, Booked(l, g, day), NEW to, NEW status
  PROVE  Booked(With(l, to, status), g, day)
BY DEF Booked, With

----------------------------------------------------------------------------
\* Steps of the faucet: whom it still has a grant out for.
HasGrant(a, c, d) ==
  \/ \E t \in Live : t.what = "hype" /\ t.to = a /\ t.by = c /\ t.day = d
  \/ InHandGrant /\ grant.to = a /\ grant.by = c /\ grant.day = d

LEMMA GrantedIs ==
  \A c \in Clients, d \in Nat : \A a : a \in Granted[c][d] <=> a \in Addresses /\ HasGrant(a, c, d)
BY DEF Granted, HasGrant

LEMMA GrantedIsNext ==
  \A c \in Clients, d \in Nat : \A a : a \in Granted'[c][d] <=> a \in Addresses /\ HasGrant(a, c, d)'
BY DEF Granted, HasGrant

LEMMA InitFaucetInv == FaucetInit => FaucetInv
<1> SUFFICES ASSUME FaucetInit PROVE FaucetInv
  OBVIOUS
<1> USE DEF FaucetInit
<1>1. TxInv
  BY DEF TxInv, FaucetTypes, Places, OneEach, GrantInHand, GasFirst, Live, InHandGrant
<1>2. \A c \in Clients, d \in Nat : Granted[c][d] = {}
  BY GrantedIs DEF HasGrant, Live, InHandGrant
<1>3. Cardinality({}) = 0 /\ IsFiniteSet({})
  BY FS_EmptySet
<1>4. Limited(Granted, today)
  <2>1. \A c \in Clients, d \in Nat : IsFiniteSet(Granted[c][d]) /\ Cardinality(Granted[c][d]) = 0 /\ Granted[c][d] = {}
    BY <1>2, <1>3, Zenon
  <2>2. 0 <= PerClient
    BY PerClientIsNat
  <2> QED BY <2>1, <2>2 DEF Limited
<1>5. /\ NewDay(0).day = 0 /\ NewDay(0).clients = [c \in Clients |-> 0]
      /\ NewDay(0) = [day |-> NewDay(0).day, addresses |-> NewDay(0).addresses, clients |-> NewDay(0).clients]
  BY DEF NewDay
<1>6. NewDay(0).clients \in [Clients -> 0..PerClient] /\ \A c \in Clients : NewDay(0).clients[c] = 0
  BY <1>5, PerClientIsNat
<1>7. Booked(NewDay(0), Granted, 0)
  BY <1>2, <1>3, <1>5, <1>6 DEF Booked
<1> QED BY <1>1, <1>4, <1>7 DEF FaucetInv, Books

\* The grant in hand stays the same or is forgotten.
KeepsGrant ==
  \/ grant' = NoGrant
  \/ InHandGrant' /\ InHandGrant /\ grant'.to = grant.to /\ grant'.by = grant.by /\ grant'.day = grant.day

\* Nothing goes out but for the grant in hand.
LEMMA FewerGranted ==
  ASSUME KeepsGrant, \A t \in Live' : t.what = "hype" => t \in Live \/ (InHandGrant /\ OfGrant(t) /\ t.by = grant.by)
  PROVE  \A c \in Clients, d \in Nat : Granted'[c][d] \subseteq Granted[c][d]
<1>1. \A a, c, d : HasGrant(a, c, d)' => HasGrant(a, c, d)
  BY DEF HasGrant, KeepsGrant, OfGrant, InHandGrant
<1> QED BY <1>1, GrantedIs, GrantedIsNext

LEMMA NoMoreGranted ==
  ASSUME KeepsGrant, UNCHANGED chainVars
  PROVE  \A c \in Clients, d \in Nat : Granted'[c][d] \subseteq Granted[c][d]
BY FewerGranted DEF chainVars, Live

LEMMA KeptBooks ==
  ASSUME Books, today' = today, today \in Nat, ledger' \in {ledger, disk}, disk' = disk,
         \A c \in Clients, d \in Nat : Granted'[c][d] \subseteq Granted[c][d]
  PROVE  Books'
<1>1. Booked(ledger, Granted', today) /\ Booked(disk, Granted', today) /\ Limited(Granted', today)
  BY FewerBooked DEF Books
<1> QED BY <1>1 DEF Books

\* The ledger as it is read today.
LEMMA CurrentBooks ==
  ASSUME Books, today \in Nat
  PROVE  /\ Booked(Current(ledger), Granted, today) /\ Current(ledger).day = today
         /\ \A c \in Clients : Granted[c][today] \subseteq DOMAIN Current(ledger).addresses
<1>1. CASE ledger.day = today
  BY <1>1 DEF Current, Books, Booked
<1>2. CASE ledger.day # today
  <2>1. Booked(NewDay(today), Granted, today) /\ \A c \in Clients : Granted[c][today] = {}
    BY <1>2, CurrentBooked DEF Books
  <2>2. Current(ledger) = NewDay(today) /\ NewDay(today).day = today
    BY <1>2 DEF Current, NewDay
  <2> QED BY <2>1, <2>2
<1> QED BY <1>1, <1>2

LEMMA SettledBooks ==
  ASSUME Books, NEW status, SettleGrant(status), today \in Nat,
         \A c \in Clients, d \in Nat : Granted'[c][d] \subseteq Granted[c][d]
  PROVE  Books'
<1>1. today' = today
  BY DEF SettleGrant
<1>2. Booked(Current(ledger), Granted', today) /\ Booked(disk, Granted', today) /\ Limited(Granted', today)
  BY CurrentBooks, FewerBooked DEF Books
<1>3. Booked(With(Current(ledger), grant.to, status), Granted', today)
  BY <1>2, SettledBooked
<1>4. \/ ledger' = With(Current(ledger), grant.to, status) /\ disk' = ledger'
      \/ ledger' = Current(ledger) /\ disk' = disk
  BY DEF SettleGrant
<1> QED BY <1>1, <1>2, <1>3, <1>4 DEF Books

LEMMA ReleasedBooks ==
  ASSUME Books, GrantReleased, today' = today, today \in Nat, grant \in Grants,
         \A c \in Clients, d \in Nat : Granted'[c][d] \subseteq Granted[c][d],
         \A c \in Clients : grant.to \notin Granted'[c][grant.day]
  PROVE  Books'
<1> DEFINE l == Current(ledger)
           m == Without([l EXCEPT !.clients[grant.by] = IF @ > 0 THEN @ - 1 ELSE 0], grant.to)
<1>1. Booked(l, Granted, today) /\ l.day = today
  BY CurrentBooks
<1>2. Booked(l, Granted', today) /\ Booked(disk, Granted', today) /\ Limited(Granted', today)
  BY <1>1, FewerBooked DEF Books
<1>3. \/ Marked(l, grant.day, grant.to) /\ ledger' = m /\ disk' = ledger'
      \/ ledger' = l /\ disk' = disk
  BY DEF GrantReleased
<1>4. ASSUME Marked(l, grant.day, grant.to) PROVE Booked(m, Granted', today)
  <2>1. grant.to \in Granted[grant.by][l.day] /\ l.day = grant.day
    BY <1>4, GrantedIs DEF Marked, HasGrant, InHandGrant, Grants, NoGrant
  <2>2. grant.by \in Clients
    BY DEF Grants
  <2> HIDE DEF l
  <2>3. Booked(Without([l EXCEPT !.clients[grant.by] = IF @ > 0 THEN @ - 1 ELSE 0], grant.to), Granted', today)
    BY <1>1, <2>1, <2>2, ReleasedBooked DEF Books
  <2> QED BY <2>3
<1> HIDE DEF l, m
<1> QED BY <1>2, <1>3, <1>4 DEF Books

\* An address that is not marked today has nothing out for today.
LEMMA UnmarkedHasNothing ==
  ASSUME FaucetInv, NEW to \in Addresses, ~Marked(Current(ledger), today, to)
  PROVE  /\ \A t \in Live : ~(t.to = to /\ t.day = today)
         /\ \A t \in failed : t.to = to /\ t.day = today => t.what = "hype"
<1>1. today \in Nat /\ Live \cup failed \subseteq Txs /\ Books
  BY DEF FaucetInv, TxInv, FaucetTypes
<1>2. ASSUME NEW t \in Live, t.what = "hype", t.to = to, t.day = today PROVE FALSE
  <2>1. t.by \in Clients /\ HasGrant(to, t.by, today)
    BY <1>1, <1>2 DEF HasGrant, Txs
  <2>2. to \in Granted[t.by][today]
    BY <1>1, <2>1, GrantedIs
  <2>3. to \in DOMAIN Current(ledger).addresses /\ Current(ledger).day = today
    BY <1>1, <2>1, <2>2, CurrentBooks
  <2> QED BY <2>3 DEF Marked
<1>3. ASSUME NEW t \in Live \cup failed, t.what = "usdc", t.to = to, t.day = today PROVE FALSE
  <2>1. PICK u \in paid : u.what = "hype" /\ u.to = to /\ u.day = today
    BY <1>3 DEF FaucetInv, TxInv, GasFirst
  <2> QED BY <1>2, <2>1 DEF Live
<1>4. \A t \in Live \cup failed : t.what \in {"hype", "usdc"}
  BY <1>1 DEF Txs
<1> QED BY <1>2, <1>3, <1>4

LEMMA ReserveStep ==
  ASSUME FaucetInv, NEW to \in Addresses, NEW by \in Clients, Reserve(to, by)
  PROVE  FaucetInv'
<1> DEFINE l == Current(ledger)
           taken == With([l EXCEPT !.clients[by] = @ + 1], to, "reserved")
<1>1. /\ today \in Nat /\ Live \cup failed \subseteq Txs /\ Books /\ UNCHANGED <<today, chainVars>>
      /\ ledger' = taken /\ ~InHandGrant
  BY DEF FaucetInv, TxInv, FaucetTypes, Reserve, At, InHandGrant, Grants
<1>2. /\ \A t \in Live : ~(t.to = to /\ t.day = today)
      /\ \A t \in failed : t.to = to /\ t.day = today => t.what = "hype"
  BY UnmarkedHasNothing DEF Reserve
<1>3. Live' = Live /\ failed' = failed /\ paid' = paid /\ mined' = mined
  BY <1>1 DEF chainVars, Live
<1>4. Booked(l, Granted, today) /\ l.day = today /\ l.clients[by] < PerClient
  BY <1>1, CurrentBooks DEF Reserve
<1>5. CASE UNCHANGED <<disk, grant>>
  <2>1. TxInv'
    BY <1>1, <1>3, <1>5 DEF FaucetInv, TxInv, FaucetTypes, Places, OneEach, GrantInHand, GasFirst, InHandGrant, chainVars, Live
  <2>2. \A c \in Clients, d \in Nat : Granted'[c][d] \subseteq Granted[c][d]
    <3>1. \A a, c, d : HasGrant(a, c, d)' <=> HasGrant(a, c, d)
      BY <1>3, <1>5 DEF HasGrant, InHandGrant
    <3> QED BY <3>1, GrantedIs, GrantedIsNext
  <2>3. \A c \in Clients, d \in Nat : Granted'[c][d] \subseteq Granted[c][d] \cup (IF c = by /\ d = today THEN {to} ELSE {})
    BY <2>2
  <2> HIDE DEF l
  <2>4. Booked(taken, Granted', today) /\ Limited(Granted', today)
    BY <1>1, <1>4, <2>3, ReservedBooked DEF Books
  <2>5. Booked(disk, Granted', today)
    BY <1>1, <2>2, FewerBooked DEF Books
  <2> HIDE DEF taken
  <2> QED BY <1>1, <1>5, <2>1, <2>4, <2>5 DEF FaucetInv, Books
<1>6. CASE disk' = taken /\ grant' = [to |-> to, by |-> by, day |-> today, at |-> "reserved", nonce |-> 0]
  <2>1. grant' \in Grants /\ grant'.to = to /\ grant'.by = by /\ grant'.day = today /\ grant'.at = "reserved"
    BY <1>1, <1>6 DEF Grants
  <2>2. TxInv'
    BY <1>1, <1>2, <1>3, <2>1 DEF FaucetInv, TxInv, FaucetTypes, Places, OneEach, GrantInHand, GasFirst, OfGrant, chainVars, Live
  <2>3. \A c \in Clients, d \in Nat : Granted'[c][d] \subseteq Granted[c][d] \cup (IF c = by /\ d = today THEN {to} ELSE {})
    <3>1. \A a, c, d : HasGrant(a, c, d)' => HasGrant(a, c, d) \/ (a = to /\ c = by /\ d = today)
      BY <1>3, <2>1 DEF HasGrant
    <3> QED BY <3>1, GrantedIs, GrantedIsNext
  <2> HIDE DEF l
  <2>4. Booked(taken, Granted', today) /\ Limited(Granted', today)
    BY <1>1, <1>4, <2>3, ReservedBooked DEF Books
  <2> HIDE DEF taken
  <2> QED BY <1>1, <1>6, <2>2, <2>4 DEF FaucetInv, Books
<1> QED BY <1>5, <1>6 DEF Reserve

\* The grant in hand is over, and what it sent stays as it is.
LEMMA ForgetStep ==
  ASSUME TxInv, UNCHANGED <<today, chainVars>>, grant' = NoGrant
  PROVE  TxInv'
BY DEF TxInv, FaucetTypes, Places, OneEach, GrantInHand, GasFirst, InHandGrant, chainVars, Live

LEMMA GiveUpStep ==
  ASSUME FaucetInv, GiveUp, UNCHANGED chainVars, grant \in Grants, \A t \in Live : ~OfGrant(t)
  PROVE  FaucetInv'
<1>1. TxInv' /\ today' = today /\ today \in Nat /\ GrantReleased /\ grant' = NoGrant
  BY ForgetStep DEF GiveUp, FaucetInv, TxInv, FaucetTypes
<1>2. \A c \in Clients, d \in Nat : Granted'[c][d] \subseteq Granted[c][d]
  BY <1>1, NoMoreGranted DEF KeepsGrant
<1>3. \A a, c, d : HasGrant(a, c, d)' => ~(a = grant.to /\ d = grant.day)
  BY <1>1 DEF HasGrant, InHandGrant, chainVars, Live, OfGrant
<1>4. \A c \in Clients : grant.to \notin Granted'[c][grant.day]
  BY <1>3, GrantedIsNext DEF Grants
<1> QED BY <1>1, <1>2, <1>4, ReleasedBooks DEF FaucetInv

LEMMA SettleStep ==
  ASSUME FaucetInv, NEW status, SettleGrant(status), UNCHANGED chainVars
  PROVE  FaucetInv'
<1>1. today' = today /\ today \in Nat /\ grant' = NoGrant
  BY DEF SettleGrant, FaucetInv, TxInv, FaucetTypes
<1>2. TxInv'
  BY <1>1, ForgetStep DEF FaucetInv
<1>3. \A c \in Clients, d \in Nat : Granted'[c][d] \subseteq Granted[c][d]
  BY <1>1, NoMoreGranted DEF KeepsGrant
<1> QED BY <1>1, <1>2, <1>3, SettledBooks DEF FaucetInv

LEMMA FaucetCrashStep ==
  ASSUME FaucetInv, FaucetCrash
  PROVE  FaucetInv'
<1>1. UNCHANGED <<today, disk, chainVars>> /\ today \in Nat /\ grant' = NoGrant /\ ledger' = disk
  BY DEF FaucetCrash, FaucetInv, TxInv, FaucetTypes
<1>2. TxInv'
  BY <1>1, ForgetStep DEF FaucetInv
<1>3. \A c \in Clients, d \in Nat : Granted'[c][d] \subseteq Granted[c][d]
  BY <1>1, NoMoreGranted DEF KeepsGrant
<1> QED BY <1>1, <1>2, <1>3, KeptBooks DEF FaucetInv

\* The grant in hand moves on, for the same address, client and day.
LEMMA MovedGrant ==
  ASSUME grant \in Grants, NEW where \in {"reserved", "checked", "hype", "mined", "usdc"}, NEW nonce \in Nat,
         grant' = [grant EXCEPT !.at = where, !.nonce = nonce]
  PROVE  /\ grant' \in Grants /\ grant'.to = grant.to /\ grant'.by = grant.by /\ grant'.day = grant.day
         /\ grant'.at = where /\ grant'.nonce = nonce /\ InHandGrant' /\ InHandGrant /\ KeepsGrant
         /\ \A t : OfGrant(t)' <=> OfGrant(t)
<1>1. grant' = [to |-> grant.to, by |-> grant.by, day |-> grant.day, nonce |-> nonce, at |-> where]
  BY DEF Grants
<1>2. grant' \in Grants /\ grant'.to = grant.to /\ grant'.by = grant.by /\ grant'.day = grant.day
      /\ grant'.at = where /\ grant'.nonce = nonce
  BY <1>1 DEF Grants
<1>3. grant # NoGrant /\ grant' # NoGrant
  BY <1>2 DEF Grants, NoGrant
<1> QED BY <1>2, <1>3 DEF InHandGrant, KeepsGrant, OfGrant

LEMMA HeldIsGrant ==
  ASSUME FaucetTypes, NEW where \in {"reserved", "checked", "hype", "mined", "usdc"}, At(where)
  PROVE  grant \in Grants /\ grant.at = where /\ InHandGrant
BY DEF FaucetTypes, At, NoGrant, InHandGrant

LEMMA CheckPassesStep ==
  ASSUME FaucetInv, CheckPasses
  PROVE  FaucetInv'
<1>1. PICK n \in mined..MaxNonce - 1 : grant' = [grant EXCEPT !.at = "checked", !.nonce = n]
  BY DEF CheckPasses
<1>2. /\ grant \in Grants /\ grant.at = "reserved" /\ InHandGrant /\ FaucetTypes
      /\ UNCHANGED <<today, ledger, disk, chainVars>> /\ n \in Nat /\ mined \in Nat /\ mined <= n
  BY <1>1, HeldIsGrant, PerClientIsNat DEF CheckPasses, FaucetInv, TxInv, FaucetTypes
<1>3. /\ grant' \in Grants /\ grant'.by = grant.by /\ grant'.at = "checked" /\ grant'.nonce = n /\ KeepsGrant
      /\ \A t : OfGrant(t)' <=> OfGrant(t)
  BY <1>1, <1>2, MovedGrant
<1>4. Live' = Live /\ failed' = failed /\ paid' = paid /\ mined' = mined
  BY <1>2 DEF chainVars, Live
<1>5. \A t \in failed : t.nonce < n
  <2> TAKE t \in failed
  <2>1. t.nonce \in Nat /\ t.nonce < mined
    BY DEF FaucetInv, TxInv, Places, FaucetTypes, Txs
  <2> QED BY <1>2, <2>1
<1>6. GrantInHand'
  BY <1>2, <1>3, <1>4, <1>5 DEF FaucetInv, TxInv, GrantInHand
<1>7. TxInv'
  BY <1>2, <1>3, <1>4, <1>6 DEF FaucetInv, TxInv, FaucetTypes, Places, OneEach, GasFirst, chainVars
<1>8. \A c \in Clients, d \in Nat : Granted'[c][d] \subseteq Granted[c][d]
  BY <1>2, <1>3, NoMoreGranted
<1> QED BY <1>2, <1>7, <1>8, KeptBooks DEF FaucetInv, FaucetTypes

LEMMA HypeMinedStep ==
  ASSUME FaucetInv, HypeMined
  PROVE  FaucetInv'
<1>1. /\ grant \in Grants /\ grant.at = "hype" /\ InHandGrant /\ FaucetTypes
      /\ UNCHANGED <<today, ledger, disk, chainVars>> /\ Tx("hype") \in paid
      /\ grant' = [grant EXCEPT !.at = "mined", !.nonce = grant.nonce + 1]
  BY HeldIsGrant DEF HypeMined, Moved, FaucetInv, TxInv
<1>2. grant.nonce + 1 \in Nat
  BY <1>1 DEF Grants
<1>3. /\ grant' \in Grants /\ grant'.by = grant.by /\ grant'.at = "mined" /\ KeepsGrant
      /\ \A t : OfGrant(t)' <=> OfGrant(t)
  BY <1>1, <1>2, MovedGrant
<1>4. Live' = Live /\ failed' = failed /\ paid' = paid /\ mined' = mined
  BY <1>1 DEF chainVars, Live
<1>5. Tx("hype").what = "hype" /\ OfGrant(Tx("hype"))
  BY DEF Tx, OfGrant
<1>6. GrantInHand'
  BY <1>1, <1>3, <1>4, <1>5 DEF FaucetInv, TxInv, GrantInHand
<1>7. TxInv'
  BY <1>1, <1>3, <1>4, <1>6 DEF FaucetInv, TxInv, FaucetTypes, Places, OneEach, GasFirst, chainVars
<1>8. \A c \in Clients, d \in Nat : Granted'[c][d] \subseteq Granted[c][d]
  BY <1>1, <1>3, NoMoreGranted
<1> QED BY <1>1, <1>7, <1>8, KeptBooks DEF FaucetInv, FaucetTypes

\* A transaction is handed over: nothing of its kind is out for the grant.
LEMMA HandOver ==
  ASSUME TxInv, NEW t \in Txs, Hand(t), t \notin failed, OfGrant(t),
         \A u \in Live : OfGrant(u) => u.what # t.what,
         t.what = "usdc" => \E u \in paid : u.what = "hype" /\ OfGrant(u)
  PROVE  /\ Live' \in {Live, Live \cup {t}} /\ UNCHANGED <<mined, paid, failed>>
         /\ Places' /\ OneEach' /\ GasFirst'
<1>1. t \notin Live
  BY DEF OfGrant
<1>2. /\ UNCHANGED <<mined, paid, failed>>
      /\ \/ pool' = pool \cup {t} /\ adrift' = adrift
         \/ pool' = pool /\ adrift' \in {adrift, adrift \cup {t}}
  BY DEF Hand
<1>3. Live' \in {Live, Live \cup {t}}
  BY <1>2 DEF Live
<1>4. Places'
  BY <1>1, <1>2, <1>3 DEF TxInv, Places, Live
<1>5. OneEach'
  BY <1>3 DEF TxInv, OneEach, OfGrant
<1>6. GasFirst'
  BY <1>2, <1>3 DEF TxInv, GasFirst, OfGrant
<1> QED BY <1>2, <1>3, <1>4, <1>5, <1>6

LEMMA SendHypeStep ==
  ASSUME FaucetInv, SendHype
  PROVE  FaucetInv'
<1> DEFINE t == Tx("hype")
<1>1. /\ grant \in Grants /\ grant.at = "checked" /\ InHandGrant /\ TxInv /\ FaucetTypes
      /\ UNCHANGED <<today, ledger, disk>> /\ Hand(t)
      /\ grant' = [grant EXCEPT !.at = "hype", !.nonce = grant.nonce] /\ grant.nonce \in Nat
  BY HeldIsGrant DEF SendHype, Moved, FaucetInv, TxInv, Grants
<1>2. /\ grant' \in Grants /\ grant'.to = grant.to /\ grant'.by = grant.by /\ grant'.day = grant.day
      /\ grant'.at = "hype" /\ grant'.nonce = grant.nonce /\ KeepsGrant
      /\ \A u : OfGrant(u)' <=> OfGrant(u)
  BY <1>1, MovedGrant
<1>3. t \in Txs /\ t.what = "hype" /\ OfGrant(t) /\ t.by = grant.by /\ t.nonce = grant.nonce /\ t' = t
  BY <1>1, <1>2 DEF Tx, Txs, OfGrant, Grants
<1>4. \A u \in Live : ~OfGrant(u)
  BY <1>1 DEF TxInv, GrantInHand
<1>5. t \notin failed
  BY <1>1, <1>3 DEF TxInv, GrantInHand
<1> HIDE DEF t
<1>6. /\ Live' \in {Live, Live \cup {t}} /\ UNCHANGED <<mined, paid, failed>>
      /\ Places' /\ OneEach' /\ GasFirst'
  BY <1>1, <1>3, <1>4, <1>5, HandOver
<1>7. GrantInHand'
  <2>1. \A u \in Live' : OfGrant(u) => u = t
    BY <1>4, <1>6
  <2>2. \A u \in Live' \cup failed' : OfGrant(u) => u.what = "hype"
    BY <1>1, <1>3, <1>6, <2>1 DEF TxInv, GrantInHand
  <2> QED BY <1>2, <1>3, <2>1, <2>2 DEF GrantInHand, t
<1>8. FaucetTypes'
  BY <1>1, <1>2, <1>3, <1>6 DEF FaucetTypes
<1>9. \A c \in Clients, d \in Nat : Granted'[c][d] \subseteq Granted[c][d]
  BY <1>1, <1>2, <1>3, <1>6, FewerGranted
<1> QED BY <1>1, <1>6, <1>7, <1>8, <1>9, KeptBooks DEF FaucetInv, TxInv, FaucetTypes

LEMMA SendUsdcStep ==
  ASSUME FaucetInv, SendUsdc
  PROVE  FaucetInv'
<1> DEFINE t == Tx("usdc")
<1>1. /\ grant \in Grants /\ grant.at = "mined" /\ InHandGrant /\ TxInv /\ FaucetTypes
      /\ UNCHANGED <<today, ledger, disk>> /\ Hand(t)
      /\ grant' = [grant EXCEPT !.at = "usdc", !.nonce = grant.nonce] /\ grant.nonce \in Nat
  BY HeldIsGrant DEF SendUsdc, Moved, FaucetInv, TxInv, Grants
<1>2. /\ grant' \in Grants /\ grant'.to = grant.to /\ grant'.by = grant.by /\ grant'.day = grant.day
      /\ grant'.at = "usdc" /\ KeepsGrant
      /\ \A u : OfGrant(u)' <=> OfGrant(u)
  BY <1>1, MovedGrant
<1>3. t \in Txs /\ t.what = "usdc" /\ OfGrant(t) /\ t.by = grant.by
  BY <1>1 DEF Tx, Txs, OfGrant, Grants
<1>4. /\ \A u \in Live \cup failed : OfGrant(u) => u.what = "hype"
      /\ \E u \in paid : u.what = "hype" /\ OfGrant(u)
      /\ \A u \in Live : u.what = "hype" /\ OfGrant(u) => u.by = grant.by
  BY <1>1 DEF TxInv, GrantInHand
<1> HIDE DEF t
<1>5. t \notin failed /\ \A u \in Live : OfGrant(u) => u.what # t.what
  BY <1>3, <1>4
<1>6. /\ Live' \in {Live, Live \cup {t}} /\ UNCHANGED <<mined, paid, failed>>
      /\ Places' /\ OneEach' /\ GasFirst'
  BY <1>1, <1>3, <1>4, <1>5, HandOver
<1>7. GrantInHand'
  BY <1>2, <1>3, <1>4, <1>6 DEF GrantInHand
<1>8. FaucetTypes'
  BY <1>1, <1>2, <1>3, <1>6 DEF FaucetTypes
<1>9. \A c \in Clients, d \in Nat : Granted'[c][d] \subseteq Granted[c][d]
  BY <1>1, <1>2, <1>3, <1>6, FewerGranted
<1> QED BY <1>1, <1>6, <1>7, <1>8, <1>9, KeptBooks DEF FaucetInv, TxInv, FaucetTypes

\* What was on its way arrives: it was out before.
LEMMA ArrivesStep ==
  ASSUME FaucetInv, NEW t \in adrift, Arrives(t)
  PROVE  FaucetInv'
<1>1. /\ adrift' = adrift \ {t} /\ pool' = pool \cup {t}
      /\ UNCHANGED <<today, ledger, disk, grant, mined, paid, failed>>
  BY DEF Arrives
<1>2. Live' = Live
  BY <1>1 DEF Live
<1>3. KeepsGrant /\ \A u : OfGrant(u)' <=> OfGrant(u)
  BY <1>1 DEF KeepsGrant, InHandGrant, OfGrant
<1>4. Places'
  BY <1>1, <1>2 DEF FaucetInv, TxInv, Places
<1>5. GrantInHand'
  BY <1>1, <1>2, <1>3 DEF FaucetInv, TxInv, GrantInHand, InHandGrant, Tx
<1>6. TxInv'
  BY <1>1, <1>2, <1>4, <1>5 DEF FaucetInv, TxInv, FaucetTypes, OneEach, GasFirst
<1>7. \A c \in Clients, d \in Nat : Granted'[c][d] \subseteq Granted[c][d]
  BY <1>2, <1>3, FewerGranted
<1> QED BY <1>1, <1>6, <1>7, KeptBooks DEF FaucetInv, TxInv, FaucetTypes

LEMMA MineStep ==
  ASSUME FaucetInv, NEW t \in pool, Mine(t)
  PROVE  FaucetInv'
<1>1. /\ t.nonce = mined /\ pool' = pool \ {t} /\ mined' = mined + 1
      /\ UNCHANGED <<today, ledger, disk, grant, adrift>>
      /\ \/ paid' = paid \cup {t} /\ failed' = failed
         \/ paid' = paid /\ failed' = failed \cup {t}
  BY DEF Mine
<1>2. /\ mined \in Nat /\ t \in Live /\ t \notin adrift \cup paid \cup failed /\ Live \cup failed \subseteq Txs
      /\ TxInv
  BY DEF FaucetInv, TxInv, FaucetTypes, Places, Live
<1>3. Live' \subseteq Live /\ Live' \cup failed' = Live \cup failed /\ paid \subseteq paid' /\ failed' \in {failed, failed \cup {t}}
  BY <1>1 DEF Live
<1>4. KeepsGrant /\ \A u : OfGrant(u)' <=> OfGrant(u)
  BY <1>1 DEF KeepsGrant, InHandGrant, OfGrant
<1>5. Places'
  <2>1. \A u \in failed' : u.nonce < mined'
    <3> TAKE u \in failed'
    <3>1. CASE u = t
      BY <1>1, <1>2, <3>1
    <3>2. CASE u \in failed
      <4>1. u.nonce \in Nat /\ u.nonce < mined
        BY <1>2, <3>2 DEF Places, TxInv, Txs
      <4> QED BY <1>1, <1>2, <4>1
    <3> QED BY <1>3, <3>1, <3>2
  <2>2. failed' \cap Live' = {}
    BY <1>1, <1>2 DEF TxInv, Places, Live
  <2> QED BY <1>1, <1>2, <2>1, <2>2 DEF TxInv, Places
<1>6. GrantInHand'
  <2> SUFFICES ASSUME InHandGrant'
               PROVE  GrantInHand'
    BY DEF GrantInHand
  <2>1. InHandGrant
    BY <1>1 DEF InHandGrant
  <2>2. /\ grant.at \in {"reserved", "checked"} => \A u \in Live : ~OfGrant(u)
        /\ grant.at = "checked" => \A u \in failed : OfGrant(u) => u.nonce < grant.nonce
        /\ grant.at = "hype" => \A u \in Live : OfGrant(u) => u = Tx("hype")
        /\ grant.at # "usdc" => \A u \in Live \cup failed : OfGrant(u) => u.what = "hype"
        /\ grant.at \in {"mined", "usdc"} => \E u \in paid : u.what = "hype" /\ OfGrant(u)
        /\ \A u \in Live : u.what = "hype" /\ OfGrant(u) => u.by = grant.by
    BY <1>2, <2>1 DEF TxInv, GrantInHand
  <2>3. Tx("hype")' = Tx("hype")
    BY <1>1 DEF Tx
  <2> QED BY <1>1, <1>2, <1>3, <1>4, <2>2, <2>3 DEF GrantInHand
<1>7. OneEach'
  BY <1>2, <1>3 DEF TxInv, OneEach
<1>8. GasFirst'
  BY <1>2, <1>3 DEF TxInv, GasFirst
<1>9. FaucetTypes'
  BY <1>1, <1>2, <1>3 DEF TxInv, FaucetTypes
<1>10. \A c \in Clients, d \in Nat : Granted'[c][d] \subseteq Granted[c][d]
  BY <1>3, <1>4, FewerGranted
<1> QED BY <1>1, <1>5, <1>6, <1>7, <1>8, <1>9, <1>10, KeptBooks DEF FaucetInv, TxInv, FaucetTypes

LEMMA DayTurnsStep ==
  ASSUME FaucetInv, DayTurns
  PROVE  FaucetInv'
<1>1. UNCHANGED <<ledger, disk, grant, chainVars>> /\ today' = today + 1 /\ today \in Nat
  BY DEF DayTurns, FaucetInv, TxInv, FaucetTypes
<1>2. Live' = Live /\ Granted' = Granted
  BY <1>1 DEF chainVars, Live, Granted, InHandGrant
<1>3. TxInv'
  BY <1>1, <1>2 DEF FaucetInv, TxInv, FaucetTypes, Places, OneEach, GrantInHand, GasFirst, InHandGrant, OfGrant, Tx,
     chainVars
<1>4. Booked(ledger, Granted, today + 1) /\ Booked(disk, Granted, today + 1) /\ Limited(Granted, today + 1)
  BY <1>1, LaterBooked DEF FaucetInv, Books
<1> QED BY <1>1, <1>2, <1>3, <1>4 DEF FaucetInv, Books

LEMMA StillFaucetStep ==
  ASSUME FaucetInv, UNCHANGED faucetVars
  PROVE  FaucetInv'
BY DEF FaucetInv, TxInv, FaucetTypes, Places, OneEach, GrantInHand, GasFirst, Books, Granted, InHandGrant, OfGrant, Tx,
   Live, faucetVars

\* Every end of a grant that is given back has nothing out.
LEMMA GivenBackStep ==
  ASSUME FaucetInv, CheckFails \/ HypeNotSent \/ HypeReverted
  PROVE  FaucetInv'
<1>1. /\ TxInv /\ FaucetTypes /\ GiveUp /\ UNCHANGED chainVars
      /\ At("reserved") \/ At("checked") \/ (At("hype") /\ Tx("hype") \in failed)
  BY DEF FaucetInv, TxInv, CheckFails, HypeNotSent, HypeReverted
<1>2. grant \in Grants /\ InHandGrant
  BY <1>1, HeldIsGrant
<1>3. \A t \in Live : ~OfGrant(t)
  <2>1. CASE At("reserved") \/ At("checked")
    BY <1>1, <1>2, <2>1 DEF TxInv, GrantInHand, At
  <2>2. CASE At("hype") /\ Tx("hype") \in failed
    <3>1. \A t \in Live : OfGrant(t) => t = Tx("hype")
      BY <1>1, <1>2, <2>2 DEF TxInv, GrantInHand, At
    <3>2. Tx("hype") \notin Live
      BY <1>1, <2>2 DEF TxInv, Places
    <3> QED BY <3>1, <3>2
  <2> QED BY <1>1, <2>1, <2>2
<1> QED BY <1>1, <1>2, <1>3, GiveUpStep

LEMMA NextFaucetInv == FaucetInv /\ [FaucetNext]_faucetVars => FaucetInv'
<1> SUFFICES ASSUME FaucetInv, [FaucetNext]_faucetVars PROVE FaucetInv'
  OBVIOUS
<1>1. CASE \E to \in Addresses, by \in Clients : Reserve(to, by)
  BY <1>1, ReserveStep
<1>2. CASE CheckFails \/ HypeNotSent \/ HypeReverted
  BY <1>2, GivenBackStep
<1>3. CASE HypePending \/ UsdcNotSent \/ UsdcEnds
  BY <1>3, SettleStep DEF HypePending, UsdcNotSent, UsdcEnds
<1>4. CASE CheckPasses
  BY <1>4, CheckPassesStep
<1>5. CASE HypeMined
  BY <1>5, HypeMinedStep
<1>6. CASE SendHype
  BY <1>6, SendHypeStep
<1>7. CASE SendUsdc
  BY <1>7, SendUsdcStep
<1>8. CASE (\E t \in adrift : Arrives(t)) \/ (\E t \in pool : Mine(t))
  BY <1>8, ArrivesStep, MineStep
<1>9. CASE DayTurns
  BY <1>9, DayTurnsStep
<1>10. CASE FaucetCrash
  BY <1>10, FaucetCrashStep
<1>11. CASE UNCHANGED faucetVars
  BY <1>11, StillFaucetStep
<1> QED
  BY <1>1, <1>2, <1>3, <1>4, <1>5, <1>6, <1>7, <1>8, <1>9, <1>10, <1>11 DEF FaucetNext, FaucetSteps, GrantStep

\* What went through for a client on a day is no more than it was granted: each transfer has its own address.
LEMMA FaucetInvSuffices == FaucetInv => GrantsAreLimited
<1> SUFFICES ASSUME FaucetInv PROVE GrantsAreLimited
  OBVIOUS
<1>1. PaidOnce
  BY DEF FaucetInv, TxInv, OneEach, PaidOnce, Live
<1>2. \A t \in paid : t.what = "usdc" => \E u \in paid : u.what = "hype" /\ u.to = t.to /\ u.day = t.day
  BY DEF FaucetInv, TxInv, GasFirst, Live
<1>3. ASSUME NEW c \in Clients, NEW d \in 0..today
      PROVE  Cardinality({t \in paid : t.what = "hype" /\ t.by = c /\ t.day = d}) <= PerClient
  <2> DEFINE S == {t \in paid : t.what = "hype" /\ t.by = c /\ t.day = d}
             f == [t \in S |-> t.to]
  <2>1. d \in Nat /\ IsFiniteSet(Granted[c][d]) /\ Cardinality(Granted[c][d]) <= PerClient
    BY <1>3 DEF FaucetInv, TxInv, FaucetTypes, Books, Limited
  <2>2. \A t \in S : t.to \in Granted[c][d]
    BY <2>1, GrantedIs DEF HasGrant, Live, FaucetInv, TxInv, FaucetTypes, Txs
  <2>3. \A t, u \in S : t.to = u.to => t = u
    BY <1>1 DEF PaidOnce
  <2> HIDE DEF S
  <2>4. f \in Injection(S, Granted[c][d])
    BY <2>2, <2>3 DEF Injection, IsInjective
  <2>5. IsFiniteSet(S) /\ Cardinality(S) <= Cardinality(Granted[c][d])
    BY <2>1, <2>4, FS_Injection
  <2>6. Cardinality(S) \in Nat /\ Cardinality(Granted[c][d]) \in Nat
    BY <2>1, <2>5, FS_CardinalityType
  <2>7. Cardinality(S) <= PerClient
    BY <2>1, <2>5, <2>6, PerClientIsNat
  <2> QED BY <2>7 DEF S
<1> QED BY <1>1, <1>2, <1>3 DEF GrantsAreLimited

(* An address is paid at most once for a day, a client no more than its number, *)
(* and dUSDC only after its gas, whatever the node loses, delays or mines late, *)
(* across failed writes, midnights and ends of the process (faucet.py, _grant   *)
(* and Ledger).                                                             *)
THEOREM GrantsAlwaysLimited == GatewaySpec => []GrantsAreLimited
<1>1. FaucetInit => FaucetInv
  BY InitFaucetInv
<1>2. FaucetInv /\ [FaucetNext]_faucetVars => FaucetInv'
  BY NextFaucetInv
<1>3. FaucetInv => GrantsAreLimited
  BY FaucetInvSuffices
<1> QED BY <1>1, <1>2, <1>3, GatewayIsRoutes, PTL DEF FaucetSpec
----------------------------------------------------------------------------
(* That the desk keeps its budget.  Behind the counter stands a set of        *)
(* attempts, those charged and not given back, which no field of the program  *)
(* holds: every doubt on the desk's list is one of them, and so is everything *)
(* that may still reach Hyperliquid or has.                                  *)

Posting(r) == <<r, 1>>
Ordered(r) == \E i \in DOMAIN orders : orders[i].ask = r

Answers == {"not_sent", "submitted", "refused", "replayed", "unclear"}

\* What was signed, and when.
AskFits(r) ==
  asked[r] # None => /\ asked[r] \in Asks /\ asked[r].expires = asked[r].at + Expiry
                     /\ 1 <= asked[r].at /\ asked[r].at <= now

\* An order is sent and stands only for a posting that was submitted; what the gateway answers
\* says so.
ThreadFits(r) ==
  LET t == thread[Posting(r)]
      goes == Posting(r) \in flight \/ Ordered(r)
  IN /\ t.at \in {"unsent", "never", "wire", "claimed", "held", "submitted", "answered"}
     /\ t.at \in {"unsent", "never"} <=> asked[r] = None
     /\ t.at \notin {"submitted", "answered"} => t.answer = "none" /\ ~goes
     /\ t.at = "submitted" => t.answer \in {"none", "submitted", "refused"}
     /\ t.at = "answered" /\ t.answer = "not_sent" => ~goes
     /\ t.at = "answered" /\ Posting(r) \in listens => t.answer \in Answers

\* Nothing of a request is under way long after it expired.
TimeFits(r) ==
  Posting(r) \in flight \/ InGateway(Posting(r)) => now <= asked[r].expires + HandleTime

OrdersFit ==
  /\ orders \in Seq([ask : Requests, stamp : Nat])
  /\ \A i \in DOMAIN orders :
       /\ orders[i].stamp <= now
       /\ orders[i].ask \in DeskAsks => asked[orders[i].ask].at <= orders[i].stamp
       /\ \A j \in DOMAIN orders : i <= j => orders[i].stamp <= orders[j].stamp

\* No two attempts are begun at one instant.
Told == \A r, q \in DeskAsks : r # q /\ asked[r] # None /\ asked[q] # None => asked[r].at # asked[q].at

AttemptsInv ==
  /\ flight \subseteq Deliveries /\ (\A d \in flight : Left(d)) /\ 1 <= now /\ (now > 1 => now <= MaxTime)
  /\ OrdersFit /\ Told
  /\ \A r \in DeskAsks : AskFits(r) /\ ThreadFits(r) /\ TimeFits(r)

\* The counters as they stand, and the attempts they doubt.
Book == IF desk = None THEN file ELSE desk.book
DoubtOf(r) == [what |-> What[r], at |-> asked[r].at]
Doubtful == {r \in DeskAsks : asked[r] # None /\ DoubtOf(r) \in Book.doubts}
Waits(r) == desk # None /\ r = desk.ask

DeskFits ==
  /\ behind \in Nat /\ behind <= Skew /\ kills \in Nat /\ file \in Counters
  /\ desk # None => /\ desk \in [book : Counters, ask : DeskAsks]
                    /\ file.left > 0 /\ desk.book = Charged(file)
                    /\ Posting(desk.ask) \in listens /\ asked[desk.ask] # None
                    /\ desk.ask \notin Doubtful
  /\ Book.doubts = {DoubtOf(r) : r \in Doubtful}
  /\ \A i \in Book.known : i \in DOMAIN orders /\ orders[i].ask \notin Doubtful /\ ~Waits(orders[i].ask)

\* The attempts that are charged.
Charges(P) ==
  /\ IsFiniteSet(P) /\ P \subseteq {r \in DeskAsks : asked[r] # None} /\ Cardinality(P) = Spent
  /\ OnHyperliquid \cup MayStillGo \cup Doubtful \subseteq P
  /\ desk # None => desk.ask \in P

BudgetInv == NonceInv /\ AttemptsInv /\ DeskFits /\ \E P : Charges(P)

----------------------------------------------------------------------------
\* Steps of the senders, the gateway and Hyperliquid.

LEMMA InitAttemptsInv == Init => AttemptsInv
<1> SUFFICES ASSUME Init PROVE AttemptsInv
  OBVIOUS
<1>1. PICK scene : thread = [d \in Deliveries |-> [at |-> IF d \in scene THEN "unsent" ELSE "never", answer |-> "none"]]
  BY DEF Init, IntakeInit
<1>2. /\ flight = {} /\ orders = <<>> /\ now = 1 /\ listens = {}
      /\ \A r \in DeskAsks : asked[r] = None /\ Posting(r) \in Deliveries
  BY DEF Init, IntakeInit, Requests, Deliveries, Posting
<1>3. \A r \in DeskAsks : AskFits(r) /\ ThreadFits(r) /\ TimeFits(r)
  BY <1>1, <1>2 DEF AskFits, ThreadFits, TimeFits, Ordered, InGateway
<1> QED BY <1>2, <1>3 DEF AttemptsInv, OrdersFit, Told

LEMMA PostingFacts ==
  ASSUME NEW r \in DeskAsks
  PROVE  Posting(r) \in Deliveries /\ \A d \in Deliveries : d[1] = r => d = Posting(r)
<1>1. r \notin PageAsks
  BY IntakeAssumption
<1> QED BY <1>1 DEF Posting, Deliveries

\* A request that a step does not touch.
Untouched(r) ==
  /\ asked'[r] = asked[r] /\ thread'[Posting(r)] = thread[Posting(r)]
  /\ Posting(r) \in flight' => Posting(r) \in flight
  /\ Posting(r) \in listens' => Posting(r) \in listens
  /\ Ordered(r)' <=> Ordered(r)

LEMMA UntouchedFits ==
  ASSUME NEW r \in DeskAsks, AskFits(r), ThreadFits(r), TimeFits(r), Untouched(r), UNCHANGED now
  PROVE  AskFits(r)' /\ ThreadFits(r)' /\ TimeFits(r)'
<1>1. AskFits(r)'
  BY DEF AskFits, Untouched
<1>2. ThreadFits(r)'
  BY DEF ThreadFits, Untouched
<1>3. TimeFits(r)'
  BY DEF TimeFits, Untouched, InGateway
<1> QED BY <1>1, <1>2, <1>3

\* An order taken now is the youngest.
LEMMA TakenFits ==
  ASSUME OrdersFit, now \in Nat, NEW q \in Requests, UNCHANGED <<now, asked>>,
         q \in DeskAsks => asked[q].at <= now,
         orders' = orders \/ orders' = Append(orders, [ask |-> q, stamp |-> now])
  PROVE  /\ OrdersFit'
         /\ \A i \in DOMAIN orders : i \in DOMAIN orders' /\ orders'[i] = orders[i]
         /\ \A r : Ordered(r)' <=> (Ordered(r) \/ (r = q /\ orders' # orders))
<1>1. CASE orders' = orders
  BY <1>1 DEF OrdersFit, Ordered
<1>2. CASE orders' = Append(orders, [ask |-> q, stamp |-> now])
  <2> DEFINE n == Len(orders) + 1
  <2>1. /\ orders' \in Seq([ask : Requests, stamp : Nat]) /\ DOMAIN orders' = 1..n /\ DOMAIN orders = 1..Len(orders)
        /\ Len(orders) \in Nat
        /\ \A i \in DOMAIN orders : orders'[i] = orders[i]
        /\ orders'[n] = [ask |-> q, stamp |-> now]
    BY <1>2 DEF OrdersFit
  <2>2. DOMAIN orders' = DOMAIN orders \cup {n} /\ n \notin DOMAIN orders /\ \A i \in DOMAIN orders : i < n
    BY <2>1
  <2>3. /\ orders'[n].ask = q /\ orders'[n].stamp = now
        /\ \A i \in DOMAIN orders : orders[i].stamp \in Nat
    <3>1. orders \in Seq([ask : Requests, stamp : Nat]) /\ DOMAIN orders = 1..Len(orders)
      BY DEF OrdersFit
    <3>2. \A i \in DOMAIN orders : orders[i] \in [ask : Requests, stamp : Nat]
      BY <3>1, ElementOfSeq
    <3> QED BY <2>1, <3>2
  <2> HIDE DEF n
  <2>4. OrdersFit'
    <3>1. ASSUME NEW i \in DOMAIN orders'
          PROVE  /\ orders'[i].stamp <= now
                 /\ orders'[i].ask \in DeskAsks => asked[orders'[i].ask].at <= orders'[i].stamp
      <4>1. CASE i = n
        BY <2>3, <4>1
      <4>2. CASE i \in DOMAIN orders
        BY <2>1, <4>2 DEF OrdersFit
      <4> QED BY <2>2, <4>1, <4>2
    <3>2. ASSUME NEW i \in DOMAIN orders', NEW j \in DOMAIN orders', i <= j
          PROVE  orders'[i].stamp <= orders'[j].stamp
      <4>1. CASE j = n
        BY <2>3, <3>1, <4>1
      <4>2. CASE i \in DOMAIN orders /\ j \in DOMAIN orders
        BY <2>1, <3>2, <4>2 DEF OrdersFit
      <4>3. CASE i = n /\ j \in DOMAIN orders
        BY <2>1, <2>2, <3>2, <4>3
      <4> QED BY <2>2, <4>1, <4>2, <4>3
    <3> QED BY <2>1, <3>1, <3>2 DEF OrdersFit
  <2>5. \A r : Ordered(r)' <=> (Ordered(r) \/ r = q)
    <3> SUFFICES ASSUME NEW r PROVE Ordered(r)' <=> (Ordered(r) \/ r = q)
      OBVIOUS
    <3>1. Ordered(r)' => Ordered(r) \/ r = q
      BY <2>1, <2>2, <2>3 DEF Ordered
    <3>2. Ordered(r) => Ordered(r)'
      BY <2>1, <2>2 DEF Ordered
    <3>3. r = q => Ordered(r)'
      BY <2>2, <2>3 DEF Ordered
    <3> QED BY <3>1, <3>2, <3>3
  <2>6. orders' # orders
    BY <2>2
  <2> QED BY <2>1, <2>2, <2>4, <2>5, <2>6
<1> QED BY <1>1, <1>2

\* One delivery moves on; an order of its may be taken.
LEMMA DeliveryMoves ==
  ASSUME NonceInv, AttemptsInv, NEW d \in Deliveries, MovesOn(d), UNCHANGED <<now, asked, listens>>,
         flight' \in {flight, flight \cup {d}, flight \ {d}},
         orders' = orders \/ (orders' = Append(orders, [ask |-> d[1], stamp |-> now]) /\ Left(d)),
         d[1] \in DeskAsks => ThreadFits(d[1])' /\ TimeFits(d[1])'
  PROVE  AttemptsInv'
<1>1. d[1] \in Requests /\ now \in Nat
  BY DeliveryFacts DEF NonceInv, Clocks
<1>2. Left(d) /\ d[1] \in DeskAsks => asked[d[1]].at <= now
  <2>1. d[1] \in DeskAsks => d = Posting(d[1])
    BY PostingFacts
  <2> QED BY <2>1 DEF AttemptsInv, ThreadFits, AskFits, Left
<1>3. OrdersFit' /\ \A r : r # d[1] => (Ordered(r)' <=> Ordered(r))
  <2>1. CASE orders' = orders
    BY <2>1 DEF AttemptsInv, OrdersFit, Ordered
  <2>2. CASE orders' # orders
    BY <1>1, <1>2, <2>2, TakenFits DEF AttemptsInv
  <2> QED BY <2>1, <2>2
<1>4. \A r \in DeskAsks : r # d[1] => Untouched(r)
  <2> SUFFICES ASSUME NEW r \in DeskAsks, r # d[1] PROVE Untouched(r)
    OBVIOUS
  <2>1. Posting(r) # d /\ Posting(r) \in DOMAIN thread
    BY PostingFacts DEF Posting, NonceInv, Postings
  <2> QED BY <1>3, <2>1 DEF Untouched, MovesOn
<1>5. \A r \in DeskAsks : AskFits(r)' /\ ThreadFits(r)' /\ TimeFits(r)'
  <2>1. \A r \in DeskAsks : r # d[1] => AskFits(r)' /\ ThreadFits(r)' /\ TimeFits(r)'
    BY <1>4, UntouchedFits DEF AttemptsInv
  <2>2. d[1] \in DeskAsks => AskFits(d[1])'
    BY DEF AttemptsInv, AskFits
  <2> QED BY <2>1, <2>2
<1>6. \A e \in flight' : e \in Deliveries /\ Left(e)'
  BY DEF AttemptsInv, MovesOn, NonceInv, Postings, Left
<1> QED BY <1>3, <1>5, <1>6 DEF AttemptsInv, Told

\* What the abstract budget sees of a step: attempts that can no longer go, or one that is placed.
Goes(r) ==
  \/ thread[Posting(r)].at = "wire" /\ now < asked[r].expires
  \/ thread[Posting(r)].at \in {"claimed", "held"}
  \/ Posting(r) \in flight

Lapses == MayStillGo' \subseteq MayStillGo /\ OnHyperliquid' = OnHyperliquid
GoesThrough(r) ==
  r \in MayStillGo /\ MayStillGo' = MayStillGo \ {r} /\ OnHyperliquid' = OnHyperliquid \cup {r}

LEMMA BudgetSees ==
  MayStillGo = {r \in DeskAsks : Goes(r)} /\ OnHyperliquid = {r \in DeskAsks : Ordered(r)}
BY DEF MayStillGo, OnHyperliquid, Goes, Ordered, Posting

LEMMA BudgetSeesNext ==
  MayStillGo' = {r \in DeskAsks : Goes(r)'} /\ OnHyperliquid' = {r \in DeskAsks : Ordered(r)'}
BY DEF MayStillGo, OnHyperliquid, Goes, Ordered, Posting

LEMMA LapsesIf ==
  ASSUME \A r \in DeskAsks : Goes(r)' => Goes(r), \A r \in DeskAsks : Ordered(r)' <=> Ordered(r)
  PROVE  Lapses
BY BudgetSees, BudgetSeesNext DEF Lapses

LEMMA OthersGoOn ==
  ASSUME NonceInv, NEW d \in Deliveries, MovesOn(d), UNCHANGED <<now, asked>>,
         flight' \in {flight, flight \cup {d}, flight \ {d}}
  PROVE  \A r \in DeskAsks : r # d[1] => (Goes(r)' <=> Goes(r))
<1>1. \A r \in DeskAsks : r # d[1] => Posting(r) # d /\ Posting(r) \in DOMAIN thread
  BY PostingFacts DEF Posting, NonceInv, Postings
<1> QED BY <1>1 DEF Goes, MovesOn

\* One delivery moves on, and none of its orders is taken.
LEMMA DeliveryLapses ==
  ASSUME NonceInv, AttemptsInv, NEW d \in Deliveries, MovesOn(d), UNCHANGED <<now, asked, listens, orders>>,
         flight' \in {flight, flight \cup {d}, flight \ {d}},
         d[1] \in DeskAsks => ThreadFits(d[1])' /\ TimeFits(d[1])' /\ (Goes(d[1])' => Goes(d[1]))
  PROVE  AttemptsInv' /\ Lapses
<1>1. AttemptsInv'
  BY DeliveryMoves
<1>2. \A r \in DeskAsks : Goes(r)' => Goes(r)
  BY OthersGoOn
<1>3. \A r : Ordered(r)' <=> Ordered(r)
  BY DEF Ordered
<1> QED BY <1>1, <1>2, <1>3, LapsesIf

LEMMA AnsweredIs ==
  ASSUME Postings, NEW d \in Deliveries, NEW answer, Answered(d, answer)
  PROVE  /\ MovesOn(d) /\ thread'[d].at = "answered"
         /\ thread'[d].answer = IF d \in listens THEN answer ELSE "none"
<1> DEFINE told == IF d \in listens THEN answer ELSE "none"
<1>1. thread' = [thread EXCEPT ![d] = [at |-> "answered", answer |-> told]]
  BY DEF Answered, Answer
<1> HIDE DEF told
<1>2. thread'[d] = [at |-> "answered", answer |-> told]
  BY <1>1 DEF Postings
<1> QED BY <1>2, AnsweredMovesOn DEF told

\* A request is answered before it was submitted.
LEMMA RefusedKeeps ==
  ASSUME NonceInv, AttemptsInv, NEW d \in Deliveries, thread[d].at \in {"wire", "claimed", "held"},
         NEW answer \in Answers, Answered(d, answer), UNCHANGED <<now, asked, listens, flight, orders>>
  PROVE  AttemptsInv' /\ Lapses
<1>1. MovesOn(d) /\ thread'[d].at = "answered" /\ thread'[d].answer = IF d \in listens THEN answer ELSE "none"
  BY AnsweredIs DEF NonceInv
<1>2. ASSUME d[1] \in DeskAsks PROVE ThreadFits(d[1])' /\ TimeFits(d[1])' /\ (Goes(d[1])' => Goes(d[1]))
  <2>1. d = Posting(d[1])
    BY <1>2, PostingFacts
  <2>2. ~Ordered(d[1]) /\ d \notin flight /\ asked[d[1]] # None
    BY <1>2, <2>1 DEF AttemptsInv, ThreadFits
  <2>3. ~Ordered(d[1])' /\ d \notin flight' /\ asked'[d[1]] # None /\ Posting(d[1])' = d
    BY <2>1, <2>2 DEF Ordered, Posting
  <2>4. ThreadFits(d[1])'
    BY <1>1, <2>1, <2>3 DEF ThreadFits, Answers
  <2>5. TimeFits(d[1])' /\ ~Goes(d[1])'
    BY <1>1, <2>1, <2>3 DEF TimeFits, Goes, InGateway
  <2> QED BY <2>4, <2>5
<1> QED BY <1>1, <1>2, DeliveryLapses

LEMMA GoesToIs ==
  ASSUME Postings, NEW d \in Deliveries, NEW at \in {"claimed", "held", "submitted"},
         thread' = [thread EXCEPT ![d].at = at]
  PROVE  MovesOn(d) /\ thread'[d].at = at /\ thread'[d].answer = thread[d].answer
<1>1. thread[d] = [at |-> thread[d].at, answer |-> thread[d].answer] /\ thread'[d] = [thread[d] EXCEPT !.at = at]
  BY DEF Postings
<1>2. thread'[d] = [at |-> at, answer |-> thread[d].answer]
  BY <1>1
<1> QED BY <1>2 DEF MovesOn, Postings

\* A request is taken in hand, while it has not expired, or is in hand still.
LEMMA TakenInHandKeeps ==
  ASSUME NonceInv, AttemptsInv, NEW d \in Deliveries, NEW at \in {"claimed", "held"},
         thread[d].at \in {"claimed", "held"} \/ (thread[d].at = "wire" /\ now < Ask(d).expires),
         thread' = [thread EXCEPT ![d].at = at], UNCHANGED <<now, asked, listens, flight, orders>>
  PROVE  AttemptsInv' /\ Lapses
<1>1. MovesOn(d) /\ thread'[d].at = at /\ thread'[d].answer = thread[d].answer
  BY GoesToIs DEF NonceInv
<1>2. ASSUME d[1] \in DeskAsks PROVE ThreadFits(d[1])' /\ TimeFits(d[1])' /\ (Goes(d[1])' => Goes(d[1]))
  <2>1. d = Posting(d[1])
    BY <1>2, PostingFacts
  <2>2. ~Ordered(d[1]) /\ d \notin flight /\ asked[d[1]] # None /\ thread[d].answer = "none"
    BY <1>2, <2>1 DEF AttemptsInv, ThreadFits
  <2>3. ~Ordered(d[1])' /\ d \notin flight' /\ asked'[d[1]] # None /\ Posting(d[1])' = d
    BY <2>1, <2>2 DEF Ordered, Posting
  <2>4. ThreadFits(d[1])'
    BY <1>1, <2>1, <2>2, <2>3 DEF ThreadFits
  <2>5. asked[d[1]].expires \in Nat /\ HandleTime \in Nat /\ now \in Nat
    BY <1>2, <2>2, IntakeAssumption DEF AttemptsInv, AskFits, Asks, NonceInv, Clocks
  <2>6. now <= asked[d[1]].expires + HandleTime
    <3>1. CASE thread[d].at \in {"claimed", "held"}
      BY <1>2, <2>1, <3>1 DEF AttemptsInv, TimeFits, InGateway
    <3>2. CASE now < asked[d[1]].expires
      BY <2>5, <3>2
    <3> QED BY <3>1, <3>2 DEF Ask
  <2>7. Goes(d[1])
    BY <2>1 DEF Goes, Ask
  <2> QED BY <2>4, <2>6, <2>7 DEF TimeFits
<1> QED BY <1>1, <1>2, DeliveryLapses

LEMMA SubmitKeeps ==
  ASSUME NonceInv, AttemptsInv, NEW d \in Deliveries, Submit(d)
  PROVE  AttemptsInv' /\ Lapses
<1>1. /\ thread[d].at \in {"claimed", "held"} /\ thread' = [thread EXCEPT ![d].at = "submitted"]
      /\ UNCHANGED <<now, asked, listens, orders>> /\ flight' = flight \cup {d}
  BY DEF Submit, Holds
<1>2. MovesOn(d) /\ thread'[d].at = "submitted" /\ thread'[d].answer = thread[d].answer
  BY <1>1, GoesToIs DEF NonceInv
<1>3. ASSUME d[1] \in DeskAsks PROVE ThreadFits(d[1])' /\ TimeFits(d[1])' /\ (Goes(d[1])' => Goes(d[1]))
  <2>1. d = Posting(d[1])
    BY <1>3, PostingFacts
  <2>2. asked[d[1]] # None /\ thread[d].answer = "none"
    BY <1>1, <1>3, <2>1 DEF AttemptsInv, ThreadFits
  <2>4. ThreadFits(d[1])'
    BY <1>1, <1>2, <2>1, <2>2 DEF ThreadFits
  <2>5. TimeFits(d[1])' /\ Goes(d[1])
    BY <1>1, <1>3, <2>1 DEF AttemptsInv, TimeFits, InGateway, Goes
  <2> QED BY <2>4, <2>5
<1> QED BY <1>1, <1>2, <1>3, DeliveryLapses

LEMMA LostKeeps ==
  ASSUME NonceInv, AttemptsInv, NEW d \in Deliveries, Lost(d)
  PROVE  AttemptsInv' /\ Lapses
<1>1. d \in flight /\ flight' = flight \ {d} /\ UNCHANGED <<now, asked, listens, thread, orders>>
  BY DEF Lost
<1>2. MovesOn(d)
  BY <1>1 DEF AttemptsInv, NonceInv, Postings, MovesOn, Left
<1>3. ASSUME d[1] \in DeskAsks PROVE ThreadFits(d[1])' /\ TimeFits(d[1])' /\ (Goes(d[1])' => Goes(d[1]))
  <2>1. Ordered(d[1])' <=> Ordered(d[1])
    BY <1>1 DEF Ordered
  <2> QED BY <1>1, <1>3, <2>1 DEF AttemptsInv, ThreadFits, TimeFits, InGateway, Goes
<1> QED BY <1>1, <1>2, <1>3, DeliveryLapses

LEMMA AnswerSubmittedKeeps ==
  ASSUME NonceInv, AttemptsInv, NEW d \in Deliveries, AnswerSubmitted(d)
  PROVE  AttemptsInv' /\ Lapses
<1>1. thread[d].at = "submitted" /\ UNCHANGED <<now, asked, listens, flight, orders>>
  BY DEF AnswerSubmitted, venueVars
<1>2. PICK answer : Answered(d, answer) /\ (answer = "unclear" \/ (answer = thread[d].answer /\ answer # "none"))
  BY DEF AnswerSubmitted
<1>3. MovesOn(d) /\ thread'[d].at = "answered" /\ thread'[d].answer = IF d \in listens THEN answer ELSE "none"
  BY <1>2, AnsweredIs DEF NonceInv
<1>4. ASSUME d[1] \in DeskAsks PROVE ThreadFits(d[1])' /\ TimeFits(d[1])' /\ (Goes(d[1])' => Goes(d[1]))
  <2>1. d = Posting(d[1])
    BY <1>4, PostingFacts
  <2>2. answer \in {"unclear", "submitted", "refused"} /\ asked[d[1]] # None
    BY <1>1, <1>2, <1>4, <2>1 DEF AttemptsInv, ThreadFits
  <2>3. ThreadFits(d[1])'
    BY <1>1, <1>3, <2>1, <2>2 DEF ThreadFits, Answers
  <2>4. TimeFits(d[1])' /\ (Goes(d[1])' => Goes(d[1]))
    BY <1>1, <1>3, <1>4, <2>1 DEF AttemptsInv, TimeFits, InGateway, Goes
  <2> QED BY <2>3, <2>4
<1> QED BY <1>1, <1>3, <1>4, DeliveryLapses

\* Hyperliquid takes an order of the desk's, which is placed, or anything else of what flies.
LEMMA LandKeeps ==
  ASSUME NonceInv, AttemptsInv, NEW d \in Deliveries, Land(d)
  PROVE  AttemptsInv' /\ (Lapses \/ \E r \in DeskAsks : GoesThrough(r))
<1>1. d \in flight /\ Left(d) /\ flight' = flight \ {d} /\ UNCHANGED <<now, asked, listens>>
  BY DEF Land, AttemptsInv
<1>2. PICK taken \in BOOLEAN :
        /\ orders' = IF taken THEN Append(orders, [ask |-> d[1], stamp |-> now]) ELSE orders
        /\ thread' = IF thread[d].at = "submitted"
                     THEN [thread EXCEPT ![d].answer = IF taken THEN "submitted" ELSE "refused"]
                     ELSE thread
  BY DEF Land
<1>3. /\ MovesOn(d) /\ thread'[d].at = thread[d].at
      /\ thread'[d].answer = IF thread[d].at = "submitted" THEN IF taken THEN "submitted" ELSE "refused"
                             ELSE thread[d].answer
  <2> DEFINE told == IF taken THEN "submitted" ELSE "refused"
  <2>1. thread[d] = [at |-> thread[d].at, answer |-> thread[d].answer] /\ DOMAIN thread = Deliveries
    BY DEF NonceInv, Postings
  <2> HIDE DEF told
  <2>2. CASE thread[d].at = "submitted"
    <3>1. thread' = [thread EXCEPT ![d].answer = told]
      BY <1>2, <2>2 DEF told
    <3>2. thread'[d] = [thread[d] EXCEPT !.answer = told]
      BY <2>1, <3>1
    <3>3. thread'[d] = [at |-> "submitted", answer |-> told]
      BY <2>1, <2>2, <3>2
    <3> QED BY <2>1, <2>2, <3>1, <3>3 DEF MovesOn, told
  <2>3. CASE thread[d].at # "submitted"
    BY <1>1, <1>2, <2>1, <2>3 DEF MovesOn, Left
  <2> QED BY <2>2, <2>3
<1>4. d[1] \in Requests /\ now \in Nat
  BY DeliveryFacts DEF NonceInv, Clocks
<1>5. d[1] \in DeskAsks => asked[d[1]] # None /\ asked[d[1]].at <= now /\ d = Posting(d[1])
  <2>1. d[1] \in DeskAsks => d = Posting(d[1])
    BY PostingFacts
  <2> QED BY <1>1, <2>1 DEF AttemptsInv, ThreadFits, AskFits, Left
<1>6. \A r : Ordered(r)' <=> (Ordered(r) \/ (r = d[1] /\ taken))
  <2>1. CASE taken
    <3>1. \A r : Ordered(r)' <=> (Ordered(r) \/ (r = d[1] /\ orders' # orders))
      BY <1>1, <1>2, <1>4, <1>5, <2>1, TakenFits DEF AttemptsInv
    <3>2. orders' # orders
      <4>1. Len(orders') = Len(orders) + 1 /\ Len(orders) \in Nat
        BY <1>2, <1>4, <2>1 DEF AttemptsInv, OrdersFit
      <4> QED BY <4>1
    <3> QED BY <2>1, <3>1, <3>2
  <2>2. CASE ~taken
    BY <1>2, <2>2 DEF Ordered
  <2> QED BY <2>1, <2>2
<1>7. d[1] \in DeskAsks => ThreadFits(d[1])' /\ TimeFits(d[1])'
  <2> SUFFICES ASSUME d[1] \in DeskAsks PROVE ThreadFits(d[1])' /\ TimeFits(d[1])'
    OBVIOUS
  <2>1. thread[d].at \in {"submitted", "answered"} /\ thread[d].answer # "not_sent"
    BY <1>1, <1>5 DEF AttemptsInv, ThreadFits
  <2>2. ThreadFits(d[1])
    BY DEF AttemptsInv
  <2>3. ThreadFits(d[1])'
    BY <1>1, <1>3, <1>5, <2>1, <2>2 DEF ThreadFits
  <2>4. TimeFits(d[1])'
    BY <1>1, <1>3, <1>5 DEF AttemptsInv, TimeFits, InGateway
  <2> QED BY <2>3, <2>4
<1>8. AttemptsInv'
  BY <1>1, <1>2, <1>3, <1>7, DeliveryMoves
<1>9. \A r \in DeskAsks : r # d[1] => (Goes(r)' <=> Goes(r))
  BY <1>1, <1>3, OthersGoOn
<1>10. d[1] \in DeskAsks => Goes(d[1]) /\ ~Goes(d[1])'
  <2>1. d[1] \in DeskAsks => thread[d].at \in {"submitted", "answered"}
    BY <1>1, <1>5 DEF AttemptsInv, ThreadFits
  <2> QED BY <1>1, <1>3, <1>5, <2>1 DEF Goes
<1>11. CASE taken /\ d[1] \in DeskAsks
  BY <1>6, <1>8, <1>9, <1>10, <1>11, BudgetSees, BudgetSeesNext DEF GoesThrough
<1>12. CASE ~taken \/ d[1] \notin DeskAsks
  <2>1. Lapses
    BY <1>6, <1>9, <1>10, <1>12, LapsesIf
  <2> QED BY <1>8, <2>1
<1> QED BY <1>11, <1>12

\* Every request in the gateway is broken off; what flies lands all the same.
LEMMA RestartKeeps ==
  ASSUME NonceInv, AttemptsInv, Restart
  PROVE  AttemptsInv' /\ Lapses
<1>1. /\ UNCHANGED <<now, asked, listens, flight, orders>>
      /\ thread' = [d \in Deliveries |-> IF InGateway(d) THEN Answer(d, "unclear") ELSE thread[d]]
  BY DEF Restart, venueVars
<1>2. \A d \in Deliveries :
        /\ InGateway(d) => /\ thread'[d].at = "answered"
                           /\ thread'[d].answer = IF d \in listens THEN "unclear" ELSE "none"
        /\ ~InGateway(d) => thread'[d] = thread[d]
  BY <1>1 DEF Answer
<1>3. \A r : Ordered(r)' <=> Ordered(r)
  BY <1>1 DEF Ordered
<1>4. ASSUME NEW r \in DeskAsks
      PROVE  AskFits(r)' /\ ThreadFits(r)' /\ TimeFits(r)' /\ (Goes(r)' => Goes(r))
  <2>1. Posting(r) \in Deliveries /\ AskFits(r) /\ ThreadFits(r) /\ TimeFits(r)
    BY PostingFacts DEF AttemptsInv
  <2>2. AskFits(r)'
    BY <1>1, <2>1 DEF AskFits
  <2>3. ThreadFits(r)'
    <3>1. CASE InGateway(Posting(r))
      BY <1>1, <1>2, <1>3, <2>1, <3>1 DEF ThreadFits, InGateway, Answers
    <3>2. CASE ~InGateway(Posting(r))
      BY <1>1, <1>2, <1>3, <2>1, <3>2 DEF ThreadFits
    <3> QED BY <3>1, <3>2
  <2>4. TimeFits(r)' /\ (Goes(r)' => Goes(r))
    BY <1>1, <1>2, <2>1 DEF TimeFits, Goes, InGateway
  <2> QED BY <2>2, <2>3, <2>4
<1>5. OrdersFit' /\ Told'
  BY <1>1 DEF AttemptsInv, OrdersFit, Told
<1>6. \A d \in flight' : Left(d)'
  BY <1>1, <1>2 DEF AttemptsInv, Left
<1>7. AttemptsInv'
  BY <1>1, <1>4, <1>5, <1>6 DEF AttemptsInv
<1>8. Lapses
  BY <1>3, <1>4, LapsesIf
<1> QED BY <1>7, <1>8

\* Time passes nothing by that the gateway has in hand, or that flies.
LEMMA TickKeeps ==
  ASSUME NonceInv, AttemptsInv, IntakeTick
  PROVE  AttemptsInv' /\ Lapses
<1>1. /\ now \in Nat /\ now < MaxTime /\ now' = now + 1
      /\ UNCHANGED <<asked, thread, listens, flight, orders>> /\ MaxTime \in Nat /\ HandleTime \in Nat
  BY IntakeAssumption DEF IntakeTick, wireVars, venueVars, NonceInv, Clocks
<1>2. \A r : Ordered(r)' <=> Ordered(r)
  BY <1>1 DEF Ordered
<1>3. ASSUME NEW r \in DeskAsks
      PROVE  AskFits(r)' /\ ThreadFits(r)' /\ TimeFits(r)' /\ (Goes(r)' => Goes(r))
  <2>1. Posting(r) \in Deliveries /\ AskFits(r) /\ ThreadFits(r) /\ Posting(r)[1] = r
    BY PostingFacts DEF AttemptsInv, Posting
  <2>2. asked[r] # None => asked[r].at \in Nat /\ asked[r].expires \in Nat
    BY <2>1 DEF AskFits, Asks
  <2>3. AskFits(r)'
    BY <1>1, <2>1, <2>2 DEF AskFits
  <2>4. ThreadFits(r)'
    BY <1>1, <1>2, <2>1 DEF ThreadFits
  <2>5. Posting(r) \in flight \/ InGateway(Posting(r)) => now < asked[r].expires + HandleTime /\ asked[r] # None
    BY <2>1 DEF IntakeTick, Ask, ThreadFits, InGateway
  <2>6. TimeFits(r)'
    BY <1>1, <2>2, <2>5 DEF TimeFits, InGateway
  <2>7. Goes(r)' => Goes(r)
    <3>1. thread[Posting(r)].at = "wire" => asked[r].expires \in Nat
      BY <2>1, <2>2 DEF ThreadFits
    <3> QED BY <1>1, <3>1 DEF Goes
  <2> QED BY <2>3, <2>4, <2>6, <2>7
<1>4. OrdersFit'
  <2>1. \A i \in DOMAIN orders : orders[i].stamp \in Nat
    <3>1. orders \in Seq([ask : Requests, stamp : Nat]) /\ DOMAIN orders = 1..Len(orders)
      BY DEF AttemptsInv, OrdersFit
    <3>2. \A i \in DOMAIN orders : orders[i] \in [ask : Requests, stamp : Nat]
      BY <3>1, ElementOfSeq
    <3> QED BY <3>2
  <2> QED BY <1>1, <2>1 DEF AttemptsInv, OrdersFit
<1>5. AttemptsInv'
  BY <1>1, <1>3, <1>4 DEF AttemptsInv, Told, Left
<1>6. Lapses
  BY <1>2, <1>3, LapsesIf
<1> QED BY <1>5, <1>6

\* What the trader's page signs and posts is nothing to the desk.
LEMMA PageKeeps ==
  ASSUME NonceInv, AttemptsInv, PageSigns \/ PagePostsAgain
  PROVE  AttemptsInv' /\ Lapses /\ \A r \in DeskAsks : asked'[r] = asked[r]
<1>1. PICK r \in PageAsks, n \in {1, 2} :
        /\ thread' = [thread EXCEPT ![<<r, n>>].at = "wire"]
        /\ asked' = asked \/ (\E ask : asked' = [asked EXCEPT ![r] = ask])
  BY DEF PageSigns, PagePostsAgain, Sign
<1>2. UNCHANGED <<now, listens, flight, orders>> /\ r \notin DeskAsks
  BY IntakeAssumption DEF PageSigns, PagePostsAgain, venueVars
<1>3. \A q \in DeskAsks : asked'[q] = asked[q] /\ thread'[Posting(q)] = thread[Posting(q)]
  <2>1. \A q \in DeskAsks : q # r /\ Posting(q) # <<r, n>> /\ Posting(q) \in DOMAIN thread /\ q \in DOMAIN asked
    BY <1>2, PostingFacts DEF Posting, NonceInv, Postings, Requests
  <2>2. \A q \in DeskAsks : thread'[Posting(q)] = thread[Posting(q)]
    BY <1>1, <2>1
  <2> QED BY <1>1, <2>1, <2>2
<1>4. \A q : Ordered(q)' <=> Ordered(q)
  BY <1>2 DEF Ordered
<1>5. \A q \in DeskAsks : Untouched(q)
  BY <1>2, <1>3, <1>4 DEF Untouched, Posting
<1>6. \A q \in DeskAsks : AskFits(q)' /\ ThreadFits(q)' /\ TimeFits(q)'
  BY <1>2, <1>5, UntouchedFits DEF AttemptsInv
<1>7. Lapses
  BY <1>2, <1>3, <1>4, LapsesIf DEF Goes
<1>8. \A d \in flight' : Left(d)'
  <2> SUFFICES ASSUME NEW d \in flight PROVE Left(d)'
    BY <1>2
  <2>1. d \in DOMAIN thread /\ Left(d)
    BY DEF AttemptsInv, NonceInv, Postings
  <2>2. d # <<r, n>> => thread'[d] = thread[d]
    BY <1>1, <2>1
  <2>3. d = <<r, n>> => thread'[d].at = "wire"
    <3>1. thread[d] = [at |-> thread[d].at, answer |-> thread[d].answer]
      BY <2>1 DEF NonceInv, Postings
    <3>2. d = <<r, n>> => thread'[d] = [thread[d] EXCEPT !.at = "wire"]
      BY <1>1, <2>1
    <3>3. [thread[d] EXCEPT !.at = "wire"].at = "wire"
      BY <3>1
    <3> QED BY <3>2, <3>3
  <2> QED BY <2>1, <2>2, <2>3 DEF Left
<1>9. OrdersFit' /\ Told'
  BY <1>2, <1>3 DEF AttemptsInv, OrdersFit, Told
<1> QED BY <1>2, <1>3, <1>6, <1>7, <1>8, <1>9 DEF AttemptsInv

IntakeSeen ==
  /\ AttemptsInv' /\ (Lapses \/ \E r \in DeskAsks : GoesThrough(r))
  /\ \A r \in DeskAsks : asked'[r] = asked[r]
  /\ listens' = listens
  /\ \A i \in DOMAIN orders : i \in DOMAIN orders' /\ orders'[i] = orders[i]

\* The steps of the gateway, the network, Hyperliquid and the page.
LEMMA IntakeKeeps ==
  ASSUME NonceInv, AttemptsInv, IntakeSteps \/ Restart
  PROVE  IntakeSeen
<1>1. CASE PageSigns \/ PagePostsAgain
  BY <1>1, PageKeeps DEF PageSigns, PagePostsAgain, venueVars, IntakeSeen
<1>2. ASSUME NEW d \in Deliveries,
             RefuseUnclaimed(d) \/ RefuseHeld(d) \/ Claim(d) \/ ActFor(d)
      PROVE  IntakeSeen
  <2>1. UNCHANGED <<now, asked, listens, flight, orders>> /\ thread[d].at \in {"wire", "claimed", "held"}
    BY <1>2 DEF RefuseUnclaimed, RefuseHeld, Claim, ActFor, Holds, venueVars
  <2>2. \/ \E answer \in Answers : Answered(d, answer)
        \/ \E at \in {"claimed", "held"} :
             /\ thread' = [thread EXCEPT ![d].at = at]
             /\ thread[d].at \in {"claimed", "held"} \/ (thread[d].at = "wire" /\ now < Ask(d).expires)
    BY <1>2 DEF RefuseUnclaimed, RefuseHeld, Claim, ActFor, Holds, Fresh, Answers
  <2>3. AttemptsInv' /\ Lapses
    BY <2>1, <2>2, RefusedKeeps, TakenInHandKeeps
  <2> QED BY <2>1, <2>3 DEF IntakeSeen
<1>3. ASSUME NEW d \in Deliveries, Submit(d) \/ Lost(d) \/ AnswerSubmitted(d)
      PROVE  IntakeSeen
  <2>1. UNCHANGED <<asked, listens, orders>>
    BY <1>3 DEF Submit, Lost, AnswerSubmitted, venueVars
  <2> QED BY <1>3, <2>1, SubmitKeeps, LostKeeps, AnswerSubmittedKeeps DEF IntakeSeen
<1>4. ASSUME NEW d \in Deliveries, Land(d)
      PROVE  IntakeSeen
  <2>1. UNCHANGED <<asked, listens>>
    BY <1>4 DEF Land
  <2>2. \A i \in DOMAIN orders : i \in DOMAIN orders' /\ orders'[i] = orders[i]
    <3>1. orders \in Seq([ask : Requests, stamp : Nat])
      BY DEF AttemptsInv, OrdersFit
    <3>2. orders' = orders \/ orders' = Append(orders, [ask |-> d[1], stamp |-> now])
      BY <1>4 DEF Land
    <3> QED BY <3>1, <3>2
  <2> QED BY <1>4, <2>1, <2>2, LandKeeps DEF IntakeSeen
<1>5. CASE IntakeTick \/ Restart
  BY <1>5, TickKeeps, RestartKeeps DEF IntakeTick, Restart, wireVars, venueVars, IntakeSeen
<1> QED BY <1>1, <1>2, <1>3, <1>4, <1>5 DEF IntakeSteps

----------------------------------------------------------------------------
\* What the desk knows of it.

BudgetStep == [Budget!Next]_Budget!vars

LEMMA OrdersLeftIs == OrdersLeft = Book.left /\ OrdersLeft' = Book'.left
BY DEF OrdersLeft, Book

LEMMA DoubtfulNext == Doubtful' = {r \in DeskAsks : asked'[r] # None /\ DoubtOf(r)' \in Book'.doubts}
BY DEF Doubtful

LEMMA IntakeBudget ==
  ASSUME BudgetInv, NEW P, Charges(P), IntakeSteps \/ Restart, UNCHANGED deskVars
  PROVE  AttemptsInv' /\ DeskFits' /\ Charges(P)' /\ BudgetStep
<1>1. IntakeSeen
  BY IntakeKeeps DEF BudgetInv
<1>2. UNCHANGED <<file, desk, behind, kills>> /\ Book' = Book
  BY DEF deskVars, Book
<1>3. \A r \in DeskAsks : asked'[r] = asked[r] /\ DoubtOf(r)' = DoubtOf(r)
  BY <1>1 DEF IntakeSeen, DoubtOf
<1>4. Doubtful' = Doubtful /\ \A q : Waits(q)' <=> Waits(q)
  BY <1>2, <1>3, DoubtfulNext DEF Doubtful, Waits
<1>5. DeskFits'
  <2>1. DeskFits
    BY DEF BudgetInv
  <2>2. Book'.doubts = {DoubtOf(r)' : r \in Doubtful'}
    <3>1. Doubtful \subseteq DeskAsks
      BY DEF Doubtful
    <3>2. {DoubtOf(r)' : r \in Doubtful'} = {DoubtOf(r) : r \in Doubtful}
      BY <1>3, <1>4, <3>1
    <3> QED BY <1>2, <2>1, <3>2 DEF DeskFits
  <2>3. desk # None => /\ desk.ask \in DeskAsks /\ Posting(desk.ask)' \in listens' /\ asked'[desk.ask] # None
                       /\ desk.ask \notin Doubtful'
    <3>1. desk # None => /\ desk.ask \in DeskAsks /\ Posting(desk.ask) \in listens /\ asked[desk.ask] # None
                         /\ desk.ask \notin Doubtful
      BY <2>1 DEF DeskFits
    <3> QED BY <1>1, <1>2, <1>3, <1>4, <3>1 DEF Posting, IntakeSeen
  <2>4. \A i \in Book.known : /\ i \in DOMAIN orders' /\ orders'[i] = orders[i]
                              /\ orders[i].ask \notin Doubtful /\ ~Waits(orders[i].ask)
    BY <1>1, <2>1 DEF DeskFits, IntakeSeen
  <2>5. \A i \in Book'.known : i \in DOMAIN orders' /\ orders'[i].ask \notin Doubtful' /\ ~Waits(orders[i].ask)'
    <3>1. \A i \in Book.known : ~Waits(orders[i].ask)'
      BY <1>2, <2>4 DEF Waits
    <3> QED BY <1>2, <1>4, <2>4, <3>1
  <2>6. desk # None => desk \in [book : Counters, ask : DeskAsks] /\ file.left > 0 /\ desk.book = Charged(file)
    BY <2>1 DEF DeskFits
  <2>7. desk' # None => /\ desk' \in [book : Counters, ask : DeskAsks]
                        /\ file'.left > 0 /\ desk'.book = Charged(file)'
    BY <1>2, <2>6 DEF Charged
  <2>8. behind' \in Nat /\ behind' <= Skew /\ kills' \in Nat /\ file' \in Counters
    BY <1>2, <2>1 DEF DeskFits
  <2> QED BY <1>2, <2>2, <2>3, <2>5, <2>7, <2>8 DEF DeskFits
<1>6. Charges(P)'
  <2>1. OnHyperliquid' \cup MayStillGo' \subseteq OnHyperliquid \cup MayStillGo
    BY <1>1 DEF IntakeSeen, Lapses, GoesThrough
  <2>2. Spent' = Spent
    BY <1>2 DEF Spent, OrdersLeft
  <2> QED BY <1>2, <1>3, <1>4, <2>1, <2>2 DEF Charges
<1>7. BudgetStep
  <2>1. MaxOrders - OrdersLeft + kills = (MaxOrders - OrdersLeft + kills)'
    BY <1>2 DEF OrdersLeft
  <2>2. CASE Lapses
    <3>1. Budget!Lapse
      BY <2>1, <2>2 DEF Budget!Lapse, Lapses
    <3> QED BY <3>1 DEF BudgetStep, Budget!Next
  <2>3. ASSUME NEW r \in DeskAsks, GoesThrough(r) PROVE BudgetStep
    <3>1. Budget!Place(r)
      BY <2>1, <2>3 DEF Budget!Place, GoesThrough
    <3> QED BY <3>1 DEF BudgetStep, Budget!Next
  <2> QED BY <1>1, <2>2, <2>3 DEF IntakeSeen
<1> QED BY <1>1, <1>5, <1>6, <1>7 DEF IntakeSeen

\* An order is charged, signed and posted in one step.
LEMMA PostAttempts ==
  ASSUME NonceInv, AttemptsInv, NEW r \in DeskAsks, Post(r)
  PROVE  /\ AttemptsInv' /\ ~Goes(r) /\ ~Ordered(r) /\ asked[r] = None
         /\ asked'[r] # None /\ asked'[r].at = now /\ Posting(r)' \in listens'
         /\ \A q \in DeskAsks \ {r} : asked'[q] = asked[q] /\ (asked[q] # None => asked[q].at < now)
         /\ MayStillGo' = MayStillGo \cup {r} /\ OnHyperliquid' = OnHyperliquid
<1>1. /\ asked[r] = None /\ thread[Posting(r)].at = "unsent"
      /\ asked' = [asked EXCEPT ![r] = [nonce |-> now, expires |-> now + Expiry, at |-> now]]
      /\ thread' = [thread EXCEPT ![Posting(r)].at = "wire"] /\ listens' = {Posting(r)}
      /\ UNCHANGED <<now, flight, orders>> /\ \A q \in DeskAsks : asked[q] # None => asked[q].at < now
  BY DEF Post, Sign, Posting, venueVars
<1>2. /\ Posting(r) \in Deliveries /\ r \in DOMAIN asked /\ now \in Nat /\ Expiry \in Nat /\ 0 < Expiry
      /\ DOMAIN thread = Deliveries
  BY PostingFacts, IntakeAssumption DEF NonceInv, Postings, Requests, Clocks
<1>3. asked'[r] = [nonce |-> now, expires |-> now + Expiry, at |-> now] /\ asked'[r] \in Asks /\ asked'[r] # None
  BY <1>1, <1>2, IntakeAssumption DEF Asks
<1>4. thread'[Posting(r)].at = "wire" /\ thread'[Posting(r)].answer = thread[Posting(r)].answer
  <2>1. thread[Posting(r)] = [at |-> thread[Posting(r)].at, answer |-> thread[Posting(r)].answer]
    BY <1>2 DEF NonceInv, Postings
  <2>2. thread'[Posting(r)] = [thread[Posting(r)] EXCEPT !.at = "wire"]
    BY <1>1, <1>2
  <2>3. thread'[Posting(r)] = [at |-> "wire", answer |-> thread[Posting(r)].answer]
    BY <2>1, <2>2
  <2> QED BY <2>3
<1>5. \A d \in Deliveries : d # Posting(r) => thread'[d] = thread[d]
  BY <1>1, <1>2
<1>6. \A q \in DeskAsks : q # r => asked'[q] = asked[q] /\ Posting(q) \in Deliveries /\ Posting(q) # Posting(r)
  BY <1>1, PostingFacts DEF Posting
<1>7. \A q : Ordered(q)' <=> Ordered(q)
  BY <1>1 DEF Ordered
<1>8. thread[Posting(r)].answer = "none" /\ Posting(r) \notin flight /\ ~Ordered(r)
  BY <1>1 DEF AttemptsInv, ThreadFits
<1>9. ~Goes(r) /\ Goes(r)'
  BY <1>1, <1>2, <1>3, <1>4, <1>8 DEF Goes, Posting
<1>10. ASSUME NEW q \in DeskAsks, q # r
       PROVE  AskFits(q)' /\ ThreadFits(q)' /\ TimeFits(q)' /\ (Goes(q)' <=> Goes(q))
  <2>1. thread'[Posting(q)] = thread[Posting(q)] /\ asked'[q] = asked[q] /\ Posting(q) \notin listens'
    BY <1>1, <1>5, <1>6, <1>10
  <2>2. Untouched(q)
    BY <1>1, <1>7, <2>1 DEF Untouched, Posting
  <2>3. Goes(q)' <=> Goes(q)
    BY <1>1, <2>1 DEF Goes, Posting
  <2> QED BY <1>1, <1>10, <2>2, <2>3, UntouchedFits DEF AttemptsInv
<1>11. AskFits(r)' /\ ThreadFits(r)' /\ TimeFits(r)'
  <2>1. AskFits(r)'
    BY <1>1, <1>2, <1>3 DEF AskFits, AttemptsInv
  <2>2. ThreadFits(r)'
    BY <1>1, <1>3, <1>4, <1>7, <1>8 DEF ThreadFits, Posting
  <2>3. TimeFits(r)'
    BY <1>1, <1>4, <1>8 DEF TimeFits, InGateway, Posting
  <2> QED BY <2>1, <2>2, <2>3
<1>12. Told'
  <2>1. \A q \in DeskAsks : q # r /\ asked'[q] # None => asked'[q].at < now /\ asked'[q].at \in Nat
    <3>1. \A q \in DeskAsks : asked[q] # None => asked[q].at \in Nat
      BY DEF AttemptsInv, AskFits, Asks
    <3> QED BY <1>1, <1>6, <3>1
  <2> QED BY <1>2, <1>3, <1>6, <2>1 DEF Told, AttemptsInv
<1>13. OrdersFit'
  <2>1. \A i \in DOMAIN orders : orders[i].ask # r
    BY <1>8 DEF Ordered
  <2> QED BY <1>1, <1>6, <2>1 DEF OrdersFit, AttemptsInv
<1>14. \A d \in flight' : Left(d)'
  BY <1>1, <1>4, <1>5 DEF AttemptsInv, Left
<1>15. AttemptsInv'
  BY <1>1, <1>10, <1>11, <1>12, <1>13, <1>14 DEF AttemptsInv
<1>16. MayStillGo' = MayStillGo \cup {r} /\ OnHyperliquid' = OnHyperliquid
  BY <1>7, <1>9, <1>10, BudgetSees, BudgetSeesNext
<1> QED BY <1>1, <1>3, <1>6, <1>8, <1>9, <1>15, <1>16 DEF Posting

LEMMA CountersForm ==
  ASSUME NEW book \in Counters
  PROVE  /\ book = [left |-> book.left, doubts |-> book.doubts, known |-> book.known]
         /\ book.left \in Nat /\ book.known \subseteq Nat
         /\ \A d \in book.doubts : d = [what |-> d.what, at |-> d.at] /\ d.what \in Range(What) /\ d.at \in Nat
BY DEF Counters

LEMMA DoubtsApart ==
  ASSUME AttemptsInv, NEW r \in DeskAsks, NEW q \in DeskAsks, asked[r] # None, asked[q] # None,
         DoubtOf(r) = DoubtOf(q)
  PROVE  r = q
<1>1. asked[r].at = asked[q].at
  BY DEF DoubtOf
<1> QED BY <1>1 DEF AttemptsInv, Told

LEMMA DoubtIsDoubt ==
  ASSUME AttemptsInv, NEW r \in DeskAsks, asked[r] # None
  PROVE  DoubtOf(r) \in [what : Range(What), at : Nat]
<1>1. asked[r].at \in Nat
  BY DEF AttemptsInv, AskFits, Asks
<1>2. r \in DOMAIN What
  BY IntakeAssumption DEF Requests
<1> QED BY <1>1, <1>2 DEF DoubtOf, Range

LEMMA PostBudget ==
  ASSUME BudgetInv, NEW P, Charges(P), NEW r \in DeskAsks, Post(r)
  PROVE  AttemptsInv' /\ DeskFits' /\ Charges(P \cup {r})' /\ BudgetStep
<1>1. /\ desk = None /\ file.left > 0 /\ desk' = [book |-> Charged(file), ask |-> r]
      /\ UNCHANGED <<file, behind, kills, orders>>
  BY DEF Post, venueVars
<1>2. /\ AttemptsInv' /\ ~Goes(r) /\ ~Ordered(r) /\ asked[r] = None
      /\ asked'[r] # None /\ asked'[r].at = now /\ Posting(r)' \in listens'
      /\ \A q \in DeskAsks \ {r} : asked'[q] = asked[q] /\ (asked[q] # None => asked[q].at < now)
      /\ MayStillGo' = MayStillGo \cup {r} /\ OnHyperliquid' = OnHyperliquid
  BY PostAttempts DEF BudgetInv
<1>3. DeskFits /\ file \in Counters
  BY DEF BudgetInv, DeskFits
<1>4. /\ Charged(file) = [left |-> file.left - 1, doubts |-> file.doubts, known |-> file.known]
      /\ file.left - 1 \in Nat
  BY <1>1, <1>3, CountersForm DEF Charged
<1>5. desk' \in [book : Counters, ask : DeskAsks] /\ desk' # None
  BY <1>1, <1>3, <1>4, DeskAssumption DEF Counters
<1>6. Book = file /\ Book' = Charged(file)
  BY <1>1, <1>5 DEF Book
<1>7. r \notin Doubtful'
  <2>1. \A q \in Doubtful : q \in DeskAsks \ {r} /\ DoubtOf(q).at # now
    BY <1>2 DEF Doubtful, DoubtOf, BudgetInv, NonceInv, Clocks, AttemptsInv, AskFits, Asks
  <2>2. file.doubts = {DoubtOf(q) : q \in Doubtful}
    BY <1>3, <1>6 DEF DeskFits
  <2>3. DoubtOf(r)'.at = now
    BY <1>2 DEF DoubtOf
  <2> QED BY <1>4, <1>6, <2>1, <2>2, <2>3, DoubtfulNext
<1>8. Doubtful' = Doubtful /\ \A q \in Doubtful : DoubtOf(q)' = DoubtOf(q)
  <2>1. \A q \in DeskAsks \ {r} : DoubtOf(q)' = DoubtOf(q) /\ asked'[q] = asked[q]
    BY <1>2 DEF DoubtOf
  <2>2. r \notin Doubtful
    BY <1>2 DEF Doubtful
  <2> QED BY <1>4, <1>6, <1>7, <2>1, <2>2, DoubtfulNext DEF Doubtful
<1>9. DeskFits'
  <2>1. Book'.doubts = {DoubtOf(q)' : q \in Doubtful'}
    BY <1>3, <1>4, <1>6, <1>8 DEF DeskFits
  <2>2. \A i \in Book'.known : i \in DOMAIN orders /\ orders[i].ask \notin Doubtful' /\ ~Waits(orders[i].ask)'
    <3>1. \A i \in DOMAIN orders : orders[i].ask # r
      BY <1>2 DEF Ordered
    <3>2. \A i \in Book'.known : i \in DOMAIN orders /\ orders[i].ask \notin Doubtful
      BY <1>3, <1>4, <1>6 DEF DeskFits
    <3>3. \A i \in DOMAIN orders : ~Waits(orders[i].ask)'
      BY <1>1, <3>1 DEF Waits
    <3> QED BY <1>8, <3>2, <3>3
  <2>3. desk'.ask = r /\ desk'.book = Charged(file)
    BY <1>1
  <2> QED BY <1>1, <1>2, <1>3, <1>5, <1>7, <2>1, <2>2, <2>3 DEF DeskFits, Charged, Posting
<1>10. r \notin P /\ Spent' = Spent + 1
  <2>1. OrdersLeft = file.left /\ OrdersLeft' = file.left - 1
    BY <1>1, <1>4, <1>6, OrdersLeftIs
  <2>2. file.left \in Nat /\ kills \in Nat /\ MaxOrders \in Nat
    BY <1>3, CountersForm, DeskAssumption DEF DeskFits
  <2> QED BY <1>1, <1>2, <2>1, <2>2 DEF Charges, Spent
<1>11. Charges(P \cup {r})'
  <2>1. IsFiniteSet(P \cup {r}) /\ Cardinality(P \cup {r}) = Spent'
    BY <1>10, FS_AddElement DEF Charges
  <2>2. P \cup {r} \subseteq {q \in DeskAsks : asked'[q] # None}
    BY <1>2 DEF Charges
  <2>3. OnHyperliquid' \cup MayStillGo' \cup Doubtful' \subseteq P \cup {r}
    BY <1>2, <1>8 DEF Charges
  <2>4. desk'.ask = r
    BY <1>1
  <2> QED BY <2>1, <2>2, <2>3, <2>4 DEF Charges
<1>12. Budget!Spend(r)
  <2>1. r \notin MayStillGo \cup OnHyperliquid
    BY <1>2, BudgetSees
  <2>2. (MaxOrders - OrdersLeft + kills)' = (MaxOrders - OrdersLeft + kills) + 1
    BY <1>10 DEF Spent
  <2> QED BY <1>2, <2>1, <2>2 DEF Budget!Spend
<1>13. BudgetStep
  BY <1>12 DEF BudgetStep, Budget!Next
<1> QED BY <1>2, <1>9, <1>11, <1>13

\* Charges that are given back, or none, while nothing goes and nothing lands.
LEMMA GivesBack ==
  ASSUME NEW P, Charges(P), NEW Q, Charges(Q)', Q \subseteq P, UNCHANGED <<MayStillGo, OnHyperliquid>>
  PROVE  BudgetStep
<1>1. IsFiniteSet(P) /\ IsFiniteSet(Q) /\ Cardinality(P) = Spent /\ Cardinality(Q) = Spent'
  BY DEF Charges
<1>2. Cardinality(Q) \in Nat /\ Cardinality(P) \in Nat /\ Cardinality(Q) <= Cardinality(P)
  BY <1>1, FS_CardinalityType, FS_Subset
<1>3. OnHyperliquid \cup MayStillGo \subseteq Q
  BY DEF Charges
<1>4. Cardinality(OnHyperliquid \cup MayStillGo) <= Cardinality(Q)
  BY <1>1, <1>3, FS_Subset
<1>5. Spent' \in 0..Spent /\ Cardinality(OnHyperliquid \cup MayStillGo) <= Spent'
  BY <1>1, <1>2, <1>4
<1>6. Budget!GiveBack
  BY <1>5 DEF Budget!GiveBack, Spent, Budget!Cardinality, Cardinality
<1> QED BY <1>6 DEF BudgetStep, Budget!Next

LEMMA EndAttempts ==
  ASSUME NonceInv, AttemptsInv, desk # None, desk.ask \in DeskAsks, NEW book, End(book)
  PROVE  /\ AttemptsInv' /\ UNCHANGED <<asked, orders, behind, kills, MayStillGo, OnHyperliquid>>
         /\ file' = book /\ desk' = None
<1> DEFINE p == Posting(desk.ask)
<1>1. /\ UNCHANGED <<now, asked, flight, orders, behind, kills>> /\ file' = book /\ desk' = None /\ listens' = {}
  BY DEF End, venueVars
<1>2. /\ p \in Deliveries /\ DOMAIN thread = Deliveries
      /\ thread' = [thread EXCEPT ![p].answer = IF thread[p].at = "answered" THEN "none" ELSE @]
  BY PostingFacts DEF End, Posting, NonceInv, Postings
<1> HIDE DEF p
<1>3. /\ thread'[p].at = thread[p].at
      /\ thread'[p].answer = IF thread[p].at = "answered" THEN "none" ELSE thread[p].answer
  <2>1. thread[p] = [at |-> thread[p].at, answer |-> thread[p].answer]
    BY <1>2 DEF NonceInv, Postings
  <2>2. thread'[p] = [thread[p] EXCEPT !.answer = IF thread[p].at = "answered" THEN "none" ELSE @]
    BY <1>2
  <2>3. thread'[p] = [at |-> thread[p].at, answer |-> IF thread[p].at = "answered" THEN "none" ELSE thread[p].answer]
    BY <2>1, <2>2
  <2> QED BY <2>3
<1>4. \A d \in Deliveries : d # p => thread'[d] = thread[d]
  BY <1>2
<1>5. \A d \in Deliveries : thread'[d].at = thread[d].at
  BY <1>3, <1>4
<1>6. \A r : Ordered(r)' <=> Ordered(r)
  BY <1>1 DEF Ordered
<1>7. ASSUME NEW r \in DeskAsks
      PROVE  AskFits(r)' /\ ThreadFits(r)' /\ TimeFits(r)' /\ (Goes(r)' <=> Goes(r))
  <2>1. Posting(r) \in Deliveries /\ thread'[Posting(r)].at = thread[Posting(r)].at
    BY <1>5, PostingFacts
  <2>2. /\ thread'[Posting(r)].answer = IF Posting(r) = p /\ thread[Posting(r)].at = "answered" THEN "none"
                                        ELSE thread[Posting(r)].answer
        /\ AskFits(r) /\ ThreadFits(r) /\ TimeFits(r)
    BY <1>3, <1>4, <2>1 DEF AttemptsInv
  <2>3. ThreadFits(r)'
    <3>1. Posting(r) \notin listens'
      BY <1>1
    <3> QED BY <1>1, <1>6, <2>1, <2>2, <3>1 DEF ThreadFits, Posting
  <2>4. AskFits(r)' /\ TimeFits(r)' /\ (Goes(r)' <=> Goes(r))
    BY <1>1, <2>1, <2>2 DEF AskFits, TimeFits, InGateway, Goes, Posting
  <2> QED BY <2>3, <2>4
<1>8. AttemptsInv'
  <2>1. \A d \in flight' : Left(d)'
    BY <1>1, <1>5 DEF AttemptsInv, Left
  <2>2. OrdersFit' /\ Told'
    BY <1>1 DEF AttemptsInv, OrdersFit, Told
  <2> QED BY <1>1, <1>7, <2>1, <2>2 DEF AttemptsInv
<1>9. UNCHANGED <<MayStillGo, OnHyperliquid>>
  BY <1>6, <1>7, BudgetSees, BudgetSeesNext
<1> QED BY <1>1, <1>8, <1>9

\* What a command leaves in the file: at most one doubt more, or oids that nothing doubts.
LEMMA CommandLeaves ==
  ASSUME BudgetInv, AttemptsInv', desk # None, desk' = None, UNCHANGED <<asked, orders, behind>>,
         file' \in Counters, kills' \in Nat,
         file'.doubts = desk.book.doubts \/ file'.doubts = desk.book.doubts \cup {DoubtOf(desk.ask)},
         \A i \in file'.known :
           /\ i \in DOMAIN orders /\ orders[i].ask \notin Doubtful
           /\ file'.doubts = desk.book.doubts \/ orders[i].ask # desk.ask
  PROVE  /\ DeskFits'
         /\ Doubtful' = IF file'.doubts = desk.book.doubts THEN Doubtful ELSE Doubtful \cup {desk.ask}
<1>1. /\ desk.ask \in DeskAsks /\ asked[desk.ask] # None /\ Book = desk.book /\ Book' = file'
      /\ desk.book.doubts = {DoubtOf(r) : r \in Doubtful} /\ desk.ask \notin Doubtful
  BY DEF BudgetInv, DeskFits, Book
<1>2. \A r \in DeskAsks : DoubtOf(r)' = DoubtOf(r)
  BY DEF DoubtOf
<1>3. Doubtful' = {r \in DeskAsks : asked[r] # None /\ DoubtOf(r) \in file'.doubts}
  BY <1>1, <1>2, DoubtfulNext
<1>4. DoubtOf(desk.ask) \notin desk.book.doubts
  BY <1>1 DEF Doubtful
<1>5. \A r \in DeskAsks : asked[r] # None /\ DoubtOf(r) = DoubtOf(desk.ask) => r = desk.ask
  BY <1>1, DoubtsApart DEF BudgetInv
<1>6. Doubtful' = IF file'.doubts = desk.book.doubts THEN Doubtful ELSE Doubtful \cup {desk.ask}
  BY <1>1, <1>3, <1>4, <1>5 DEF Doubtful
<1>7. file'.doubts = {DoubtOf(r)' : r \in Doubtful'}
  <2>1. Doubtful' \subseteq DeskAsks
    BY <1>3
  <2>2. {DoubtOf(r)' : r \in Doubtful'} = {DoubtOf(r) : r \in Doubtful'}
    BY <1>2, <2>1
  <2>3. CASE file'.doubts = desk.book.doubts
    BY <1>1, <1>6, <2>2, <2>3
  <2>4. CASE file'.doubts # desk.book.doubts
    BY <1>1, <1>6, <2>2, <2>4
  <2> QED BY <2>3, <2>4
<1>8. \A i \in file'.known : i \in DOMAIN orders' /\ orders'[i].ask \notin Doubtful' /\ ~Waits(orders[i].ask)'
  <2>1. \A q : ~Waits(q)'
    BY DEF Waits
  <2>2. ASSUME NEW i \in file'.known PROVE i \in DOMAIN orders /\ orders[i].ask \notin Doubtful'
    <3>1. CASE file'.doubts = desk.book.doubts
      BY <1>6, <3>1
    <3>2. CASE file'.doubts # desk.book.doubts
      BY <1>6, <3>2
    <3> QED BY <3>1, <3>2
  <2> QED BY <2>1, <2>2
<1> QED BY <1>1, <1>6, <1>7, <1>8 DEF BudgetInv, DeskFits

\* What a command that waits has of its own.
LEMMA CommandFacts ==
  ASSUME BudgetInv, desk # None
  PROVE  /\ desk.ask \in DeskAsks /\ asked[desk.ask] # None /\ Posting(desk.ask) \in listens
         /\ Book = desk.book /\ desk.book \in Counters /\ desk.ask \notin Doubtful
         /\ \A i \in desk.book.known :
              i \in DOMAIN orders /\ orders[i].ask \notin Doubtful /\ orders[i].ask # desk.ask
         /\ DoubtOf(desk.ask) \in [what : Range(What), at : Nat]
<1>1. /\ desk.ask \in DeskAsks /\ asked[desk.ask] # None /\ Posting(desk.ask) \in listens
      /\ Book = desk.book /\ desk.book \in Counters /\ desk.ask \notin Doubtful
  BY DEF BudgetInv, DeskFits, Book
<1>2. \A i \in desk.book.known : i \in DOMAIN orders /\ orders[i].ask \notin Doubtful /\ orders[i].ask # desk.ask
  BY <1>1 DEF BudgetInv, DeskFits, Waits
<1>3. DoubtOf(desk.ask) \in [what : Range(What), at : Nat]
  BY <1>1, DoubtIsDoubt DEF BudgetInv
<1> QED BY <1>1, <1>2, <1>3

\* A command ends with its charge kept: its order stands, was refused, or is doubted.
LEMMA ChargeKept ==
  ASSUME BudgetInv, NEW P, Charges(P), desk # None, desk' = None, DeskFits',
         Doubtful' \subseteq Doubtful \cup {desk.ask},
         file'.left + kills = desk.book.left + kills', file'.left \in Nat,
         UNCHANGED <<asked, MayStillGo, OnHyperliquid>>
  PROVE  Charges(P)' /\ BudgetStep
<1>1. Spent' = Spent
  <2>1. OrdersLeft = desk.book.left /\ OrdersLeft' = file'.left
    BY DEF OrdersLeft
  <2>2. desk.book.left \in Nat /\ kills \in Nat /\ kills' \in Nat /\ MaxOrders \in Nat
    BY CommandFacts, CountersForm, DeskAssumption DEF DeskFits, BudgetInv
  <2> QED BY <2>1, <2>2 DEF Spent
<1>2. Charges(P)'
  BY <1>1 DEF Charges
<1> QED BY <1>2, GivesBack

LEMMA WithDoubtIs ==
  ASSUME NEW book \in Counters, NEW r
  PROVE  WithDoubt(book, r) = [left |-> book.left, doubts |-> book.doubts \cup {DoubtOf(r)}, known |-> book.known]
<1> DEFINE more == {DoubtOf(r)}
<1>1. WithDoubt(book, r) = [book EXCEPT !.doubts = @ \cup more]
  BY DEF WithDoubt, DoubtOf
<1> HIDE DEF more
<1>2. book = [left |-> book.left, doubts |-> book.doubts, known |-> book.known]
  BY CountersForm
<1>3. WithDoubt(book, r) = [left |-> book.left, doubts |-> book.doubts \cup more, known |-> book.known]
  BY <1>1, <1>2
<1> QED BY <1>3 DEF more

LEMMA HearBudget ==
  ASSUME BudgetInv, NEW P, Charges(P), HearAnswer \/ HearNothing
  PROVE  AttemptsInv' /\ DeskFits' /\ BudgetStep /\ \E Q : Charges(Q)'
<1> DEFINE r == desk.ask
           b == desk.book
<1>1. /\ desk # None /\ r \in DeskAsks /\ Posting(r) \in Deliveries /\ b \in Counters
      /\ \E book : End(book)
  BY CommandFacts, PostingFacts DEF HearAnswer, HearNothing
<1>2. /\ AttemptsInv' /\ UNCHANGED <<asked, orders, behind, kills, MayStillGo, OnHyperliquid>> /\ desk' = None
  BY <1>1, EndAttempts DEF BudgetInv
<1>3. \/ file' = WithDoubt(b, r) \/ file' = b
      \/ file' = [b EXCEPT !.known = @ \cup {i \in DOMAIN orders : orders[i].ask = r}]
      \/ file' = GivenBack(b) /\ ~Goes(r) /\ ~Ordered(r)
  <2>1. CASE HearNothing
    BY <2>1 DEF HearNothing, End
  <2>2. CASE HearAnswer
    <3>1. thread[Posting(r)].at = "answered" /\ file' = AfterAnswer(thread[Posting(r)].answer, r, b)
      BY <2>2 DEF HearAnswer, End, Posting
    <3>2. thread[Posting(r)].answer \in Answers /\ ThreadFits(r)
      BY <1>1, <3>1, CommandFacts DEF BudgetInv, AttemptsInv, ThreadFits
    <3>3. CASE thread[Posting(r)].answer = "not_sent"
      <4>1. ~Goes(r) /\ ~Ordered(r)
        BY <3>1, <3>2, <3>3 DEF ThreadFits, Goes
      <4> QED BY <3>1, <3>3, <4>1 DEF AfterAnswer
    <3>4. CASE thread[Posting(r)].answer \in {"submitted", "refused", "replayed", "unclear"}
      BY <3>1, <3>4 DEF AfterAnswer
    <3> QED BY <3>2, <3>3, <3>4 DEF Answers
  <2> QED BY <2>1, <2>2
<1>4. /\ b = [left |-> b.left, doubts |-> b.doubts, known |-> b.known]
      /\ b.left \in Nat /\ b.known \subseteq Nat /\ b.doubts \in SUBSET [what : Range(What), at : Nat]
  BY <1>1 DEF Counters
<1>5. kills \in Nat
  BY DEF BudgetInv, DeskFits
<1>6. DOMAIN orders \subseteq Nat
  BY DEF BudgetInv, AttemptsInv, OrdersFit
<1>7. /\ DoubtOf(r) \in [what : Range(What), at : Nat] /\ r \notin Doubtful
      /\ \A i \in b.known : i \in DOMAIN orders /\ orders[i].ask \notin Doubtful /\ orders[i].ask # r
  BY <1>1, CommandFacts
<1>8. WithDoubt(b, r) = [left |-> b.left, doubts |-> b.doubts \cup {DoubtOf(r)}, known |-> b.known]
  BY <1>1, WithDoubtIs
<1>9. GivenBack(b) = [left |-> b.left + 1, doubts |-> b.doubts, known |-> b.known]
  BY <1>4 DEF GivenBack
<1> HIDE DEF r, b
<1>10. CASE file' = WithDoubt(b, r) \/ file' = b
  <2>1. file' \in Counters /\ file'.left = b.left /\ file'.known = b.known
        /\ (file'.doubts = b.doubts \/ file'.doubts = b.doubts \cup {DoubtOf(r)})
    BY <1>1, <1>4, <1>7, <1>8, <1>10 DEF Counters
  <2>2. DeskFits' /\ Doubtful' \subseteq Doubtful \cup {r}
    BY <1>1, <1>2, <1>5, <1>7, <2>1, CommandLeaves DEF r, b
  <2>3. Charges(P)' /\ BudgetStep
    BY <1>1, <1>2, <1>4, <2>1, <2>2, ChargeKept DEF r, b
  <2> QED BY <1>2, <2>2, <2>3
<1>11. CASE file' = [b EXCEPT !.known = @ \cup {i \in DOMAIN orders : orders[i].ask = r}]
  <2>1. file' \in Counters /\ file'.left = b.left /\ file'.doubts = b.doubts
        /\ file'.known = b.known \cup {i \in DOMAIN orders : orders[i].ask = r}
    BY <1>4, <1>6, <1>11 DEF Counters
  <2>2. DeskFits' /\ Doubtful' \subseteq Doubtful \cup {r}
    BY <1>1, <1>2, <1>5, <1>7, <2>1, CommandLeaves DEF r, b
  <2>3. Charges(P)' /\ BudgetStep
    BY <1>1, <1>2, <1>4, <2>1, <2>2, ChargeKept DEF r, b
  <2> QED BY <1>2, <2>2, <2>3
<1>12. CASE file' = GivenBack(b) /\ ~Goes(r) /\ ~Ordered(r)
  <2>1. file' \in Counters /\ file'.left = b.left + 1 /\ file'.doubts = b.doubts /\ file'.known = b.known
    BY <1>4, <1>9, <1>12 DEF Counters
  <2>2. DeskFits' /\ Doubtful' = Doubtful
    BY <1>1, <1>2, <1>5, <1>7, <2>1, CommandLeaves DEF r, b
  <2>3. Spent' = Spent - 1 /\ r \in P
    <3>1. OrdersLeft = b.left /\ OrdersLeft' = b.left + 1 /\ MaxOrders \in Nat
      BY <1>1, <1>2, <2>1, DeskAssumption DEF OrdersLeft, b
    <3> QED BY <1>1, <1>2, <1>4, <1>5, <3>1 DEF Spent, Charges, r
  <2>4. PICK Q : Q = P \ {r}
    OBVIOUS
  <2>5. IsFiniteSet(Q) /\ Cardinality(Q) = Spent'
    BY <2>3, <2>4, FS_RemoveElement DEF Charges
  <2>6. Charges(Q)'
    <3>1. OnHyperliquid' \cup MayStillGo' \cup Doubtful' \subseteq Q
      BY <1>2, <1>7, <1>12, <2>2, <2>4, BudgetSees DEF Charges
    <3>2. Q \subseteq {q \in DeskAsks : asked'[q] # None}
      BY <1>2, <2>4 DEF Charges
    <3> QED BY <1>2, <2>5, <3>1, <3>2 DEF Charges
  <2>7. BudgetStep
    BY <1>2, <2>4, <2>6, GivesBack
  <2> QED BY <1>2, <2>2, <2>6, <2>7
<1> QED BY <1>3, <1>10, <1>11, <1>12

LEMMA KillBudget ==
  ASSUME BudgetInv, NEW P, Charges(P), Kill
  PROVE  AttemptsInv' /\ DeskFits' /\ Charges(P)' /\ BudgetStep
<1>1. /\ desk # None /\ desk' = None /\ kills' = kills + 1 /\ listens' = {}
      /\ UNCHANGED <<now, asked, thread, flight, orders, file, behind>>
  BY DEF Kill, venueVars
<1>2. \A r : (Ordered(r)' <=> Ordered(r)) /\ (Goes(r)' <=> Goes(r))
  BY <1>1 DEF Ordered, Goes, Posting
<1>3. \A r \in DeskAsks : Untouched(r)
  BY <1>1, <1>2 DEF Untouched, Posting
<1>4. AttemptsInv'
  BY <1>1, <1>3, UntouchedFits DEF AttemptsInv, BudgetInv, OrdersFit, Told, Left
<1>5. UNCHANGED <<MayStillGo, OnHyperliquid>>
  BY <1>2, BudgetSees, BudgetSeesNext
<1>6. /\ desk.book = [left |-> file.left - 1, doubts |-> file.doubts, known |-> file.known]
      /\ file \in Counters /\ file.left \in Nat /\ file.left > 0 /\ kills \in Nat
  BY <1>1, CountersForm DEF BudgetInv, DeskFits, Charged
<1>7. DeskFits' /\ Doubtful' = Doubtful
  BY <1>1, <1>4, <1>6, CommandFacts, CommandLeaves
<1>8. Charges(P)' /\ BudgetStep
  BY <1>1, <1>5, <1>6, <1>7, ChargeKept
<1> QED BY <1>4, <1>7, <1>8

----------------------------------------------------------------------------
\* The doubts settled.  What the history is asked for:

\* ... no two attempts of the desk ask for the same;
AttemptsDiffer == \A r, q \in DeskAsks : What[r] = What[q] => r = q

\* ... a doubt is let alone until its request has expired and is through;
SettledLate == SettleAfter > Expiry + HandleTime

\* ... and where more orders came than the history holds, the clocks are less than the skew apart.
HistoryTells == behind < Skew \/ Len(orders) <= HistoryLimit

LEMMA HistoryIs ==
  ASSUME AttemptsInv
  PROVE  /\ Len(orders) \in Nat /\ DOMAIN orders = 1..Len(orders) /\ History \subseteq DOMAIN orders
         /\ \A i \in DOMAIN orders : orders[i].stamp \in Nat /\ orders[i].ask \in Requests
         /\ Len(orders) > HistoryLimit => Cardinality(History) = HistoryLimit
<1>1. orders \in Seq([ask : Requests, stamp : Nat])
  BY DEF AttemptsInv, OrdersFit
<1>2. Len(orders) \in Nat /\ DOMAIN orders = 1..Len(orders) /\ HistoryLimit \in Nat
  BY <1>1, DeskAssumption
<1>3. \A i \in DOMAIN orders : orders[i] \in [ask : Requests, stamp : Nat]
  BY <1>1, <1>2, ElementOfSeq
<1>4. ASSUME Len(orders) > HistoryLimit PROVE Cardinality(History) = HistoryLimit
  <2>1. History = (Len(orders) - HistoryLimit + 1)..Len(orders)
    BY <1>2, <1>4 DEF History
  <2>2. Cardinality((Len(orders) - HistoryLimit + 1)..Len(orders)) = HistoryLimit
    <3>1. Len(orders) - HistoryLimit + 1 \in Int /\ Len(orders) \in Int
      BY <1>2
    <3>2. Cardinality((Len(orders) - HistoryLimit + 1)..Len(orders)) =
            IF Len(orders) - HistoryLimit + 1 > Len(orders) THEN 0
            ELSE Len(orders) - (Len(orders) - HistoryLimit + 1) + 1
      BY <3>1, FS_Interval
    <3> QED BY <1>2, <1>4, <3>2
  <2> QED BY <2>1, <2>2
<1> QED BY <1>2, <1>3, <1>4 DEF History

\* An order that is not in a full history is older than what that settles.
LEMMA HistoryHolds ==
  ASSUME AttemptsInv, DeskFits, HistoryTells, NEW i \in DOMAIN orders, NEW d, d.at \in Nat,
         d.at <= orders[i].stamp, d.at - Skew >= CompleteFrom, now \in Nat, now > 1
  PROVE  i \in History
<1> SUFFICES ASSUME i \notin History PROVE FALSE
  OBVIOUS
<1>1. /\ Len(orders) \in Nat /\ i \in 1..Len(orders) /\ HistoryLimit \in Nat /\ Skew \in Nat /\ MaxTime \in Nat
      /\ now \in Nat /\ now <= MaxTime /\ behind \in Nat /\ Len(orders) - i >= HistoryLimit
  <2>1. Len(orders) \in Nat /\ i \in 1..Len(orders) /\ HistoryLimit \in Nat /\ Skew \in Nat /\ MaxTime \in Nat
    BY HistoryIs, IntakeAssumption, DeskAssumption
  <2>2. now <= MaxTime /\ behind \in Nat
    BY DEF AttemptsInv, DeskFits
  <2>3. ~(Len(orders) - i < HistoryLimit)
    BY DEF History
  <2> QED BY <2>1, <2>2, <2>3
<1>2. Len(orders) > HistoryLimit /\ behind < Skew /\ Cardinality(History) = HistoryLimit
  BY <1>1, HistoryIs DEF HistoryTells
<1> DEFINE S == {Stamp(j) : j \in History} \cup {MaxTime}
<1>3. CompleteFrom = Min(S)
  BY <1>1, <1>2 DEF CompleteFrom
<1>4. \A j \in DOMAIN orders : /\ orders[j].stamp \in Nat /\ orders[j].stamp <= now
                               /\ \A k \in DOMAIN orders : j <= k => orders[j].stamp <= orders[k].stamp
  BY HistoryIs DEF AttemptsInv, OrdersFit
<1>5. \A x \in S : x \in Int /\ x >= orders[i].stamp - behind
  <2>1. \A j \in History : j \in DOMAIN orders /\ i <= j
    BY <1>1 DEF History
  <2> QED BY <1>1, <1>4, <2>1 DEF Stamp
<1>6. \E x \in S : \A y \in S : x <= y
  <2>1. CASE HistoryLimit = 0
    <3>1. History = {}
      BY <1>1, <2>1, HistoryIs DEF History
    <3> QED BY <1>1, <3>1
  <2>2. CASE HistoryLimit > 0
    <3> DEFINE lo == Len(orders) - HistoryLimit + 1
    <3>1. lo \in DOMAIN orders /\ lo \in History /\ \A j \in History : j \in DOMAIN orders /\ lo <= j
      BY <1>1, <1>2, <2>2, HistoryIs DEF History
    <3> HIDE DEF lo
    <3>2. \A y \in S : Stamp(lo) <= y
      <4>1. orders[lo].stamp \in Nat /\ orders[lo].stamp <= now
        BY <1>4, <3>1
      <4>2. Stamp(lo) <= MaxTime
        BY <1>1, <4>1 DEF Stamp
      <4>3. \A j \in History : Stamp(lo) <= Stamp(j)
        BY <1>1, <1>4, <3>1 DEF Stamp
      <4> QED BY <4>2, <4>3
    <3>3. Stamp(lo) \in S
      BY <3>1
    <3> QED BY <3>2, <3>3
  <2> QED BY <1>1, <2>1, <2>2
<1> HIDE DEF S
<1>7. Min(S) \in S
  BY <1>6 DEF Min
<1> QED BY <1>1, <1>2, <1>3, <1>4, <1>5, <1>7

\* The attempt a doubt is of.
LEMMA DoubtedIs ==
  ASSUME BudgetInv, desk = None, NEW d \in file.doubts
  PROVE  \E r \in Doubtful : r \in DeskAsks /\ asked[r] # None /\ d = DoubtOf(r) /\ d.what = What[r] /\ d.at = asked[r].at
<1>1. PICK r \in Doubtful : d = DoubtOf(r)
  BY DEF BudgetInv, DeskFits, Book
<1> QED BY <1>1 DEF Doubtful, DoubtOf

\* What a doubt takes for its order.
LEMMA SettlementIs ==
  ASSUME AttemptsInv, NEW f \in Settlements(file), NEW d \in Due(file)
  PROVE  /\ f \in [Due(file) -> History \cup {None}]
         /\ f[d] # None => f[d] \in History /\ SameOrder(f[d], d)
         /\ f[d] = None => \A i \in History : SameOrder(i, d) =>
                             i \in file.known \/ \E e \in Due(file) : e.at < d.at /\ f[e] = i
<1> DEFINE free == {i \in History : SameOrder(i, d)} \ (file.known \cup {f[e] : e \in {e \in Due(file) : e.at < d.at}})
<1>1. f \in [Due(file) -> History \cup {None}] /\ (IF free = {} THEN f[d] = None ELSE f[d] \in free)
  BY DEF Settlements
<1>2. None \notin History
  BY HistoryIs, IntakeAssumption
<1> QED BY <1>1, <1>2

\* A doubt that found no order is of an attempt that is not on Hyperliquid, nor will be.
LEMMA FoundNone ==
  ASSUME BudgetInv, AttemptsDiffer, SettledLate, HistoryTells, desk = None, NEW f \in Settlements(file),
         NEW r \in Doubtful, DoubtOf(r) \in Due(file), f[DoubtOf(r)] = None
  PROVE  ~Goes(r) /\ ~Ordered(r)
<1> DEFINE d == DoubtOf(r)
<1>1. /\ r \in DeskAsks /\ asked[r] # None /\ d.what = What[r] /\ d.at = asked[r].at
      /\ now - d.at >= SettleAfter /\ d.at - Skew >= CompleteFrom
  BY DEF Doubtful, DoubtOf, Due
<1>2. /\ asked[r].at \in Nat /\ asked[r].expires = asked[r].at + Expiry /\ 1 <= asked[r].at
      /\ now \in Nat /\ {Expiry, HandleTime, SettleAfter, Skew} \subseteq Nat
  BY <1>1, IntakeAssumption, DeskAssumption DEF BudgetInv, AttemptsInv, AskFits, Asks, NonceInv, Clocks
<1>3. now > asked[r].expires + HandleTime /\ now > 1
  BY <1>1, <1>2 DEF SettledLate
<1>4. ~Goes(r)
  BY <1>1, <1>2, <1>3 DEF Goes, BudgetInv, AttemptsInv, TimeFits, InGateway
<1>5. ASSUME NEW i \in DOMAIN orders, orders[i].ask = r PROVE FALSE
  <2>1. asked[r].at <= orders[i].stamp /\ orders[i].stamp \in Nat
    BY <1>1, <1>5, HistoryIs DEF BudgetInv, AttemptsInv, OrdersFit
  <2>2. i \in History
    BY <1>1, <1>2, <1>3, <2>1, HistoryHolds DEF BudgetInv
  <2>3. SameOrder(i, d)
    BY <1>1, <1>2, <1>5, <2>1 DEF SameOrder, Stamp, BudgetInv, DeskFits
  <2>4. i \notin file.known
    BY <1>5 DEF BudgetInv, DeskFits, Book
  <2>5. PICK e \in Due(file) : e.at < d.at /\ f[e] = i
    BY <2>2, <2>3, <2>4, SettlementIs DEF BudgetInv
  <2>6. i # None
    BY <2>2, HistoryIs, IntakeAssumption DEF BudgetInv
  <2>7. SameOrder(i, e)
    BY <2>5, <2>6, SettlementIs DEF BudgetInv
  <2>8. PICK q \in Doubtful : q \in DeskAsks /\ e = DoubtOf(q) /\ e.what = What[q]
    BY DoubtedIs DEF Due
  <2>9. q = r
    BY <1>1, <1>5, <2>7, <2>8 DEF AttemptsDiffer, SameOrder
  <2> QED BY <1>1, <1>2, <2>5, <2>8, <2>9
<1> QED BY <1>4, <1>5 DEF Ordered

\* What is settled is doubted no more, and the order an attempt is settled by is its own.
LEMMA SettleLeaves ==
  ASSUME BudgetInv, AttemptsDiffer, NEW f \in Settlements(file), desk = None,
         UNCHANGED <<asked, orders, desk, behind, kills>>, file' = Settled(file, f),
         Cardinality({d \in DOMAIN f : f[d] = None}) \in Nat
  PROVE  /\ DeskFits' /\ Doubtful' = {r \in Doubtful : DoubtOf(r) \notin Due(file)}
         /\ file'.left = file.left + Cardinality({d \in DOMAIN f : f[d] = None})
<1>1. /\ Book = file /\ Book' = file' /\ file \in Counters /\ file.doubts = {DoubtOf(r) : r \in Doubtful}
      /\ behind \in Nat /\ behind <= Skew /\ kills \in Nat
      /\ \A i \in file.known : i \in DOMAIN orders /\ orders[i].ask \notin Doubtful
  BY DEF BudgetInv, DeskFits, Book
<1>2. /\ f \in [Due(file) -> History \cup {None}] /\ DOMAIN f = Due(file)
      /\ \A d \in Due(file) : f[d] # None => f[d] \in History /\ SameOrder(f[d], d)
  BY SettlementIs DEF BudgetInv, Settlements
<1>3. /\ file'.left = file.left + Cardinality({d \in DOMAIN f : f[d] = None})
      /\ file'.doubts = file.doubts \ Due(file) /\ file'.known = file.known \cup (Range(f) \ {None})
  BY <1>2 DEF Settled
<1>4. \A i \in Range(f) \ {None} :
        i \in DOMAIN orders /\ \E d \in Due(file) : SameOrder(i, d)
  BY <1>2, HistoryIs DEF Range, BudgetInv
<1>5. \A r \in DeskAsks : DoubtOf(r)' = DoubtOf(r)
  BY DEF DoubtOf
<1>6. Doubtful' = {r \in Doubtful : DoubtOf(r) \notin Due(file)}
  BY <1>1, <1>3, <1>5, DoubtfulNext DEF Doubtful
<1>7. file' \in Counters
  <2>1. DOMAIN orders \subseteq Nat
    BY HistoryIs DEF BudgetInv
  <2>2. file'.known \subseteq Nat /\ file'.left \in Nat /\ file'.doubts \in SUBSET [what : Range(What), at : Nat]
    BY <1>1, <1>3, <1>4, <2>1 DEF Counters
  <2>3. file' = [left |-> file'.left, doubts |-> file'.doubts, known |-> file'.known]
    BY DEF Settled
  <2> QED BY <2>2, <2>3 DEF Counters
<1>8. file'.doubts = {DoubtOf(r)' : r \in Doubtful'}
  <2>1. {DoubtOf(r)' : r \in Doubtful'} = {DoubtOf(r) : r \in Doubtful'}
    BY <1>5, <1>6 DEF Doubtful
  <2>2. {DoubtOf(r) : r \in Doubtful'} = {DoubtOf(r) : r \in Doubtful} \ Due(file)
    BY <1>6
  <2> QED BY <1>1, <1>3, <2>1, <2>2
<1>9. ASSUME NEW i \in Range(f) \ {None} PROVE orders[i].ask \notin Doubtful'
  <2> SUFFICES ASSUME orders[i].ask \in Doubtful' PROVE FALSE
    OBVIOUS
  <2>1. PICK d \in Due(file) : SameOrder(i, d)
    BY <1>4
  <2>2. d \in file.doubts
    BY <2>1 DEF Due
  <2>3. PICK r \in Doubtful : r \in DeskAsks /\ d = DoubtOf(r) /\ d.what = What[r]
    BY <2>2, DoubtedIs
  <2>4. orders[i].ask \in DeskAsks
    BY <1>6 DEF Doubtful
  <2>5. orders[i].ask = r
    BY <2>1, <2>3, <2>4 DEF SameOrder, AttemptsDiffer
  <2> QED BY <1>6, <2>1, <2>3, <2>5
<1>10. \A i \in file'.known : i \in DOMAIN orders' /\ orders'[i].ask \notin Doubtful' /\ ~Waits(orders[i].ask)'
  <2>1. \A q : ~Waits(q)'
    BY DEF Waits
  <2>2. \A i \in file'.known : i \in DOMAIN orders /\ orders[i].ask \notin Doubtful'
    BY <1>1, <1>3, <1>4, <1>6, <1>9
  <2> QED BY <2>1, <2>2
<1> QED BY <1>1, <1>3, <1>6, <1>7, <1>8, <1>10 DEF DeskFits

\* As many attempts as doubts.
LEMMA DoubtsCounted ==
  ASSUME BudgetInv, desk = None, NEW N, N \subseteq file.doubts, IsFiniteSet(Doubtful)
  PROVE  LET R == {r \in Doubtful : DoubtOf(r) \in N}
         IN  IsFiniteSet(N) /\ Cardinality(N) = Cardinality(R)
<1> DEFINE R == {r \in Doubtful : DoubtOf(r) \in N}
           m == [r \in R |-> DoubtOf(r)]
<1>1. IsFiniteSet(R)
  BY FS_Subset
<1>2. m \in [R -> N]
  OBVIOUS
<1>3. \A r, q \in R : m[r] = m[q] => r = q
  BY DoubtsApart DEF Doubtful, BudgetInv
<1>4. \A d \in N : \E r \in R : m[r] = d
  <2> SUFFICES ASSUME NEW d \in N PROVE \E r \in R : m[r] = d
    OBVIOUS
  <2>1. PICK r \in Doubtful : d = DoubtOf(r)
    BY DoubtedIs
  <2>2. r \in R
    BY <2>1
  <2> QED BY <2>1, <2>2
<1> HIDE DEF R, m
<1>5. m \in Bijection(R, N)
  BY <1>2, <1>3, <1>4 DEF Bijection, Injection, Surjection, IsInjective
<1>6. ExistsBijection(R, N)
  BY <1>5 DEF ExistsBijection
<1>7. IsFiniteSet(N) /\ Cardinality(N) = Cardinality(R)
  BY <1>1, <1>6, FS_Bijection
<1> QED BY <1>7 DEF R

LEMMA SettleBudget ==
  ASSUME BudgetInv, AttemptsDiffer, SettledLate, HistoryTells, NEW P, Charges(P), Settle
  PROVE  AttemptsInv' /\ DeskFits' /\ BudgetStep /\ \E Q : Charges(Q)'
<1>1. PICK f \in Settlements(file) : file' = Settled(file, f)
  BY DEF Settle
<1>2. desk = None /\ UNCHANGED <<intakeVars, desk, behind, kills>>
  BY DEF Settle
<1>3. UNCHANGED <<now, asked, thread, flight, orders, listens>>
  BY <1>2 DEF intakeVars, venueVars
<1>4. AttemptsInv'
  <2>1. \A r \in DeskAsks : Untouched(r) /\ AskFits(r)' /\ ThreadFits(r)' /\ TimeFits(r)'
    <3>1. \A r \in DeskAsks : Untouched(r)
      BY <1>3 DEF Untouched, Ordered
    <3> QED BY <1>3, <3>1, UntouchedFits DEF BudgetInv, AttemptsInv
  <2> QED BY <1>3, <2>1 DEF BudgetInv, AttemptsInv, OrdersFit, Told, Left
<1>5. UNCHANGED <<MayStillGo, OnHyperliquid>>
  BY <1>3 DEF MayStillGo, OnHyperliquid
<1>6. PICK N : N = {d \in DOMAIN f : f[d] = None}
  OBVIOUS
<1>7. PICK R : R = {r \in Doubtful : DoubtOf(r) \in N}
  OBVIOUS
<1>8. PICK Q : Q = P \ R
  OBVIOUS
<1>9. DOMAIN f = Due(file) /\ N \subseteq Due(file) /\ N \subseteq file.doubts
  BY <1>6 DEF Settlements, Due
<1>10. IsFiniteSet(P) /\ Doubtful \subseteq P /\ R \subseteq P /\ Cardinality(P) = Spent /\ Cardinality(P) \in Nat
  BY <1>7, FS_CardinalityType DEF Charges
<1>11. Cardinality(N) = Cardinality(R) /\ Cardinality(R) \in Nat
  <2>1. IsFiniteSet(Doubtful) /\ IsFiniteSet(R)
    BY <1>10, FS_Subset
  <2> QED BY <1>2, <1>7, <1>9, <2>1, DoubtsCounted, FS_CardinalityType
<1>12. /\ DeskFits' /\ Doubtful' = {r \in Doubtful : DoubtOf(r) \notin Due(file)}
       /\ file'.left = file.left + Cardinality(N)
  BY <1>1, <1>2, <1>3, <1>6, <1>11, SettleLeaves
<1>13. \A r \in R : ~Goes(r) /\ ~Ordered(r)
  BY <1>2, <1>6, <1>7, <1>9, FoundNone
<1>14. IsFiniteSet(Q) /\ Cardinality(Q) = Spent'
  <2>1. IsFiniteSet(Q) /\ Cardinality(Q) = Cardinality(P) - Cardinality(R)
    <3>1. P \cap R = R
      BY <1>10
    <3> QED BY <1>8, <1>10, <3>1, FS_Difference
  <2>2. OrdersLeft = file.left /\ OrdersLeft' = file.left + Cardinality(R) /\ kills' = kills
    BY <1>2, <1>11, <1>12 DEF OrdersLeft
  <2>3. MaxOrders \in Nat /\ kills \in Nat /\ file.left \in Nat
    BY DeskAssumption, CountersForm DEF BudgetInv, DeskFits
  <2> QED BY <1>10, <1>11, <2>1, <2>2, <2>3 DEF Spent
<1>15. Charges(Q)'
  <2>1. OnHyperliquid' \cup MayStillGo' \subseteq Q
    BY <1>5, <1>8, <1>13, BudgetSees DEF Charges
  <2>2. Doubtful' \subseteq Q
    BY <1>7, <1>8, <1>9, <1>10, <1>12
  <2>3. Q \subseteq {r \in DeskAsks : asked'[r] # None} /\ desk' = None
    BY <1>2, <1>3, <1>8 DEF Charges
  <2> QED BY <1>14, <2>1, <2>2, <2>3 DEF Charges
<1>16. BudgetStep
  BY <1>5, <1>8, <1>15, GivesBack
<1> QED BY <1>4, <1>12, <1>15, <1>16

----------------------------------------------------------------------------
\* Every step.

LEMMA InitBudget == Init => BudgetInv /\ Budget!Init
<1> SUFFICES ASSUME Init PROVE BudgetInv /\ Budget!Init
  OBVIOUS
<1>1. /\ file = [left |-> MaxOrders, doubts |-> {}, known |-> {}] /\ desk = None /\ kills = 0 /\ behind \in 0..Skew
      /\ flight = {} /\ orders = <<>> /\ \A r \in DeskAsks : asked[r] = None /\ Posting(r) \in Deliveries
  BY PostingFacts DEF Init, IntakeInit, Requests
<1>2. AttemptsInv /\ NonceInv
  BY InitAttemptsInv, InitNonceInv
<1>3. /\ MaxOrders \in Nat /\ Skew \in Nat
  BY DeskAssumption
<1>4. Doubtful = {}
  BY <1>1 DEF Doubtful
<1>5. DeskFits
  BY <1>1, <1>3, <1>4 DEF DeskFits, Book, Counters
<1>6. \A r \in DeskAsks : ~Goes(r) /\ ~Ordered(r)
  BY <1>1, <1>2 DEF AttemptsInv, ThreadFits, Goes, Ordered
<1>7. MayStillGo = {} /\ OnHyperliquid = {}
  BY <1>6, BudgetSees
<1>8. Spent = 0
  BY <1>1, <1>3 DEF Spent, OrdersLeft
<1>9. Charges({})
  BY <1>1, <1>4, <1>7, <1>8, FS_EmptySet DEF Charges
<1>10. Budget!Init
  BY <1>7, <1>8 DEF Budget!Init, Spent
<1> QED BY <1>2, <1>5, <1>9, <1>10 DEF BudgetInv

LEMMA StillBudget == BudgetInv /\ UNCHANGED vars => BudgetInv' /\ BudgetStep
<1> SUFFICES ASSUME BudgetInv, UNCHANGED vars PROVE BudgetInv' /\ BudgetStep
  OBVIOUS
<1>1. UNCHANGED <<now, asked, thread, flight, orders, listens, file, desk, behind, kills>>
  BY DEF vars, intakeVars, venueVars
<1>2. NonceInv'
  BY NextNonceInv DEF BudgetInv
<1>3. \A r \in DeskAsks : Untouched(r)
  BY <1>1 DEF Untouched, Ordered
<1>4. AttemptsInv'
  BY <1>1, <1>3, UntouchedFits DEF BudgetInv, AttemptsInv, OrdersFit, Told, Left
<1>5. UNCHANGED <<MayStillGo, OnHyperliquid, OrdersLeft, Doubtful, Spent>>
  BY <1>1 DEF MayStillGo, OnHyperliquid, OrdersLeft, Doubtful, Book, DoubtOf, Spent
<1>6. DeskFits'
  BY <1>1, <1>5 DEF BudgetInv, DeskFits, Book, DoubtOf, Waits, Charged
<1>7. \A P : Charges(P) => Charges(P)'
  BY <1>1, <1>5 DEF Charges
<1>8. BudgetStep
  BY <1>1, <1>5 DEF BudgetStep, Budget!vars
<1> QED BY <1>2, <1>4, <1>6, <1>7, <1>8 DEF BudgetInv

LEMMA NextBudget ==
  ASSUME AttemptsDiffer, SettledLate
  PROVE  BudgetInv /\ HistoryTells /\ [Next]_vars => BudgetInv' /\ BudgetStep
<1> SUFFICES ASSUME BudgetInv, HistoryTells, [Next]_vars PROVE BudgetInv' /\ BudgetStep
  OBVIOUS
<1>1. PICK P : Charges(P)
  BY DEF BudgetInv
<1>2. NonceInv'
  BY NextNonceInv DEF BudgetInv
<1>3. CASE UNCHANGED vars
  BY <1>3, StillBudget
<1>4. CASE Settle
  BY <1>1, <1>2, <1>4, SettleBudget DEF BudgetInv
<1>5. ASSUME NEW r \in DeskAsks, Post(r) PROVE BudgetInv' /\ BudgetStep
  <2>1. AttemptsInv' /\ DeskFits' /\ BudgetStep /\ Charges(P \cup {r})'
    BY <1>1, <1>5, PostBudget
  <2>2. \E Q : Charges(Q)'
    BY <2>1
  <2> QED BY <1>2, <2>1, <2>2 DEF BudgetInv
<1>6. CASE HearAnswer \/ HearNothing
  BY <1>1, <1>2, <1>6, HearBudget DEF BudgetInv
<1>7. CASE Kill
  BY <1>1, <1>2, <1>7, KillBudget DEF BudgetInv
<1>8. CASE (IntakeSteps \/ Restart) /\ UNCHANGED deskVars
  BY <1>1, <1>2, <1>8, IntakeBudget DEF BudgetInv
<1> QED BY <1>3, <1>4, <1>5, <1>6, <1>7, <1>8 DEF Next, Steps, DeskNext

(* The desk keeps its budget, step by step, whatever is lost, restarted or late: *)
(* an attempt is charged before it leaves, and given back only when it can no   *)
(* longer reach Hyperliquid (desk.py, place_order and settle_doubts).  For this  *)
(* no two attempts may ask for the same, a doubt must be older than a request    *)
(* and its handling can be, and a history that is full must be read by clocks    *)
(* less than the skew apart: by clocks exactly that far apart the oldest order   *)
(* it tells of may be one too young.                                          *)
THEOREM DeskKeepsBudget ==
  ASSUME AttemptsDiffer, SettledLate
  PROVE  GatewaySpec /\ []HistoryTells => BudgetKept
<1>1. Init => BudgetInv /\ Budget!Init
  BY InitBudget
<1>2. BudgetInv /\ HistoryTells /\ [Next]_vars => BudgetInv' /\ BudgetStep
  BY NextBudget
<1>3. BudgetStep <=> [Budget!Next]_Budget!vars
  BY DEF BudgetStep
<1> QED BY <1>1, <1>2, <1>3, GatewayIsRoutes, PTL DEF Spec, BudgetKept, Budget!Spec

----------------------------------------------------------------------------
(* Sums.  What a sum over a finite set is follows from its equation by          *)
(* induction over the subsets, put as: of the subsets where a claim fails, one *)
(* is such that it holds with any element taken off.                           *)

\* A sum over a finite set, one element taken off at a time.
SumFun(f, v, S) ==
  f = [s \in SUBSET S |->
         IF s = {} THEN 0 ELSE v[CHOOSE x \in s : TRUE] + f[s \ {CHOOSE x \in s : TRUE}]]
Sum(v, S) == (CHOOSE f : SumFun(f, v, S))[S]

\* Induction over the subsets of a finite set: of those that fail, one has none that fails a step below.
LEMMA LeastOf ==
  ASSUME NEW D, IsFiniteSet(D), NEW Bad, Bad \subseteq SUBSET D, Bad # {}
  PROVE  \E s \in Bad : \A x \in s : s \ {x} \notin Bad
<1>1. IsWellFoundedOn(StrictSubsetOrdering(D), FiniteSubsetsOf(D))
  BY FS_StrictSubsetOrderingWellFounded
<1>2. Bad \subseteq FiniteSubsetsOf(D)
  BY FS_FiniteSubsetsOfFinite
<1>3. PICK s \in Bad : \A t \in Bad : ~(<<t, s>> \in StrictSubsetOrdering(D))
  BY <1>1, <1>2, WFMin
<1>4. \A x \in s : s \ {x} \notin Bad
  BY <1>3 DEF StrictSubsetOrdering
<1> QED BY <1>4

LEMMA SumFunAgree ==
  ASSUME NEW S, IsFiniteSet(S), NEW T, NEW v, NEW f, NEW g, SumFun(f, v, S), SumFun(g, v, T),
         NEW s, s \subseteq S, s \subseteq T
  PROVE  f[s] = g[s]
<1> DEFINE Bad == {t \in SUBSET s : f[t] # g[t]}
<1>1. SUFFICES ASSUME Bad # {} PROVE FALSE
  OBVIOUS
<1>2. IsFiniteSet(s)
  BY FS_Subset
<1>3. PICK t \in Bad : \A x \in t : t \ {x} \notin Bad
  <2> HIDE DEF Bad
  <2>1. Bad \subseteq SUBSET s
    BY DEF Bad
  <2> QED BY <1>1, <1>2, <2>1, LeastOf
<1> DEFINE c == CHOOSE x \in t : TRUE
<1>4. t \in SUBSET S /\ t \in SUBSET T /\ f[t] # g[t]
  OBVIOUS
<1>5. t # {} /\ f[t] = v[c] + f[t \ {c}] /\ g[t] = v[c] + g[t \ {c}]
  BY <1>4 DEF SumFun
<1>6. f[t \ {c}] = g[t \ {c}]
  BY <1>3, <1>5
<1> QED BY <1>4, <1>5, <1>6

LEMMA SumFunSmaller ==
  ASSUME NEW S, NEW T, T \subseteq S, NEW v, NEW f, SumFun(f, v, S)
  PROVE  SumFun([s \in SUBSET T |-> f[s]], v, T)
<1> DEFINE g == [s \in SUBSET T |-> f[s]]
           c(s) == CHOOSE x \in s : TRUE
<1>1. \A s \in SUBSET T : g[s] = IF s = {} THEN 0 ELSE v[c(s)] + g[s \ {c(s)}]
  <2> TAKE s \in SUBSET T
  <2>1. s \in SUBSET S /\ s \ {c(s)} \in SUBSET T
    OBVIOUS
  <2>2. f[s] = IF s = {} THEN 0 ELSE v[c(s)] + f[s \ {c(s)}]
    BY <2>1 DEF SumFun
  <2> QED BY <2>1, <2>2
<1> QED BY <1>1 DEF SumFun

\* What a sum is, where there is one.
LEMMA SumIs ==
  ASSUME NEW S, IsFiniteSet(S), NEW v, NEW f, SumFun(f, v, S)
  PROVE  \A s \in SUBSET S : Sum(v, s) = f[s]
<1> SUFFICES ASSUME NEW s \in SUBSET S PROVE Sum(v, s) = f[s]
  OBVIOUS
<1>1. \E g : SumFun(g, v, s)
  <2>1. SumFun([t \in SUBSET s |-> f[t]], v, s)
    BY SumFunSmaller
  <2> QED BY <2>1
<1>2. SumFun(CHOOSE g : SumFun(g, v, s), v, s)
  BY <1>1
<1> DEFINE g == CHOOSE h : SumFun(h, v, s)
<1>3. SumFun(g, v, s)
  BY <1>2
<1> HIDE DEF g
<1>4. f[s] = g[s]
  BY <1>3, SumFunAgree
<1> QED BY <1>4 DEF Sum, g

LEMMA SumFunExists ==
  ASSUME NEW D, IsFiniteSet(D), NEW v
  PROVE  \E f : SumFun(f, v, D)
<1> DEFINE Bad == {t \in SUBSET D : ~\E f : SumFun(f, v, t)}
<1>1. SUFFICES ASSUME Bad # {} PROVE FALSE
  OBVIOUS
<1>2. PICK S \in Bad : \A x \in S : S \ {x} \notin Bad
  <2>1. Bad \subseteq SUBSET D
    OBVIOUS
  <2> HIDE DEF Bad
  <2> QED BY <1>1, <2>1, LeastOf
<1> DEFINE c(s) == CHOOSE x \in s : TRUE
           step(s) == IF s = {} THEN 0 ELSE v[c(s)] + Sum(v, s \ {c(s)})
           F == [s \in SUBSET S |-> step(s)]
<1>3. \A s \in SUBSET S : s # S => Sum(v, s) = step(s)
  <2> SUFFICES ASSUME NEW s \in SUBSET S, s # S PROVE Sum(v, s) = step(s)
    OBVIOUS
  <2>1. PICK x \in S : x \notin s
    OBVIOUS
  <2>2. S \ {x} \subseteq D /\ S \ {x} \notin Bad /\ s \subseteq S \ {x}
    BY <1>2, <2>1
  <2>3. PICK f : SumFun(f, v, S \ {x})
    BY <2>2
  <2>4. IsFiniteSet(S \ {x})
    BY <2>2, FS_Subset
  <2>5. \A t \in SUBSET (S \ {x}) : Sum(v, t) = f[t]
    BY <2>3, <2>4, SumIs
  <2>6. f[s] = IF s = {} THEN 0 ELSE v[c(s)] + f[s \ {c(s)}]
    BY <2>2, <2>3 DEF SumFun
  <2>7. s \ {c(s)} \in SUBSET (S \ {x}) /\ s \in SUBSET (S \ {x})
    BY <2>2
  <2>8. Sum(v, s) = f[s] /\ Sum(v, s \ {c(s)}) = f[s \ {c(s)}]
    BY <2>5, <2>7
  <2> QED BY <2>6, <2>8
<1>4. \A s \in SUBSET S : F[s] = IF s = {} THEN 0 ELSE v[c(s)] + F[s \ {c(s)}]
  <2> TAKE s \in SUBSET S
  <2>1. CASE s = {}
    BY <2>1
  <2>2. CASE s # {}
    <3>1. c(s) \in s
      BY <2>2
    <3>2. s \ {c(s)} \in SUBSET S /\ s \ {c(s)} # S
      BY <3>1
    <3>3. F[s \ {c(s)}] = step(s \ {c(s)}) /\ F[s] = step(s)
      BY <3>2
    <3>4. Sum(v, s \ {c(s)}) = step(s \ {c(s)})
      BY <1>3, <3>2
    <3>5. step(s) = v[c(s)] + Sum(v, s \ {c(s)})
      BY <2>2
    <3> HIDE DEF step, F
    <3> QED BY <2>2, <3>3, <3>4, <3>5
  <2> QED BY <2>1, <2>2
<1>5. F = [s \in SUBSET S |-> F[s]]
  OBVIOUS
<1>6. SumFun(F, v, S)
  <2> HIDE DEF F
  <2> QED BY <1>4, <1>5 DEF SumFun
<1> QED BY <1>6

LEMMA SumStep ==
  ASSUME NEW S, IsFiniteSet(S), NEW v
  PROVE  Sum(v, S) = IF S = {} THEN 0 ELSE v[CHOOSE x \in S : TRUE] + Sum(v, S \ {CHOOSE x \in S : TRUE})
<1>1. PICK f : SumFun(f, v, S)
  BY SumFunExists
<1>2. \A s \in SUBSET S : Sum(v, s) = f[s]
  BY <1>1, SumIs
<1>3. S \in SUBSET S /\ S \ {CHOOSE x \in S : TRUE} \in SUBSET S
  OBVIOUS
<1> QED BY <1>1, <1>2, <1>3 DEF SumFun

LEMMA SumOfNone ==
  ASSUME NEW v
  PROVE  Sum(v, {}) = 0
BY SumStep, FS_EmptySet

\* A sum of integers is one, and does not depend on the order.
LEMMA SumInt ==
  ASSUME NEW S, IsFiniteSet(S), NEW v, \A x \in S : v[x] \in Int
  PROVE  Sum(v, S) \in Int
<1> DEFINE Bad == {t \in SUBSET S : Sum(v, t) \notin Int}
<1>1. SUFFICES ASSUME Bad # {} PROVE FALSE
  OBVIOUS
<1>2. PICK t \in Bad : \A x \in t : t \ {x} \notin Bad
  <2>1. Bad \subseteq SUBSET S
    OBVIOUS
  <2> HIDE DEF Bad
  <2> QED BY <1>1, <2>1, LeastOf
<1>3. IsFiniteSet(t) /\ t \in SUBSET S /\ Sum(v, t) \notin Int
  BY FS_Subset
<1>4. CASE t = {}
  BY <1>3, <1>4, SumOfNone
<1>5. CASE t # {}
  <2>1. PICK x \in t : Sum(v, t) = v[x] + Sum(v, t \ {x})
    BY <1>3, <1>5, SumStep
  <2>2. Sum(v, t \ {x}) \in Int
    BY <1>2, <1>3
  <2> QED BY <1>3, <2>1, <2>2
<1> QED BY <1>4, <1>5

LEMMA SumTaking ==
  ASSUME NEW S, IsFiniteSet(S), NEW v, \A x \in S : v[x] \in Int, NEW x \in S
  PROVE  Sum(v, S) = v[x] + Sum(v, S \ {x})
<1> DEFINE Bad == {t \in SUBSET S : \E y \in t : Sum(v, t) # v[y] + Sum(v, t \ {y})}
<1>1. SUFFICES ASSUME Bad # {} PROVE FALSE
  OBVIOUS
<1>2. PICK t \in Bad : \A y \in t : t \ {y} \notin Bad
  <2>1. Bad \subseteq SUBSET S
    OBVIOUS
  <2> HIDE DEF Bad
  <2> QED BY <1>1, <2>1, LeastOf
<1>3. t \in SUBSET S /\ IsFiniteSet(t)
  BY FS_Subset
<1>4. PICK y \in t : Sum(v, t) # v[y] + Sum(v, t \ {y})
  OBVIOUS
<1>5. PICK c \in t : Sum(v, t) = v[c] + Sum(v, t \ {c})
  BY <1>3, <1>4, SumStep
<1>6. c # y
  BY <1>4, <1>5
<1>7. Sum(v, t \ {c}) = v[y] + Sum(v, (t \ {c}) \ {y})
  <2>1. y \in t \ {c} /\ t \ {c} \in SUBSET S
    BY <1>3, <1>6
  <2> QED BY <1>2, <2>1
<1>8. Sum(v, t \ {y}) = v[c] + Sum(v, (t \ {y}) \ {c})
  <2>1. c \in t \ {y} /\ t \ {y} \in SUBSET S
    BY <1>3, <1>6
  <2> QED BY <1>2, <2>1
<1>9. (t \ {y}) \ {c} = (t \ {c}) \ {y}
  OBVIOUS
<1>10. Sum(v, (t \ {c}) \ {y}) \in Int
  <2>1. IsFiniteSet((t \ {c}) \ {y})
    BY <1>3, FS_Subset
  <2> QED BY <1>3, <2>1, SumInt
<1>11. v[c] \in Int /\ v[y] \in Int
  BY <1>3
<1>12. Sum(v, t) = v[c] + (v[y] + Sum(v, (t \ {c}) \ {y})) /\ Sum(v, t \ {y}) = v[c] + Sum(v, (t \ {c}) \ {y})
  <2> HIDE DEF Bad
  <2> QED BY <1>5, <1>7, <1>8, <1>9
<1>13. Sum(v, t) = v[y] + Sum(v, t \ {y})
  <2> HIDE DEF Bad
  <2> QED BY <1>10, <1>11, <1>12
<1> QED BY <1>4, <1>13

\* Of one sum and another, each of its terms at most k times the other's.
LEMMA SumWithin ==
  ASSUME NEW S, IsFiniteSet(S), NEW v, NEW w, NEW k \in Int,
         \A x \in S : v[x] \in Int /\ w[x] \in Int /\ v[x] <= k * w[x]
  PROVE  Sum(v, S) <= k * Sum(w, S)
<1> DEFINE Bad == {t \in SUBSET S : ~(Sum(v, t) <= k * Sum(w, t))}
<1>1. SUFFICES ASSUME Bad # {} PROVE FALSE
  OBVIOUS
<1>2. PICK t \in Bad : \A y \in t : t \ {y} \notin Bad
  <2>1. Bad \subseteq SUBSET S
    OBVIOUS
  <2> HIDE DEF Bad
  <2> QED BY <1>1, <2>1, LeastOf
<1>3. t \in SUBSET S /\ IsFiniteSet(t)
  BY FS_Subset
<1>4. CASE t = {}
  <2>1. Sum(v, t) = 0 /\ Sum(w, t) = 0
    BY <1>4, SumOfNone
  <2>2. ~(Sum(v, t) <= k * Sum(w, t))
    OBVIOUS
  <2> HIDE DEF Bad
  <2> QED BY <2>1, <2>2
<1>5. CASE t # {}
  <2>1. PICK x \in t : TRUE
    BY <1>5
  <2>2. v[x] \in Int /\ w[x] \in Int /\ v[x] <= k * w[x] /\ (\A y \in t : v[y] \in Int /\ w[y] \in Int)
    BY <1>3
  <2>3. Sum(v, t) = v[x] + Sum(v, t \ {x}) /\ Sum(w, t) = w[x] + Sum(w, t \ {x})
    BY <1>3, <2>2, SumTaking
  <2>4. Sum(v, t \ {x}) \in Int /\ Sum(w, t \ {x}) \in Int
    <3>1. IsFiniteSet(t \ {x})
      BY <1>3, FS_Subset
    <3> QED BY <2>2, <3>1, SumInt
  <2>5. Sum(v, t \ {x}) <= k * Sum(w, t \ {x})
    BY <1>2, <1>3
  <2>6. ~(Sum(v, t) <= k * Sum(w, t))
    OBVIOUS
  <2> DEFINE a == Sum(v, t \ {x})
             b == Sum(w, t \ {x})
  <2>7. k * (w[x] + b) = k * w[x] + k * b
    BY <2>2, <2>4
  <2>8. v[x] + a <= k * w[x] + k * b
    <3>1. k * w[x] \in Int /\ k * b \in Int
      BY <2>2, <2>4
    <3> QED BY <2>2, <2>4, <2>5, <3>1
  <2> HIDE DEF Bad
  <2> QED BY <2>3, <2>6, <2>7, <2>8
<1> QED BY <1>4, <1>5

LEMMA SumMonotone ==
  ASSUME NEW S, IsFiniteSet(S), NEW v, NEW w,
         \A x \in S : v[x] \in Int /\ w[x] \in Int /\ v[x] <= w[x]
  PROVE  Sum(v, S) <= Sum(w, S)
<1>1. Sum(v, S) <= 1 * Sum(w, S)
  BY SumWithin
<1>2. Sum(w, S) \in Int
  BY SumInt
<1> QED BY <1>1, <1>2

LEMMA SumSame ==
  ASSUME NEW S, IsFiniteSet(S), NEW v, NEW w, \A x \in S : v[x] \in Int /\ v[x] = w[x]
  PROVE  Sum(v, S) = Sum(w, S)
<1>1. Sum(v, S) <= Sum(w, S) /\ Sum(w, S) <= Sum(v, S)
  BY SumMonotone
<1>2. Sum(v, S) \in Int /\ Sum(w, S) \in Int
  BY SumInt
<1> QED BY <1>1, <1>2

LEMMA SumZero ==
  ASSUME NEW S, IsFiniteSet(S), NEW v, \A x \in S : v[x] = 0
  PROVE  Sum(v, S) = 0
<1>1. \A x \in S : v[x] \in Int /\ v[x] <= 0 * v[x] /\ v[x] <= 2 * v[x]
  OBVIOUS
<1>2. Sum(v, S) <= 0 * Sum(v, S) /\ Sum(v, S) <= 2 * Sum(v, S)
  BY <1>1, SumWithin
<1>3. Sum(v, S) \in Int
  BY <1>1, SumInt
<1> QED BY <1>2, <1>3

LEMMA SumPlus ==
  ASSUME NEW S, IsFiniteSet(S), NEW v, NEW w, NEW u,
         \A x \in S : v[x] \in Int /\ w[x] \in Int /\ u[x] \in Int /\ v[x] = w[x] + u[x]
  PROVE  Sum(v, S) = Sum(w, S) + Sum(u, S)
<1> DEFINE Bad == {t \in SUBSET S : Sum(v, t) # Sum(w, t) + Sum(u, t)}
<1>1. SUFFICES ASSUME Bad # {} PROVE FALSE
  OBVIOUS
<1>2. PICK t \in Bad : \A y \in t : t \ {y} \notin Bad
  <2>1. Bad \subseteq SUBSET S
    OBVIOUS
  <2> HIDE DEF Bad
  <2> QED BY <1>1, <2>1, LeastOf
<1>3. t \in SUBSET S /\ IsFiniteSet(t) /\ Sum(v, t) # Sum(w, t) + Sum(u, t)
  BY FS_Subset
<1>4. CASE t = {}
  BY <1>3, <1>4, SumOfNone
<1>5. CASE t # {}
  <2>1. PICK x \in t : TRUE
    BY <1>5
  <2>2. \A y \in t : v[y] \in Int /\ w[y] \in Int /\ u[y] \in Int
    BY <1>3
  <2>3. /\ Sum(v, t) = v[x] + Sum(v, t \ {x}) /\ Sum(w, t) = w[x] + Sum(w, t \ {x})
        /\ Sum(u, t) = u[x] + Sum(u, t \ {x})
    BY <1>3, <2>2, SumTaking
  <2>4. Sum(v, t \ {x}) \in Int /\ Sum(w, t \ {x}) \in Int /\ Sum(u, t \ {x}) \in Int
    <3>1. IsFiniteSet(t \ {x})
      BY <1>3, FS_Subset
    <3> QED BY <2>2, <3>1, SumInt
  <2>5. Sum(v, t \ {x}) = Sum(w, t \ {x}) + Sum(u, t \ {x})
    BY <1>2, <1>3
  <2>6. v[x] = w[x] + u[x] /\ w[x] \in Int /\ u[x] \in Int
    BY <1>3
  <2> HIDE DEF Bad
  <2> QED BY <1>3, <2>3, <2>4, <2>5, <2>6
<1> QED BY <1>4, <1>5

\* A sum over some of a set is one over all of it.
LEMMA SumWhere ==
  ASSUME NEW S, IsFiniteSet(S), NEW T, NEW v, NEW w,
         \A x \in S : v[x] \in Int /\ w[x] = IF x \in T THEN v[x] ELSE 0
  PROVE  Sum(v, S \cap T) = Sum(w, S)
<1> DEFINE Bad == {t \in SUBSET S : Sum(v, t \cap T) # Sum(w, t)}
<1>1. SUFFICES ASSUME Bad # {} PROVE FALSE
  OBVIOUS
<1>2. PICK t \in Bad : \A y \in t : t \ {y} \notin Bad
  <2>1. Bad \subseteq SUBSET S
    OBVIOUS
  <2> HIDE DEF Bad
  <2> QED BY <1>1, <2>1, LeastOf
<1>3. t \in SUBSET S /\ IsFiniteSet(t) /\ Sum(v, t \cap T) # Sum(w, t)
  BY FS_Subset
<1>4. CASE t = {}
  <2>1. t \cap T = {}
    BY <1>4
  <2> QED BY <1>3, <1>4, <2>1, SumOfNone
<1>5. CASE t # {}
  <2>1. PICK x \in t : TRUE
    BY <1>5
  <2>2. \A y \in t : v[y] \in Int /\ w[y] \in Int
    BY <1>3
  <2>3. Sum(w, t) = w[x] + Sum(w, t \ {x})
    BY <1>3, <2>2, SumTaking
  <2>4. IsFiniteSet(t \cap T) /\ IsFiniteSet(t \ {x})
    BY <1>3, FS_Subset
  <2>5. Sum(v, (t \ {x}) \cap T) = Sum(w, t \ {x})
    BY <1>2, <1>3
  <2>6. Sum(w, t \ {x}) \in Int
    BY <2>2, <2>4, SumInt
  <2>7. CASE x \in T
    <3>1. Sum(v, t \cap T) = v[x] + Sum(v, (t \cap T) \ {x})
      BY <2>2, <2>4, <2>7, SumTaking
    <3>2. (t \cap T) \ {x} = (t \ {x}) \cap T /\ w[x] = v[x]
      BY <1>3, <2>7
    <3> HIDE DEF Bad
    <3> QED BY <1>3, <2>3, <2>5, <3>1, <3>2
  <2>8. CASE x \notin T
    <3>1. t \cap T = (t \ {x}) \cap T /\ w[x] = 0
      BY <1>3, <2>8
    <3> HIDE DEF Bad
    <3> QED BY <1>3, <2>3, <2>5, <2>6, <3>1
  <2> QED BY <2>7, <2>8
<1> QED BY <1>4, <1>5

LEMMA SumOfFewer ==
  ASSUME NEW S, IsFiniteSet(S), NEW T, T \subseteq S, NEW v, \A x \in S : v[x] \in Nat
  PROVE  0 <= Sum(v, T) /\ Sum(v, T) <= Sum(v, S)
<1> DEFINE w == [x \in S |-> IF x \in T THEN v[x] ELSE 0]
<1>1. S \cap T = T
  OBVIOUS
<1>2. \A x \in S : v[x] \in Int /\ w[x] = IF x \in T THEN v[x] ELSE 0
  OBVIOUS
<1>3. \A x \in S : w[x] \in Int /\ v[x] \in Int /\ w[x] <= v[x] /\ w[x] <= 2 * w[x]
  OBVIOUS
<1> HIDE DEF w
<1>4. Sum(v, T) = Sum(w, S)
  <2>1. Sum(v, S \cap T) = Sum(w, S)
    BY <1>2, SumWhere
  <2> QED BY <1>1, <2>1
<1>5. Sum(w, S) <= Sum(v, S) /\ Sum(w, S) <= 2 * Sum(w, S)
  BY <1>3, SumMonotone, SumWithin
<1>6. Sum(w, S) \in Int
  BY <1>3, SumInt
<1> QED BY <1>4, <1>5, <1>6

\* The sum of sizes is one of these.
LEMMA SumOfIs ==
  ASSUME NEW S, IsFiniteSet(S), NEW v, \A x \in S : v[x] = x.size
  PROVE  SumOf(S) = Sum(v, S)
<1> DEFINE c(s) == CHOOSE x \in s : TRUE
<1>1. PICK g : SumFun(g, v, S)
  BY SumFunExists
<1>2. g = [s \in SUBSET S |-> IF s = {} THEN 0 ELSE c(s).size + g[s \ {c(s)}]]
  <2>1. \A s \in SUBSET S : s # {} => v[c(s)] = c(s).size
    OBVIOUS
  <2> QED BY <1>1, <2>1 DEF SumFun
<1>3. \E f : f = [s \in SUBSET S |-> IF s = {} THEN 0 ELSE c(s).size + f[s \ {c(s)}]] /\ SumOf(S) = f[S]
  BY <1>2 DEF SumOf, MapThenSumSet, MapThenFoldSet
<1>4. PICK f : f = [s \in SUBSET S |-> IF s = {} THEN 0 ELSE c(s).size + f[s \ {c(s)}]] /\ SumOf(S) = f[S]
  BY <1>3
<1>5. SumFun(f, v, S)
  <2>1. \A s \in SUBSET S : s # {} => v[c(s)] = c(s).size
    OBVIOUS
  <2> QED BY <1>4, <2>1 DEF SumFun
<1> QED BY <1>4, <1>5, SumIs

LEMMA NoSizes == SumOf({}) = 0
<1>1. SumOf({}) = Sum(<<>>, {})
  BY SumOfIs, FS_EmptySet
<1> QED BY <1>1, SumOfNone

----------------------------------------------------------------------------
(* The rule lines, and what an order may add.  The leverage rule holds of      *)
(* every way the resting orders can fill because the worst of them is one of  *)
(* those ways, and no other comes to more.                                    *)

LEMMA MostOfTwo ==
  ASSUME NEW a \in Int, NEW b \in Int
  PROVE  Max({a, b}) \in Int /\ Max({a, b}) >= a /\ Max({a, b}) >= b /\ Max({a, b}) \in {a, b}
<1>1. \E x \in {a, b} : \A y \in {a, b} : x >= y
  OBVIOUS
<1> QED BY <1>1 DEF Max

LEMMA LeastOfTwo ==
  ASSUME NEW a \in Int, NEW b \in Int
  PROVE  Min({a, b}) \in Int /\ Min({a, b}) <= a /\ Min({a, b}) <= b /\ Min({a, b}) \in {a, b}
<1>1. \E x \in {a, b} : \A y \in {a, b} : x <= y
  OBVIOUS
<1> QED BY <1>1 DEF Min

LEMMA MostOfFour ==
  ASSUME NEW a \in Int, NEW b \in Int, NEW c \in Int, NEW d \in Int
  PROVE  /\ Max({a, b, c, d}) \in {a, b, c, d}
         /\ \A x \in {a, b, c, d} : x <= Max({a, b, c, d})
<1>1. \E x \in {a, b, c, d} : \A y \in {a, b, c, d} : x >= y
  OBVIOUS
<1> QED BY <1>1 DEF Max

\* The least of a set of numbers is one of them.
LEMMA LeastIsOne ==
  ASSUME NEW S, S \subseteq Nat, S # {}
  PROVE  Min(S) \in S
<1>1. PICK x \in S : \A y \in S : <<y, x>> \notin OpToRel(<, Nat)
  BY NatLessThanWellFounded, WFMin
<1>2. \A y \in S : <<y, x>> \in Nat \X Nat /\ <<y, x>>[1] = y /\ <<y, x>>[2] = x
  OBVIOUS
<1>3. \A y \in S : ~(y < x)
  BY <1>1, <1>2, Zenon DEF OpToRel
<1>4. \A y \in S : x <= y
  BY <1>3
<1> QED BY <1>4 DEF Min

LEMMA FloorsAreNumbers == Floors \subseteq Nat /\ Min(Floors) \in Floors
<1>1. Floors \subseteq Nat /\ Floors # {}
  BY RuleLinesAssumption
<1> QED BY <1>1, LeastIsOne

LEMMA Ways == Dir("long") = 1 /\ Dir("short") = -1 /\ \A side \in Sides : Dir(side) \in {1, -1}
BY DEF Dir, Sides

----------------------------------------------------------------------------
OrdersForm(resting) ==
  IsFiniteSet(resting) /\ \A o \in resting : o.side \in Sides /\ o.size \in Nat /\ o.px \in Nat

LinesForms ==
  /\ mark \in Nat /\ held \in Int /\ equity \in Int /\ floor \in Nat /\ seen \in Nat /\ opened \in Nat
  /\ stands \in [Sides -> Int]
  /\ OrdersForm(rest)
  /\ ways \subseteq Sides /\ ways # {}

LEMMA SidesSum ==
  ASSUME NEW resting, OrdersForm(resting), NEW S, S \subseteq resting, NEW side
  PROVE  /\ SumOf(S) \in Int /\ 0 <= SumOf(Of(side, S)) /\ SumOf(Of(side, S)) <= SumOf(Of(side, resting))
         /\ SumOf(Of(side, S)) \in Nat
<1> DEFINE v == [o \in resting |-> o.size]
           A == Of(side, S)
           B == Of(side, resting)
<1>1. A \subseteq B /\ B \subseteq resting /\ S \subseteq resting
  BY DEF Of
<1>2. IsFiniteSet(A) /\ IsFiniteSet(B) /\ IsFiniteSet(S)
  BY <1>1, FS_Subset DEF OrdersForm
<1>3. \A o \in resting : v[o] = o.size /\ v[o] \in Nat
  BY DEF OrdersForm
<1> HIDE DEF v, A, B
<1>4. SumOf(A) = Sum(v, A) /\ SumOf(B) = Sum(v, B) /\ SumOf(S) = Sum(v, S)
  BY <1>1, <1>2, <1>3, SumOfIs
<1>5. 0 <= Sum(v, A) /\ Sum(v, A) <= Sum(v, B)
  BY <1>1, <1>2, <1>3, SumOfFewer
<1>6. Sum(v, A) \in Int /\ Sum(v, S) \in Int
  BY <1>1, <1>2, <1>3, SumInt
<1>7. SumOf(A) \in Nat
  BY <1>4, <1>5, <1>6
<1> QED BY <1>4, <1>5, <1>6, <1>7 DEF A, B

\* However they fill, what comes to be held is no more than the worst, and the worst may be.
LEMMA WorstIsMost ==
  ASSUME held \in Int, NEW resting, OrdersForm(resting)
  PROVE  /\ WorstSize(resting) \in Magnitudes(resting) /\ Magnitudes(resting) \subseteq Int
         /\ \A q \in Magnitudes(resting) : q <= WorstSize(resting)
<1> DEFINE L == SumOf(Of("long", resting))
           R == SumOf(Of("short", resting))
<1>1. L \in Nat /\ R \in Nat
  BY SidesSum
<1>2. /\ WorstSize(resting) \in {held + L, -(held + L), held - R, -(held - R)}
      /\ \A x \in {held + L, -(held + L), held - R, -(held - R)} : x <= WorstSize(resting)
  <2> DEFINE a == held + L
             b == -(held + L)
             c == held - R
             d == -(held - R)
  <2>1. a \in Int /\ b \in Int /\ c \in Int /\ d \in Int
    BY <1>1
  <2>2. WorstSize(resting) = Max({a, b, c, d})
    BY DEF WorstSize
  <2> HIDE DEF a, b, c, d
  <2>3. Max({a, b, c, d}) \in {a, b, c, d} /\ \A x \in {a, b, c, d} : x <= Max({a, b, c, d})
    BY <2>1, MostOfFour
  <2>4. WorstSize(resting) \in {a, b, c, d} /\ \A x \in {a, b, c, d} : x <= WorstSize(resting)
    BY <2>2, <2>3
  <2> QED BY <2>4 DEF a, b, c, d
<1>3. \A q \in Outcomes(resting) : q \in Int /\ q <= held + L /\ -q <= -(held - R)
  <2> SUFFICES ASSUME NEW S \in SUBSET resting, NEW q, q = held + SumOf(Of("long", S)) - SumOf(Of("short", S))
               PROVE  q \in Int /\ q <= held + L /\ -q <= -(held - R)
    BY DEF Outcomes
  <2>1. /\ SumOf(Of("long", S)) \in Nat /\ SumOf(Of("long", S)) <= L
        /\ SumOf(Of("short", S)) \in Nat /\ SumOf(Of("short", S)) <= R
    BY SidesSum
  <2> HIDE DEF L, R
  <2> QED BY <1>1, <2>1
<1>4. held + L \in Outcomes(resting)
  <2> DEFINE S == Of("long", resting)
  <2>1. S \in SUBSET resting /\ Of("long", S) = S /\ Of("short", S) = {}
    BY DEF Of
  <2>2. SumOf(Of("long", S)) = L /\ SumOf(Of("short", S)) = 0
    BY <2>1, NoSizes
  <2>3. held + L = held + SumOf(Of("long", S)) - SumOf(Of("short", S))
    BY <1>1, <2>2
  <2> HIDE DEF S
  <2> QED BY <2>1, <2>3 DEF Outcomes
<1>5. held - R \in Outcomes(resting)
  <2> DEFINE S == Of("short", resting)
  <2>1. S \in SUBSET resting /\ Of("short", S) = S /\ Of("long", S) = {}
    BY DEF Of
  <2>2. SumOf(Of("short", S)) = R /\ SumOf(Of("long", S)) = 0
    BY <2>1, NoSizes
  <2>3. held - R = held + SumOf(Of("long", S)) - SumOf(Of("short", S))
    BY <1>1, <2>2
  <2> HIDE DEF S
  <2> QED BY <2>1, <2>3 DEF Outcomes
<1> HIDE DEF L, R
<1>6. WorstSize(resting) \in Magnitudes(resting)
  BY <1>2, <1>4, <1>5 DEF Magnitudes
<1>7. \A q \in Magnitudes(resting) : q \in Int /\ q <= WorstSize(resting)
  <2> TAKE q \in Magnitudes(resting)
  <2>1. \A x \in {held + L, -(held + L), held - R, -(held - R)} : x \in Int
    BY <1>1
  <2>2. WorstSize(resting) \in Int
    BY <1>2, <2>1
  <2>3. held + L <= WorstSize(resting) /\ -(held - R) <= WorstSize(resting)
    BY <1>2
  <2>4. held + L \in Int /\ -(held - R) \in Int
    BY <2>1
  <2>5. CASE q \in Outcomes(resting)
    BY <1>3, <2>2, <2>3, <2>4, <2>5
  <2>6. CASE q \in {-p : p \in Outcomes(resting)}
    BY <1>3, <2>2, <2>3, <2>4, <2>6
  <2> QED BY <2>5, <2>6 DEF Magnitudes
<1> QED BY <1>6, <1>7

LEMMA ScaledIsMore ==
  ASSUME NEW a \in Int, NEW b \in Int, NEW m \in Nat, a <= b
  PROVE  a * m <= b * m
OBVIOUS

\* An order the rules let in leaves no outcome past them, or past what could be before.
LEMMA OpensKeepsTheRule ==
  ASSUME LinesForms, NEW resting, OrdersForm(resting), WithinRules(resting), NEW q \in Magnitudes(resting)
  PROVE  \/ q * mark <= equity * Min({PoolLeverage, PerpLeverage})
         \/ \E p \in Magnitudes(rest) : q <= p
<1>1. held \in Int /\ mark \in Nat /\ equity \in Int /\ OrdersForm(rest)
  BY DEF LinesForms
<1>2. q \in Int /\ WorstSize(resting) \in Int /\ q <= WorstSize(resting)
  BY <1>1, WorstIsMost
<1>3. CASE WorstSize(resting) <= WorstSize(rest)
  <2>1. WorstSize(rest) \in Magnitudes(rest) /\ WorstSize(rest) \in Int
    BY <1>1, WorstIsMost
  <2> QED BY <1>2, <1>3, <2>1
<1>4. CASE \A cap \in {PoolLeverage, PerpLeverage} : equity > 0 /\ WorstSize(resting) * mark <= equity * cap
  <2> DEFINE cap == Min({PoolLeverage, PerpLeverage})
  <2>1. cap \in {PoolLeverage, PerpLeverage} /\ cap \in Int
    <3>1. PoolLeverage \in Int /\ PerpLeverage \in Int
      BY RuleLinesAssumption
    <3> QED BY <3>1, LeastOfTwo
  <2> HIDE DEF cap
  <2>2. WorstSize(resting) * mark <= equity * cap
    BY <1>4, <2>1
  <2>3. q * mark <= WorstSize(resting) * mark
    BY <1>1, <1>2, ScaledIsMore
  <2>4. q * mark \in Int /\ WorstSize(resting) * mark \in Int /\ equity * cap \in Int
    BY <1>1, <1>2, <2>1
  <2>5. q * mark <= equity * cap
    BY <2>2, <2>3, <2>4
  <2> QED BY <2>5 DEF cap
<1> QED BY <1>3, <1>4 DEF WithinRules

----------------------------------------------------------------------------
(* The stops.  StopHoldsTheFloor is not inductive: an order that fills turns  *)
(* what would be lost by it into what is lost by the position, so the         *)
(* strengthening is over both, held or not; it needs that no order of an       *)
(* account traded one way rests past the mark, and that no stop stands on the *)
(* wrong side of it.                                                          *)

LEMMA ExposureIs ==
  ASSUME held \in Int, NEW resting, OrdersForm(resting), NEW side \in Sides
  PROVE  /\ Exposure(side, resting) \in Nat
         /\ Exposure(side, resting) = (IF Dir(side) * held >= 0 THEN Dir(side) * held ELSE 0) + SumOf(Of(side, resting))
<1> DEFINE a == Dir(side) * held
<1>1. a \in Int
  BY Ways
<1> HIDE DEF a
<1>2. Max({a, 0}) \in Nat /\ Max({a, 0}) = IF a >= 0 THEN a ELSE 0
  <2>1. 0 \in Int
    OBVIOUS
  <2>2. Max({a, 0}) \in Int /\ Max({a, 0}) >= a /\ Max({a, 0}) >= 0 /\ Max({a, 0}) \in {a, 0}
    BY <1>1, <2>1, MostOfTwo
  <2> QED BY <1>1, <2>2
<1>3. SumOf(Of(side, resting)) \in Nat
  BY SidesSum
<1>4. Exposure(side, resting) = Max({a, 0}) + SumOf(Of(side, resting))
  BY DEF Exposure, a
<1> QED BY <1>2, <1>3, <1>4 DEF a

LEMMA Divided ==
  ASSUME NEW b \in Nat, NEW x \in Nat, x > 0
  PROVE  b \div x \in Int /\ (b \div x) * x <= b
<1>1. b \div x \in Int /\ x * (b \div x) <= b
  OBVIOUS
<1> QED BY <1>1

\* The most the account may hold, on one side or the other.
Largest(resting) == Max({Exposure(side, resting) : side \in Sides})

LEMMA LargestIs ==
  ASSUME held \in Int, NEW resting, OrdersForm(resting)
  PROVE  /\ Largest(resting) \in Nat /\ \A side \in Sides : Exposure(side, resting) <= Largest(resting)
         /\ \E side \in Sides : Largest(resting) = Exposure(side, resting)
<1> DEFINE a == Exposure("long", resting)
           b == Exposure("short", resting)
<1>1. a \in Nat /\ b \in Nat
  BY ExposureIs DEF Sides
<1>2. {Exposure(side, resting) : side \in Sides} = {a, b}
  BY DEF Sides
<1> HIDE DEF a, b
<1>3. Max({a, b}) \in Int /\ Max({a, b}) >= a /\ Max({a, b}) >= b /\ Max({a, b}) \in {a, b}
  BY <1>1, MostOfTwo
<1>4. Largest(resting) = Max({a, b})
  BY <1>2 DEF Largest
<1> QED BY <1>1, <1>3, <1>4 DEF a, b, Sides

\* A stop worked out afresh spends no more than there is above the line, but for a tick.
LEMMA DistanceIs ==
  ASSUME mark \in Nat, held \in Int, equity \in Int, NEW resting, OrdersForm(resting),
         NEW line \in Nat, line <= equity, Largest(resting) > 0
  PROVE  /\ Distance(resting, line) \in Int /\ Distance(resting, line) >= 1
         /\ (Distance(resting, line) - 1) * Largest(resting) <= equity - line
<1> DEFINE size == Largest(resting)
           above == Max({equity - line, 0})
           half == (size * mark) \div 2
           budget == Min({above, half})
           d == Max({budget \div size, 1})
<1>1. size \in Nat /\ size > 0
  BY LargestIs
<1>2. Distance(resting, line) = d
  BY DEF Distance, Largest
<1> HIDE DEF size
<1>3. above \in Int /\ above = equity - line
  <2>1. equity - line \in Int /\ 0 \in Int
    OBVIOUS
  <2>2. above \in Int /\ above >= equity - line /\ above >= 0 /\ above \in {equity - line, 0}
    BY <2>1, MostOfTwo
  <2> QED BY <2>1, <2>2
<1>4. half \in Nat
  <2>1. size * mark \in Nat
    BY <1>1
  <2> HIDE DEF size
  <2> QED BY <2>1
<1> HIDE DEF above, half
<1>5. budget \in Nat /\ budget <= equity - line
  <2>1. above >= 0
    BY <1>3
  <2>2. half \in Int
    BY <1>4
  <2>3. budget \in Int /\ budget <= above /\ budget \in {above, half}
    BY <1>3, <2>2, LeastOfTwo
  <2> QED BY <1>3, <1>4, <2>1, <2>3
<1> HIDE DEF budget
<1>6. budget \div size \in Int /\ (budget \div size) * size <= budget
  BY <1>1, <1>5, Divided
<1>7. d \in Int /\ d >= 1 /\ d \in {budget \div size, 1}
  <2> DEFINE q == budget \div size
  <2>1. q \in Int /\ 1 \in Int
    BY <1>6
  <2> HIDE DEF q
  <2>2. Max({q, 1}) \in Int /\ Max({q, 1}) >= 1 /\ Max({q, 1}) \in {q, 1}
    BY <2>1, MostOfTwo
  <2> QED BY <2>2 DEF q
<1> HIDE DEF d
<1>8. (d - 1) * size <= equity - line
  <2>1. CASE d = 1
    <3>1. (1 - 1) * size = 0 /\ equity - line >= 0
      BY <1>1
    <3> QED BY <2>1, <3>1
  <2>2. CASE d = budget \div size
    <3>1. d * size <= budget /\ d * size \in Int
      BY <1>1, <1>6, <1>7, <2>2
    <3>2. (d - 1) * size = d * size - size
      BY <1>1, <1>7
    <3> QED BY <1>1, <1>5, <3>1, <3>2
  <2> QED BY <1>7, <2>1, <2>2
<1> QED BY <1>2, <1>7, <1>8 DEF size

----------------------------------------------------------------------------
\* What an order resting loses when it fills and runs to a stop, but for the tick.
Loss(side, t, o) == IF Dir(side) * (o.px - t) > 0 THEN o.size * (Dir(side) * (o.px - t) - 1) ELSE 0
Losses(side, t, resting) == [o \in resting |-> Loss(side, t, o)]
\* What a position and the orders on its way lose, run to a stop, but for the tick.
Runs(side, q, at, resting, t) ==
  Dir(side) * q * (Dir(side) * (at - t) - 1) + Sum(Losses(side, t, resting), resting)

OneWay(side, q, at, resting) ==
  /\ Dir(side) * q >= 0
  /\ \A o \in resting : o.side = side /\ Dir(side) * (at - o.px) >= 0

LEMMA LossIs ==
  ASSUME NEW side \in Sides, NEW t \in Int, NEW o, o.size \in Nat, o.px \in Nat
  PROVE  Loss(side, t, o) \in Nat
<1> DEFINE a == Dir(side) * (o.px - t)
<1>1. a \in Int
  BY Ways
<1> HIDE DEF a
<1>2. a > 0 => o.size * (a - 1) \in Nat
  BY <1>1
<1> QED BY <1>2 DEF Loss, a

LEMMA LossesAre ==
  ASSUME NEW side \in Sides, NEW t \in Int, NEW resting, OrdersForm(resting)
  PROVE  /\ \A o \in resting : Losses(side, t, resting)[o] = Loss(side, t, o) /\ Loss(side, t, o) \in Nat
         /\ Sum(Losses(side, t, resting), resting) \in Int
<1>1. \A o \in resting : Losses(side, t, resting)[o] = Loss(side, t, o) /\ Loss(side, t, o) \in Nat
  BY LossIs DEF Losses, OrdersForm
<1>2. Sum(Losses(side, t, resting), resting) \in Int
  BY <1>1, SumInt DEF OrdersForm
<1> QED BY <1>1, <1>2

LEMMA LossWithin ==
  ASSUME NEW side \in Sides, NEW t \in Int, NEW at \in Nat, NEW d \in Int, d >= 1,
         NEW o, o.size \in Nat, o.px \in Nat, Dir(side) * (at - o.px) >= 0, Dir(side) * (at - t) <= d
  PROVE  Loss(side, t, o) <= (d - 1) * o.size
<1> DEFINE a == Dir(side) * (o.px - t)
<1>1. a \in Int /\ a <= d
  <2>1. CASE Dir(side) = 1
    BY <2>1
  <2>2. CASE Dir(side) = -1
    BY <2>2
  <2> QED BY <2>1, <2>2, Ways
<1> HIDE DEF a
<1>2. CASE a > 0
  <2>1. (a - 1) * o.size <= (d - 1) * o.size
    BY <1>1, ScaledIsMore
  <2>2. o.size * (a - 1) = (a - 1) * o.size
    BY <1>1
  <2> QED BY <1>2, <2>1, <2>2 DEF Loss, a
<1>3. CASE ~(a > 0)
  <2>1. (d - 1) * o.size \in Nat
    OBVIOUS
  <2> QED BY <1>3, <2>1 DEF Loss, a
<1> QED BY <1>2, <1>3

LEMMA RunsWithin ==
  ASSUME NEW side \in Sides, NEW q \in Int, NEW at \in Nat, NEW resting, OrdersForm(resting),
         OneWay(side, q, at, resting), NEW t \in Int, NEW d \in Int, d >= 1, Dir(side) * (at - t) <= d
  PROVE  /\ Runs(side, q, at, resting, t) \in Int
         /\ Runs(side, q, at, resting, t) <= (d - 1) * (Dir(side) * q + SumOf(resting))
<1> DEFINE e == Dir(side) * q
           k == Dir(side) * (at - t)
           v == Losses(side, t, resting)
           w == [o \in resting |-> o.size]
<1>1. e \in Int /\ e >= 0 /\ k \in Int /\ k <= d
  BY Ways DEF OneWay
<1>2. \A o \in resting : w[o] = o.size /\ w[o] \in Nat /\ v[o] \in Nat /\ v[o] <= (d - 1) * w[o]
  <2> TAKE o \in resting
  <2>1. o.size \in Nat /\ o.px \in Nat /\ Dir(side) * (at - o.px) >= 0
    BY DEF OrdersForm, OneWay
  <2>2. Loss(side, t, o) <= (d - 1) * o.size
    BY <2>1, LossWithin
  <2> QED BY <2>1, <2>2, LossesAre
<1>3. IsFiniteSet(resting) /\ d - 1 \in Int
  BY DEF OrdersForm
<1> HIDE DEF v, w, e, k
<1>4. Sum(v, resting) <= (d - 1) * Sum(w, resting) /\ Sum(v, resting) \in Int /\ Sum(w, resting) \in Int
  <2>1. \A o \in resting : v[o] \in Int /\ w[o] \in Int /\ v[o] <= (d - 1) * w[o]
    BY <1>2
  <2> QED BY <1>3, <2>1, SumWithin, SumInt
<1>5. SumOf(resting) = Sum(w, resting)
  BY <1>2, <1>3, SumOfIs
<1>6. (k - 1) * e <= (d - 1) * e /\ e * (k - 1) = (k - 1) * e
  BY <1>1, ScaledIsMore
<1>7. Runs(side, q, at, resting, t) = e * (k - 1) + Sum(v, resting)
  BY DEF Runs, e, k, v
<1>8. (d - 1) * (e + Sum(w, resting)) = (d - 1) * e + (d - 1) * Sum(w, resting)
  BY <1>1, <1>4
<1>9. e * (k - 1) \in Int /\ (d - 1) * e \in Int /\ (d - 1) * Sum(w, resting) \in Int
  BY <1>1, <1>4
<1>10. e * (k - 1) <= (d - 1) * e
  BY <1>6
<1>11. e * (k - 1) + Sum(v, resting) <= (d - 1) * (e + SumOf(resting))
  BY <1>4, <1>5, <1>8, <1>9, <1>10
<1> QED BY <1>4, <1>7, <1>9, <1>11 DEF e

Other(side) == IF side = "long" THEN "short" ELSE "long"

LEMMA Others == \A side \in Sides : Other(side) \in Sides /\ Sides = {side, Other(side)} /\ Dir(Other(side)) = -Dir(side) /\ Other(side) # side
BY DEF Other, Sides, Dir

LEMMA ReconciledIs ==
  ASSUME LinesForms, NEW resting, OrdersForm(resting), NEW line \in Nat, line <= equity
  PROVE  Reconciled(resting, line) \in [Sides -> Int]
<1>1. mark \in Nat /\ held \in Int /\ equity \in Int /\ stands \in [Sides -> Int]
  BY DEF LinesForms
<1>2. \A side \in Sides : Exposure(side, resting) # 0 => StopLine(side, resting, line) \in Int
  <2> SUFFICES ASSUME NEW side \in Sides, Exposure(side, resting) # 0
               PROVE  StopLine(side, resting, line) \in Int
    OBVIOUS
  <2>1. Largest(resting) > 0
    <3>1. Exposure(side, resting) \in Nat /\ Largest(resting) \in Nat /\ Exposure(side, resting) <= Largest(resting)
      BY <1>1, ExposureIs, LargestIs
    <3> QED BY <3>1
  <2>2. Distance(resting, line) \in Int
    BY <1>1, <2>1, DistanceIs
  <2> QED BY <1>1, <2>2, Ways DEF StopLine
<1> QED BY <1>1, <1>2 DEF Reconciled

\* Of an account traded one way, all that is held and rests is on its side.
LEMMA OneWayIs ==
  ASSUME held \in Int, mark \in Nat, NEW resting, OrdersForm(resting), NEW u \in Sides, OneWay(u, held, mark, resting)
  PROVE  /\ Exposure(u, resting) = Dir(u) * held + SumOf(resting)
         /\ Exposure(Other(u), resting) = 0
         /\ Largest(resting) = Exposure(u, resting)
<1>1. Of(u, resting) = resting /\ Of(Other(u), resting) = {}
  BY Others DEF Of, OneWay
<1>2. SumOf({}) = 0
  BY NoSizes
<1>3. Dir(u) * held >= 0 /\ Dir(u) * held \in Int /\ Dir(Other(u)) * held = -(Dir(u) * held)
  <2>1. Dir(u) * held >= 0 /\ Dir(Other(u)) = -Dir(u)
    BY Others DEF OneWay
  <2>2. CASE Dir(u) = 1
    BY <2>1, <2>2
  <2>3. CASE Dir(u) = -1
    BY <2>1, <2>3
  <2> QED BY <2>2, <2>3, Ways
<1>4. Exposure(u, resting) = Dir(u) * held + SumOf(resting) /\ Exposure(u, resting) \in Nat
  BY <1>1, <1>3, ExposureIs
<1>5. Exposure(Other(u), resting) = 0
  <2> DEFINE a == Dir(Other(u)) * held
  <2>1. a = -(Dir(u) * held)
    BY <1>3
  <2>2. Exposure(Other(u), resting) = (IF a >= 0 THEN a ELSE 0) + SumOf({})
    BY <1>1, ExposureIs, Others
  <2> HIDE DEF a
  <2> QED BY <1>2, <1>3, <2>1, <2>2
<1>6. \A side \in Sides : side = u \/ side = Other(u)
  BY Others
<1>7. Largest(resting) = Exposure(u, resting)
  <2>1. Largest(resting) \in Nat /\ Exposure(u, resting) <= Largest(resting)
    BY LargestIs
  <2>2. Largest(resting) = Exposure(u, resting) \/ Largest(resting) = 0
    BY <1>5, <1>6, LargestIs
  <2> QED BY <1>4, <2>1, <2>2
<1> QED BY <1>4, <1>5, <1>7

\* Where a stop of the way traded may stand.
Stands(u, q, at, resting, placed, above) ==
  /\ placed[Other(u)] = 0
  /\ placed[u] # 0 => /\ Dir(u) * (at - placed[u]) >= 0
                     /\ Runs(u, q, at, resting, placed[u]) <= above

\* Worked out afresh, or kept for being nearer, a stop holds the line.
LEMMA AfreshStands ==
  ASSUME LinesForms, NEW resting, OrdersForm(resting), NEW line \in Nat, line <= equity,
         NEW u \in Sides, OneWay(u, held, mark, resting),
         stands[u] # 0 => Dir(u) * (mark - stands[u]) >= 0
  PROVE  Stands(u, held, mark, resting, Reconciled(resting, line), equity - line)
<1>1. mark \in Nat /\ held \in Int /\ equity \in Int /\ stands \in [Sides -> Int]
  BY DEF LinesForms
<1> DEFINE new == Reconciled(resting, line)
           X == Largest(resting)
           d == Distance(resting, line)
<1>2. new[Other(u)] = 0
  BY <1>1, OneWayIs, Others DEF Reconciled
<1>3. X \in Nat /\ X = Dir(u) * held + SumOf(resting) /\ X = Exposure(u, resting)
  BY <1>1, OneWayIs, LargestIs
<1>4. CASE X = 0
  <2>1. new[u] = 0
    BY <1>3, <1>4 DEF Reconciled
  <2> QED BY <1>2, <2>1 DEF Stands
<1>5. CASE X # 0
  <2>1. d \in Int /\ d >= 1 /\ (d - 1) * X <= equity - line
    BY <1>1, <1>3, <1>5, DistanceIs
  <2>2. new[u] = StopLine(u, resting, line) \/ (new[u] = stands[u] /\ stands[u] # 0 /\ Tighter(u, stands[u], StopLine(u, resting, line)))
    BY <1>3, <1>5 DEF Reconciled
  <2>3. StopLine(u, resting, line) = mark - Dir(u) * d
    BY DEF StopLine
  <2> HIDE DEF new, X, d
  <2>4. new[u] \in Int /\ Dir(u) * (mark - new[u]) >= 0 /\ Dir(u) * (mark - new[u]) <= d
    <3>1. CASE new[u] = StopLine(u, resting, line)
      <4>1. CASE u = "long"
        BY <1>1, <2>1, <2>3, <3>1, <4>1, Ways
      <4>2. CASE u = "short"
        BY <1>1, <2>1, <2>3, <3>1, <4>2, Ways
      <4> QED BY <4>1, <4>2 DEF Sides
    <3>2. CASE new[u] = stands[u] /\ stands[u] # 0 /\ Tighter(u, stands[u], StopLine(u, resting, line))
      <4>1. CASE u = "long"
        BY <1>1, <2>1, <2>3, <3>2, <4>1, Ways DEF Tighter
      <4>2. CASE u = "short"
        BY <1>1, <2>1, <2>3, <3>2, <4>2, Ways DEF Tighter
      <4> QED BY <4>1, <4>2 DEF Sides
    <3> QED BY <2>2, <3>1, <3>2
  <2>5. /\ Runs(u, held, mark, resting, new[u]) \in Int
        /\ Runs(u, held, mark, resting, new[u]) <= (d - 1) * (Dir(u) * held + SumOf(resting))
    BY <1>1, <2>1, <2>4, RunsWithin
  <2>6. Runs(u, held, mark, resting, new[u]) <= equity - line
    <3>1. (d - 1) * X \in Int /\ (d - 1) * X = (d - 1) * (Dir(u) * held + SumOf(resting))
      BY <1>3, <2>1
    <3> QED BY <1>1, <2>1, <2>5, <3>1
  <2> QED BY <1>2, <2>4, <2>6 DEF Stands, new
<1> QED BY <1>4, <1>5

----------------------------------------------------------------------------
StopsHold ==
  \A u \in Sides : ways = {u} =>
    /\ OneWay(u, held, mark, rest)
    /\ stands[Other(u)] = 0
    /\ stands[u] # 0 => /\ Dir(u) * (mark - stands[u]) >= 0
                        /\ Alive => Runs(u, held, mark, rest, stands[u]) <= equity - seen

LinesInv == LinesForms /\ seen <= floor /\ StopsHold

LEMMA InitLinesInv == LinesInit => LinesInv
<1> SUFFICES ASSUME LinesInit PROVE LinesInv
  OBVIOUS
<1>1. LinesForms
  <2>1. mark \in Nat /\ equity \in Int
    BY RuleLinesAssumption DEF LinesInit
  <2>2. OrdersForm(rest)
    BY FS_EmptySet DEF LinesInit, OrdersForm
  <2>3. floor \in Nat /\ seen \in Nat
    BY FloorsAreNumbers DEF LinesInit
  <2> QED BY <2>1, <2>2, <2>3 DEF LinesInit, LinesForms
<1>2. seen <= floor
  <2>1. seen = floor
    BY DEF LinesInit
  <2> QED BY <1>1, <2>1 DEF LinesForms
<1>3. StopsHold
  <2>1. \A u \in Sides : stands[u] = 0 /\ stands[Other(u)] = 0 /\ OneWay(u, held, mark, rest)
    BY Others, Ways DEF LinesInit, OneWay
  <2> QED BY <2>1 DEF StopsHold
<1> QED BY <1>1, <1>2, <1>3 DEF LinesInv

LEMMA LinesFacts ==
  ASSUME LinesInv
  PROVE  /\ mark \in Nat /\ held \in Int /\ equity \in Int /\ floor \in Nat /\ seen \in Nat /\ opened \in Nat
         /\ stands \in [Sides -> Int] /\ OrdersForm(rest) /\ seen <= floor /\ LinesForms
         /\ \A side \in Sides : stands[side] \in Int /\ Dir(side) \in {1, -1}
BY Ways DEF LinesInv, LinesForms

\* The stops of an account whose steps read the line afresh.
LEMMA AfreshStep ==
  ASSUME LinesInv, Alive, NEW resting, OrdersForm(resting),
         \A u \in Sides : ways = {u} => OneWay(u, held, mark, resting),
         seen' = floor, stands' = Reconciled(resting, floor), rest' = resting,
         UNCHANGED <<mark, held, equity, floor, ways>>, opened' \in Nat
  PROVE  LinesInv'
<1>1. floor \in Nat /\ floor <= equity /\ equity \in Int
  BY LinesFacts DEF Alive
<1>2. LinesForms'
  <2>1. stands' \in [Sides -> Int]
    BY <1>1, LinesFacts, ReconciledIs
  <2> QED BY <2>1 DEF LinesInv, LinesForms, OrdersForm
<1>3. (seen <= floor)'
  BY <1>1
<1>4. StopsHold'
  <2> SUFFICES ASSUME NEW u \in Sides, ways = {u}
               PROVE  /\ OneWay(u, held, mark, resting)
                      /\ stands'[Other(u)] = 0
                      /\ stands'[u] # 0 => /\ Dir(u) * (mark - stands'[u]) >= 0
                                           /\ Runs(u, held, mark, resting, stands'[u]) <= equity - floor
    BY DEF StopsHold
  <2>1. OneWay(u, held, mark, resting)
    OBVIOUS
  <2>2. stands[u] # 0 => Dir(u) * (mark - stands[u]) >= 0
    BY DEF LinesInv, StopsHold
  <2>3. Stands(u, held, mark, resting, stands', equity - floor)
    BY <1>1, <2>1, <2>2, LinesFacts, AfreshStands
  <2> QED BY <2>1, <2>3 DEF Stands
<1> QED BY <1>2, <1>3, <1>4 DEF LinesInv

LEMMA SweepStep ==
  ASSUME LinesInv, Sweep
  PROVE  LinesInv'
<1>1. \A u \in Sides : ways = {u} => OneWay(u, held, mark, rest)
  BY DEF LinesInv, StopsHold
<1> QED BY <1>1, LinesFacts, AfreshStep DEF Sweep

LEMMA OpensStep ==
  ASSUME LinesInv, NEW side \in ways, NEW size \in OrderSizes, NEW px \in Marks, Opens(side, size, px)
  PROVE  LinesInv'
<1> DEFINE o == [id |-> opened, side |-> side, size |-> size, px |-> px]
           resting == rest \cup {o}
<1>1. side \in Sides /\ size \in Nat /\ px \in Nat
  BY RuleLinesAssumption DEF LinesInv, LinesForms
<1>2. OrdersForm(resting)
  <2>1. IsFiniteSet(resting)
    BY LinesFacts, FS_AddElement DEF OrdersForm
  <2> QED BY <1>1, <2>1, LinesFacts DEF OrdersForm
<1>3. \A u \in Sides : ways = {u} => OneWay(u, held, mark, resting)
  <2> SUFFICES ASSUME NEW u \in Sides, ways = {u} PROVE OneWay(u, held, mark, resting)
    OBVIOUS
  <2>1. OneWay(u, held, mark, rest)
    BY DEF LinesInv, StopsHold
  <2>2. side = u /\ Dir(side) * (mark - px) >= 0
    BY DEF Opens
  <2> QED BY <2>1, <2>2 DEF OneWay
<1>4. /\ Alive /\ seen' = floor /\ stands' = Reconciled(resting, floor) /\ rest' = resting
      /\ UNCHANGED <<mark, held, equity, floor, ways>> /\ opened' \in Nat
  BY LinesFacts DEF Opens
<1> HIDE DEF resting
<1> QED BY <1>2, <1>3, <1>4, AfreshStep

\* Fewer orders lose no more.
LEMMA FewerRun ==
  ASSUME NEW side \in Sides, NEW q \in Int, NEW at \in Nat, NEW resting, OrdersForm(resting), NEW o \in resting,
         NEW t \in Int
  PROVE  /\ OrdersForm(resting \ {o})
         /\ Runs(side, q, at, resting, t) = Runs(side, q, at, resting \ {o}, t) + Loss(side, t, o)
         /\ Runs(side, q, at, resting, t) \in Int /\ Runs(side, q, at, resting \ {o}, t) \in Int
         /\ Loss(side, t, o) \in Nat
         /\ Runs(side, q, at, resting \ {o}, t) <= Runs(side, q, at, resting, t)
<1> DEFINE v == Losses(side, t, resting)
           w == Losses(side, t, resting \ {o})
           e == Dir(side) * q * (Dir(side) * (at - t) - 1)
<1>1. OrdersForm(resting \ {o})
  BY FS_Subset DEF OrdersForm
<1>2. Sum(v, resting) = v[o] + Sum(v, resting \ {o}) /\ v[o] = Loss(side, t, o)
  <2>1. \A x \in resting : v[x] \in Int
    BY LossesAre
  <2>2. v[o] = Loss(side, t, o)
    BY LossesAre
  <2> HIDE DEF v
  <2> QED BY <2>1, <2>2, SumTaking DEF OrdersForm
<1>3. Sum(v, resting \ {o}) = Sum(w, resting \ {o})
  <2>1. \A x \in resting \ {o} : v[x] \in Int /\ v[x] = w[x]
    <3>1. \A x \in resting \ {o} : v[x] = Loss(side, t, x) /\ w[x] = Loss(side, t, x)
      BY DEF Losses
    <3>2. \A x \in resting \ {o} : Loss(side, t, x) \in Nat
      BY LossesAre
    <3> QED BY <3>1, <3>2
  <2> HIDE DEF v, w
  <2> QED BY <1>1, <2>1, SumSame DEF OrdersForm
<1>4. e \in Int
  <2>1. CASE Dir(side) = 1
    BY <2>1
  <2>2. CASE Dir(side) = -1
    BY <2>2
  <2> QED BY <2>1, <2>2, Ways
<1>5. Sum(w, resting \ {o}) \in Int /\ Loss(side, t, o) \in Nat
  BY <1>1, LossesAre
<1>6. Runs(side, q, at, resting, t) = e + Sum(v, resting) /\ Runs(side, q, at, resting \ {o}, t) = e + Sum(w, resting \ {o})
  BY DEF Runs
<1> HIDE DEF e, v, w
<1> QED BY <1>1, <1>2, <1>3, <1>4, <1>5, <1>6

LEMMA CancelStep ==
  ASSUME LinesInv, NEW o \in rest, TraderCancels(o)
  PROVE  LinesInv'
<1>1. rest' = rest \ {o} /\ UNCHANGED <<mark, held, stands, equity, floor, seen, opened, ways>>
  BY DEF TraderCancels
<1>2. LinesForms'
  <2>1. OrdersForm(rest \ {o})
    BY LinesFacts, FS_Subset DEF OrdersForm
  <2> QED BY <1>1, <2>1, LinesFacts DEF LinesForms, OrdersForm
<1>3. StopsHold'
  <2> SUFFICES ASSUME NEW u \in Sides, ways = {u}
               PROVE  /\ OneWay(u, held, mark, rest \ {o})
                      /\ stands[Other(u)] = 0
                      /\ stands[u] # 0 => /\ Dir(u) * (mark - stands[u]) >= 0
                                          /\ Alive => Runs(u, held, mark, rest \ {o}, stands[u]) <= equity - seen
    BY <1>1 DEF StopsHold, Alive
  <2>1. /\ OneWay(u, held, mark, rest) /\ stands[Other(u)] = 0
        /\ stands[u] # 0 => /\ Dir(u) * (mark - stands[u]) >= 0
                            /\ Alive => Runs(u, held, mark, rest, stands[u]) <= equity - seen
    BY DEF LinesInv, StopsHold
  <2>2. /\ Runs(u, held, mark, rest, stands[u]) \in Int /\ Runs(u, held, mark, rest \ {o}, stands[u]) \in Int
        /\ Runs(u, held, mark, rest \ {o}, stands[u]) <= Runs(u, held, mark, rest, stands[u])
    <3>1. stands[u] \in Int /\ held \in Int /\ mark \in Nat /\ OrdersForm(rest)
      BY LinesFacts
    <3> QED BY <3>1, FewerRun
  <2>4. OneWay(u, held, mark, rest \ {o})
    BY <2>1 DEF OneWay
  <2>5. equity - seen \in Int
    BY LinesFacts
  <2> QED BY <2>1, <2>2, <2>4, <2>5
<1> QED BY <1>1, <1>2, <1>3 DEF LinesInv

LEMMA Spreads ==
  ASSUME NEW a \in Int, NEW b \in Int, NEW c \in Int
  PROVE  (a + b) * c = a * c + b * c
OBVIOUS

LEMMA HoldingKeeps ==
  ASSUME stands \in [Sides -> Int], NEW q \in Int, Holding(q)
  PROVE  /\ held' = q /\ stands' \in [Sides -> Int]
         /\ \A side \in Sides : stands'[side] = 0 \/ (stands'[side] = stands[side] /\ ~(IsHeld(side) /\ Dir(side) * q <= 0))
BY DEF Holding

LEMMA FillsStep ==
  ASSUME LinesInv, NEW o \in rest, Fills(o)
  PROVE  LinesInv'
<1>1. /\ Reaches(o) /\ rest' = rest \ {o} /\ Holding(held + Dir(o.side) * o.size)
      /\ UNCHANGED <<mark, equity, floor, seen, opened, ways>>
  BY DEF Fills
<1>2. o.side \in Sides /\ o.size \in Nat /\ o.px \in Nat
  BY LinesFacts DEF OrdersForm
<1> DEFINE q == held + Dir(o.side) * o.size
<1>3. q \in Int
  BY <1>2, LinesFacts, Ways
<1>4. /\ held' = q /\ stands' \in [Sides -> Int]
      /\ \A side \in Sides : stands'[side] = 0 \/ stands'[side] = stands[side]
  BY <1>1, <1>3, LinesFacts, HoldingKeeps
<1>5. LinesForms'
  <2>1. OrdersForm(rest \ {o})
    BY LinesFacts, FS_Subset DEF OrdersForm
  <2> HIDE DEF q
  <2> QED BY <1>1, <1>3, <1>4, <2>1, LinesFacts DEF LinesForms, OrdersForm
<1>6. StopsHold'
  <2> SUFFICES ASSUME NEW u \in Sides, ways = {u}
               PROVE  /\ OneWay(u, q, mark, rest \ {o})
                      /\ stands'[Other(u)] = 0
                      /\ stands'[u] # 0 => /\ Dir(u) * (mark - stands'[u]) >= 0
                                           /\ Alive => Runs(u, q, mark, rest \ {o}, stands'[u]) <= equity - seen
    BY <1>1, <1>4 DEF StopsHold, Alive
  <2>1. /\ OneWay(u, held, mark, rest) /\ stands[Other(u)] = 0
        /\ stands[u] # 0 => /\ Dir(u) * (mark - stands[u]) >= 0
                            /\ Alive => Runs(u, held, mark, rest, stands[u]) <= equity - seen
    BY DEF LinesInv, StopsHold
  <2>2. o.side = u /\ Dir(u) * (mark - o.px) >= 0 /\ Dir(u) * held >= 0
    BY <2>1 DEF OneWay
  <2>3. o.px = mark
    <3>1. CASE u = "long"
      BY <1>1, <1>2, <2>2, <3>1, LinesFacts, Ways DEF Reaches
    <3>2. CASE u = "short"
      <4>1. o.side # "long" /\ Dir(u) = -1
        BY <2>2, <3>2, Ways
      <4>2. mark >= o.px
        BY <1>1, <4>1 DEF Reaches
      <4>3. (-1) * (mark - o.px) >= 0
        BY <2>2, <4>1
      <4> QED BY <1>2, <4>2, <4>3, LinesFacts
    <3> QED BY <3>1, <3>2 DEF Sides
  <2>4. Dir(u) * q = Dir(u) * held + o.size /\ Dir(u) * q >= 0
    <3>1. CASE Dir(u) = 1
      BY <1>2, <2>2, <3>1, LinesFacts
    <3>2. CASE Dir(u) = -1
      BY <1>2, <2>2, <3>2, LinesFacts
    <3> QED BY <3>1, <3>2, Ways
  <2>5. OneWay(u, q, mark, rest \ {o})
    BY <2>1, <2>4 DEF OneWay
  <2>6. ASSUME stands'[u] # 0, Alive
        PROVE  Runs(u, q, mark, rest \ {o}, stands[u]) <= equity - seen
    <3> DEFINE t == stands[u]
               k == Dir(u) * (mark - t)
               e == Dir(u) * held
               S == Sum(Losses(u, t, rest \ {o}), rest \ {o})
    <3>1. t \in Int /\ k \in Int /\ e \in Int /\ k >= 0 /\ Runs(u, held, mark, rest, t) <= equity - seen
      BY <1>4, <2>1, <2>6, LinesFacts
    <3>2. /\ Runs(u, held, mark, rest, t) = Runs(u, held, mark, rest \ {o}, t) + Loss(u, t, o)
          /\ OrdersForm(rest \ {o})
      BY <3>1, LinesFacts, FewerRun
    <3>3. S \in Int
      BY <3>1, <3>2, LossesAre
    <3>4. Loss(u, t, o) = IF k > 0 THEN o.size * (k - 1) ELSE 0
      BY <2>3 DEF Loss
    <3>5. /\ Runs(u, q, mark, rest \ {o}, t) = Dir(u) * q * (k - 1) + S
          /\ Runs(u, held, mark, rest \ {o}, t) = e * (k - 1) + S
      BY DEF Runs
    <3> HIDE DEF t, k, e, S, q
    <3>6. Dir(u) * q * (k - 1) = e * (k - 1) + o.size * (k - 1)
      <4>1. Dir(u) * q = e + o.size
        BY <2>4 DEF e
      <4>2. (e + o.size) * (k - 1) = e * (k - 1) + o.size * (k - 1)
        <5>1. o.size \in Int /\ k - 1 \in Int
          BY <1>2, <3>1
        <5> QED BY <3>1, <5>1, Spreads
      <4> QED BY <4>1, <4>2
    <3>7. e * (k - 1) \in Int /\ o.size * (k - 1) \in Int /\ equity - seen \in Int
      BY <1>2, <3>1, LinesFacts
    <3>8. o.size * (k - 1) <= Loss(u, t, o) /\ Loss(u, t, o) \in Int
      <4>1. CASE k > 0
        BY <3>4, <3>7, <4>1
      <4>2. CASE k = 0
        <5>1. o.size * (0 - 1) = -o.size
          BY <1>2
        <5> QED BY <1>2, <3>4, <4>2, <5>1
      <4> QED BY <3>1, <4>1, <4>2
    <3>9. Runs(u, q, mark, rest \ {o}, t) <= equity - seen
      BY <3>1, <3>2, <3>3, <3>5, <3>6, <3>7, <3>8
    <3> QED BY <3>9 DEF t
  <2>7. Other(u) \in Sides
    BY Others
  <2> HIDE DEF q
  <2> QED BY <1>4, <2>1, <2>5, <2>6, <2>7
<1> QED BY <1>1, <1>5, <1>6 DEF LinesInv, LinesForms

LEMMA ReducesStep ==
  ASSUME LinesInv, NEW side \in Sides, TraderReduces(side)
  PROVE  LinesInv'
<1>1. /\ IsHeld(side) /\ Holding(held - Dir(side))
      /\ UNCHANGED <<mark, rest, equity, floor, seen, opened, ways>>
  BY DEF TraderReduces
<1> DEFINE q == held - Dir(side)
<1>2. q \in Int
  BY LinesFacts, Ways
<1>3. /\ held' = q /\ stands' \in [Sides -> Int]
      /\ \A s \in Sides : stands'[s] = 0 \/ (stands'[s] = stands[s] /\ ~(IsHeld(s) /\ Dir(s) * q <= 0))
  BY <1>1, <1>2, LinesFacts, HoldingKeeps
<1>4. LinesForms'
  <2> HIDE DEF q
  <2> QED BY <1>1, <1>2, <1>3, LinesFacts DEF LinesForms, OrdersForm
<1>5. StopsHold'
  <2> SUFFICES ASSUME NEW u \in Sides, ways = {u}
               PROVE  /\ OneWay(u, q, mark, rest)
                      /\ stands'[Other(u)] = 0
                      /\ stands'[u] # 0 => /\ Dir(u) * (mark - stands'[u]) >= 0
                                           /\ Alive => Runs(u, q, mark, rest, stands'[u]) <= equity - seen
    BY <1>1, <1>3 DEF StopsHold, Alive
  <2>1. /\ OneWay(u, held, mark, rest) /\ stands[Other(u)] = 0
        /\ stands[u] # 0 => /\ Dir(u) * (mark - stands[u]) >= 0
                            /\ Alive => Runs(u, held, mark, rest, stands[u]) <= equity - seen
    BY DEF LinesInv, StopsHold
  <2>2. Dir(u) * held >= 0
    BY <2>1 DEF OneWay
  <2>3. side = u
    <3>1. Dir(side) * held > 0
      BY <1>1 DEF IsHeld
    <3>2. CASE Dir(side) = 1 /\ Dir(u) = 1
      BY <3>2, Ways DEF Sides, Dir
    <3>3. CASE Dir(side) = -1 /\ Dir(u) = -1
      BY <3>3, Ways DEF Sides, Dir
    <3>4. CASE Dir(side) = 1 /\ Dir(u) = -1
      BY <2>2, <3>1, <3>4, LinesFacts
    <3>5. CASE Dir(side) = -1 /\ Dir(u) = 1
      BY <2>2, <3>1, <3>5, LinesFacts
    <3> QED BY <3>2, <3>3, <3>4, <3>5, Ways
  <2>4. Dir(u) * q = Dir(u) * held - 1 /\ Dir(u) * q >= 0
    <3>1. Dir(u) * held > 0
      BY <1>1, <2>3 DEF IsHeld
    <3>2. CASE Dir(u) = 1
      BY <2>3, <3>1, <3>2, LinesFacts
    <3>3. CASE Dir(u) = -1
      BY <2>3, <3>1, <3>3, LinesFacts
    <3> QED BY <3>2, <3>3, Ways
  <2>5. OneWay(u, q, mark, rest)
    BY <2>1, <2>4 DEF OneWay
  <2>6. ASSUME stands'[u] # 0, Alive
        PROVE  Runs(u, q, mark, rest, stands[u]) <= equity - seen
    <3> DEFINE t == stands[u]
               k == Dir(u) * (mark - t)
               e == Dir(u) * held
               S == Sum(Losses(u, t, rest), rest)
    <3>1. t \in Int /\ k \in Int /\ e \in Int /\ k >= 0 /\ Runs(u, held, mark, rest, t) <= equity - seen
      BY <1>3, <2>1, <2>6, LinesFacts
    <3>2. S \in Int
      BY <3>1, LinesFacts, LossesAre
    <3>3. /\ Runs(u, q, mark, rest, t) = Dir(u) * q * (k - 1) + S
          /\ Runs(u, held, mark, rest, t) = e * (k - 1) + S
      BY DEF Runs
    <3>4. Dir(u) * q = e - 1
      BY <2>4
    <3>5. CASE k = 0
      <4>1. Dir(u) * (mark - t) <= 1
        BY <3>5
      <4> HIDE DEF q
      <4>2. /\ Runs(u, q, mark, rest, t) \in Int
            /\ Runs(u, q, mark, rest, t) <= (1 - 1) * (Dir(u) * q + SumOf(rest))
        BY <1>2, <2>5, <3>1, <4>1, LinesFacts, RunsWithin
      <4>3. (1 - 1) * (Dir(u) * q + SumOf(rest)) = 0
        <5>1. SumOf(rest) \in Int /\ Dir(u) * q \in Int
          BY <2>4, <3>1, LinesFacts, SidesSum
        <5> QED BY <5>1
      <4>4. seen <= equity
        BY <2>6, LinesFacts DEF Alive
      <4> QED BY <4>2, <4>3, <4>4, LinesFacts
    <3>6. CASE k >= 1
      <4> HIDE DEF t, k, e, S, q
      <4>1. (e - 1) * (k - 1) = e * (k - 1) - (k - 1)
        BY <3>1
      <4>2. e * (k - 1) \in Int /\ equity - seen \in Int
        BY <3>1, LinesFacts
      <4>3. Runs(u, q, mark, rest, t) = e * (k - 1) - (k - 1) + S
        BY <3>3, <3>4, <4>1
      <4>4. Runs(u, q, mark, rest, t) <= equity - seen
        BY <3>1, <3>2, <3>3, <3>6, <4>2, <4>3
      <4> QED BY <4>4 DEF t
    <3> QED BY <3>1, <3>5, <3>6
  <2>7. Other(u) \in Sides
    BY Others
  <2> HIDE DEF q
  <2> QED BY <1>3, <2>1, <2>5, <2>6, <2>7
<1> QED BY <1>1, <1>4, <1>5 DEF LinesInv, LinesForms

\* A stop nearer the mark loses no more.
LEMMA NearerRuns ==
  ASSUME NEW u \in Sides, NEW q \in Int, NEW at \in Nat, NEW resting, OrdersForm(resting),
         Dir(u) * q >= 0, NEW t \in Int, NEW to \in Int, Dir(u) * (at - to) <= Dir(u) * (at - t)
  PROVE  Runs(u, q, at, resting, to) <= Runs(u, q, at, resting, t)
<1> DEFINE e == Dir(u) * q
           k == Dir(u) * (at - t)
           n == Dir(u) * (at - to)
           v == Losses(u, t, resting)
           w == Losses(u, to, resting)
<1>1. e \in Nat /\ k \in Int /\ n \in Int /\ n <= k
  BY Ways
<1>2. \A o \in resting : w[o] \in Int /\ v[o] \in Int /\ w[o] <= v[o]
  <2> SUFFICES ASSUME NEW o \in resting PROVE w[o] \in Int /\ v[o] \in Int /\ w[o] <= v[o]
    OBVIOUS
  <2>1. w[o] = Loss(u, to, o) /\ v[o] = Loss(u, t, o) /\ w[o] \in Nat /\ v[o] \in Nat
    BY LossesAre
  <2> DEFINE a == Dir(u) * (o.px - t)
             b == Dir(u) * (o.px - to)
  <2>2. o.px \in Nat /\ o.size \in Nat
    BY DEF OrdersForm
  <2>3. a \in Int /\ b \in Int /\ b <= a
    <3>1. CASE Dir(u) = 1
      BY <1>1, <2>2, <3>1
    <3>2. CASE Dir(u) = -1
      BY <1>1, <2>2, <3>2
    <3> QED BY <3>1, <3>2, Ways
  <2>4. Loss(u, to, o) = (IF b > 0 THEN o.size * (b - 1) ELSE 0) /\ Loss(u, t, o) = (IF a > 0 THEN o.size * (a - 1) ELSE 0)
    BY DEF Loss
  <2> HIDE DEF a, b, v, w
  <2>5. CASE b > 0
    <3>1. (b - 1) * o.size <= (a - 1) * o.size
      BY <2>2, <2>3, ScaledIsMore
    <3>2. (b - 1) * o.size = o.size * (b - 1) /\ (a - 1) * o.size = o.size * (a - 1)
      BY <2>2, <2>3
    <3> QED BY <2>1, <2>3, <2>4, <2>5, <3>1, <3>2
  <2>6. CASE ~(b > 0)
    BY <2>1, <2>3, <2>4, <2>6
  <2> QED BY <2>1, <2>5, <2>6
<1>3. IsFiniteSet(resting)
  BY DEF OrdersForm
<1> HIDE DEF e, k, n, v, w
<1>4. Sum(w, resting) <= Sum(v, resting) /\ Sum(w, resting) \in Int /\ Sum(v, resting) \in Int
  BY <1>2, <1>3, SumMonotone, SumInt
<1>5. e * (n - 1) <= e * (k - 1) /\ e * (n - 1) \in Int /\ e * (k - 1) \in Int
  <2>1. (n - 1) * e <= (k - 1) * e
    BY <1>1, ScaledIsMore
  <2>2. (n - 1) * e = e * (n - 1) /\ (k - 1) * e = e * (k - 1)
    BY <1>1
  <2> QED BY <1>1, <2>1, <2>2
<1>6. Runs(u, q, at, resting, to) = e * (n - 1) + Sum(w, resting) /\ Runs(u, q, at, resting, t) = e * (k - 1) + Sum(v, resting)
  BY DEF Runs, e, k, n, v, w
<1> QED BY <1>4, <1>5, <1>6

\* The side held is the way traded.
LEMMA HeldIsTheWay ==
  ASSUME held \in Int, NEW u \in Sides, Dir(u) * held >= 0, NEW side \in Sides, IsHeld(side)
  PROVE  side = u
<1>1. Dir(side) * held > 0
  BY DEF IsHeld
<1>2. Dir(side) = Dir(u) => side = u
  BY DEF Sides, Dir
<1>3. CASE Dir(side) = 1 /\ Dir(u) = -1
  BY <1>1, <1>3
<1>4. CASE Dir(side) = -1 /\ Dir(u) = 1
  BY <1>1, <1>4
<1> QED BY <1>2, <1>3, <1>4, Ways

LEMMA MovesStopStep ==
  ASSUME LinesInv, NEW side \in Sides, NEW to \in Marks, TraderMovesStop(side, to)
  PROVE  LinesInv'
<1>1. /\ IsHeld(side) /\ stands[side] # 0 /\ Dir(side) * (mark - to) > 0 /\ Tighter(side, to, stands[side])
      /\ stands' = [stands EXCEPT ![side] = to] /\ UNCHANGED <<mark, held, rest, equity, floor, seen, opened, ways>>
  BY DEF TraderMovesStop
<1>2. to \in Nat
  BY RuleLinesAssumption
<1>3. LinesForms'
  BY <1>1, <1>2, LinesFacts DEF LinesForms, OrdersForm
<1>4. StopsHold'
  <2> SUFFICES ASSUME NEW u \in Sides, ways = {u}
               PROVE  /\ OneWay(u, held, mark, rest)
                      /\ stands'[Other(u)] = 0
                      /\ stands'[u] # 0 => /\ Dir(u) * (mark - stands'[u]) >= 0
                                           /\ Alive => Runs(u, held, mark, rest, stands'[u]) <= equity - seen
    BY <1>1 DEF StopsHold, Alive
  <2>1. /\ OneWay(u, held, mark, rest) /\ stands[Other(u)] = 0
        /\ stands[u] # 0 => /\ Dir(u) * (mark - stands[u]) >= 0
                            /\ Alive => Runs(u, held, mark, rest, stands[u]) <= equity - seen
    BY DEF LinesInv, StopsHold
  <2>2. side = u /\ Dir(u) * held >= 0
    BY <1>1, <2>1, LinesFacts, HeldIsTheWay DEF OneWay
  <2>3. stands'[u] = to /\ stands'[Other(u)] = 0 /\ stands[u] \in Int
    BY <1>1, <2>1, <2>2, LinesFacts, Others
  <2>4. Dir(u) * (mark - to) <= Dir(u) * (mark - stands[u]) /\ Dir(u) * (mark - to) >= 0
    <3>1. CASE u = "long"
      BY <1>1, <1>2, <2>2, <2>3, <3>1, LinesFacts, Ways DEF Tighter
    <3>2. CASE u = "short"
      BY <1>1, <1>2, <2>2, <2>3, <3>2, LinesFacts, Ways DEF Tighter
    <3> QED BY <3>1, <3>2 DEF Sides
  <2>5. Runs(u, held, mark, rest, to) <= Runs(u, held, mark, rest, stands[u])
    BY <1>2, <2>2, <2>3, <2>4, LinesFacts, NearerRuns
  <2>6. /\ Runs(u, held, mark, rest, to) \in Int /\ Runs(u, held, mark, rest, stands[u]) \in Int
    <3>1. Dir(u) * (mark - stands[u]) \in Int /\ Dir(u) * (mark - to) \in Int
      BY <1>2, <2>3, LinesFacts, Ways
    <3>2. Sum(Losses(u, to, rest), rest) \in Int /\ Sum(Losses(u, stands[u], rest), rest) \in Int
      BY <1>2, <2>3, LinesFacts, LossesAre
    <3>3. Dir(u) * held \in Int
      BY LinesFacts, Ways
    <3> QED BY <3>1, <3>2, <3>3 DEF Runs
  <2>7. equity - seen \in Int
    BY LinesFacts
  <2> QED BY <1>1, <2>1, <2>2, <2>3, <2>4, <2>5, <2>6, <2>7
<1> QED BY <1>1, <1>3, <1>4 DEF LinesInv

LEMMA FiresStep ==
  ASSUME LinesInv, NEW side \in Sides, Fires(side)
  PROVE  LinesInv'
<1>1. /\ stands[side] # 0 /\ held' = (IF IsHeld(side) THEN 0 ELSE held) /\ stands' = [stands EXCEPT ![side] = 0]
      /\ UNCHANGED <<mark, rest, equity, floor, seen, opened, ways>>
  BY DEF Fires, Triggered
<1>2. LinesForms'
  BY <1>1, LinesFacts DEF LinesForms, OrdersForm
<1>3. StopsHold'
  <2> SUFFICES ASSUME NEW u \in Sides, ways = {u}
               PROVE  /\ OneWay(u, held', mark, rest)
                      /\ stands'[Other(u)] = 0 /\ stands'[u] = 0
    BY <1>1 DEF StopsHold
  <2>1. /\ OneWay(u, held, mark, rest) /\ stands[Other(u)] = 0
    BY DEF LinesInv, StopsHold
  <2>2. side = u
    BY <1>1, <2>1, Others
  <2>3. stands'[Other(u)] = 0 /\ stands'[u] = 0
    BY <1>1, <2>1, <2>2, LinesFacts, Others
  <2>4. Dir(u) * held' >= 0
    BY <1>1, <2>1, Ways DEF OneWay
  <2> QED BY <2>1, <2>3, <2>4 DEF OneWay
<1> QED BY <1>1, <1>2, <1>3 DEF LinesInv

LEMMA RisesStep ==
  ASSUME LinesInv, FloorRises
  PROVE  LinesInv'
<1>1. PICK f \in Floors : f > floor /\ f <= equity /\ floor' = f
  BY DEF FloorRises
<1>2. UNCHANGED <<mark, held, rest, stands, equity, seen, opened, ways>>
  BY DEF FloorRises
<1>3. f \in Nat
  BY FloorsAreNumbers
<1>4. LinesForms' /\ (seen <= floor)'
  BY <1>1, <1>2, <1>3, LinesFacts DEF LinesForms, OrdersForm
<1>5. Alive
  BY <1>1, <1>3, LinesFacts DEF Alive
<1>6. StopsHold'
  <2>1. StopsHold
    BY DEF LinesInv
  <2> QED BY <1>2, <1>5, <2>1 DEF StopsHold, OneWay, Runs, Losses, Loss
<1> QED BY <1>4, <1>6 DEF LinesInv

LEMMA PriceStep ==
  ASSUME LinesInv, PriceMoves
  PROVE  LinesInv'
<1>1. /\ Alive /\ (\A o \in rest : ~Reaches(o)) /\ (\A side \in Sides : ~Triggered(side))
      /\ UNCHANGED <<held, rest, stands, floor, seen, opened, ways>>
  BY DEF PriceMoves
<1>2. PICK to \in {mark - 1, mark + 1} \cap Marks : mark' = to /\ equity' = equity + held * (to - mark)
  BY DEF PriceMoves
<1>3. to \in Nat /\ (to = mark - 1 \/ to = mark + 1)
  BY RuleLinesAssumption
<1>4. held * (to - mark) \in Int
  BY <1>3, LinesFacts
<1>5. LinesForms' /\ (seen <= floor)'
  BY <1>1, <1>2, <1>3, <1>4, LinesFacts DEF LinesForms, OrdersForm
<1>6. StopsHold'
  <2> SUFFICES ASSUME NEW u \in Sides, ways = {u}
               PROVE  /\ OneWay(u, held, mark', rest)
                      /\ stands[Other(u)] = 0
                      /\ stands[u] # 0 => /\ Dir(u) * (mark' - stands[u]) >= 0
                                          /\ Runs(u, held, mark', rest, stands[u]) <= equity' - seen
    BY <1>1 DEF StopsHold
  <2>1. /\ OneWay(u, held, mark, rest) /\ stands[Other(u)] = 0
        /\ stands[u] # 0 => /\ Dir(u) * (mark - stands[u]) >= 0
                            /\ Runs(u, held, mark, rest, stands[u]) <= equity - seen
    BY <1>1 DEF LinesInv, StopsHold
  <2>2. ASSUME NEW o \in rest PROVE o.side = u /\ Dir(u) * (to - o.px) >= 0
    <3>1. o.side = u /\ Dir(u) * (mark - o.px) >= 0 /\ ~Reaches(o) /\ o.px \in Nat
      BY <1>1, <2>1, LinesFacts DEF OneWay, OrdersForm
    <3>2. CASE u = "long"
      <4>1. ~(mark <= o.px) /\ Dir(u) = 1
        BY <3>1, <3>2, Ways DEF Reaches
      <4> QED BY <1>3, <3>1, <4>1, LinesFacts
    <3>3. CASE u = "short"
      <4>1. o.side # "long" /\ Dir(u) = -1
        BY <3>1, <3>3, Ways
      <4>2. ~(mark >= o.px)
        BY <3>1, <4>1 DEF Reaches
      <4>3. (-1) * (to - o.px) >= 0
        BY <1>3, <3>1, <4>2, LinesFacts
      <4> QED BY <3>1, <4>1, <4>3
    <3> QED BY <3>2, <3>3 DEF Sides
  <2>3. OneWay(u, held, to, rest)
    BY <2>1, <2>2 DEF OneWay
  <2>4. ASSUME stands[u] # 0
        PROVE  /\ Dir(u) * (to - stands[u]) >= 0
               /\ Runs(u, held, to, rest, stands[u]) <= (equity + held * (to - mark)) - seen
    <3> DEFINE t == stands[u]
               k == Dir(u) * (mark - t)
               n == Dir(u) * (to - t)
               e == Dir(u) * held
               S == Sum(Losses(u, t, rest), rest)
    <3>1. t \in Int /\ k \in Int /\ n \in Int /\ e \in Int
      BY <1>3, LinesFacts, Ways
    <3>2. S \in Int
      BY <3>1, LinesFacts, LossesAre
    <3>3. n >= 0
      <4>1. ~Triggered(u) /\ t # 0
        BY <1>1, <2>4
      <4>2. CASE u = "long"
        <5>1. mark - 1 >= t /\ Dir(u) = 1
          BY <4>1, <4>2, Ways DEF Triggered, Tighter
        <5> QED BY <1>3, <3>1, <5>1, LinesFacts
      <4>3. CASE u = "short"
        <5>1. mark - (-1) <= t /\ Dir(u) = -1
          BY <4>1, <4>3, Ways DEF Triggered, Tighter
        <5>2. (-1) * (to - t) >= 0
          BY <1>3, <3>1, <5>1, LinesFacts
        <5> QED BY <5>1, <5>2
      <4> QED BY <4>2, <4>3 DEF Sides
    <3>4. e * (n - 1) = e * (k - 1) + held * (to - mark) /\ e * (k - 1) \in Int
      <4>1. CASE Dir(u) = 1 /\ to = mark + 1
        BY <3>1, <4>1, LinesFacts
      <4>2. CASE Dir(u) = 1 /\ to = mark - 1
        BY <3>1, <4>2, LinesFacts
      <4>3. CASE Dir(u) = -1 /\ to = mark + 1
        BY <3>1, <4>3, LinesFacts
      <4>4. CASE Dir(u) = -1 /\ to = mark - 1
        BY <3>1, <4>4, LinesFacts
      <4> QED BY <1>3, <4>1, <4>2, <4>3, <4>4, Ways
    <3>5. Runs(u, held, to, rest, t) = e * (n - 1) + S /\ Runs(u, held, mark, rest, t) = e * (k - 1) + S
      BY DEF Runs
    <3>6. Runs(u, held, mark, rest, t) <= equity - seen
      BY <2>1, <2>4
    <3> HIDE DEF t, k, n, e, S
    <3>7. Runs(u, held, to, rest, t) <= (equity + held * (to - mark)) - seen
      BY <1>4, <3>2, <3>4, <3>5, <3>6, LinesFacts
    <3> QED BY <3>3, <3>7 DEF t, n
  <2>5. OneWay(u, held, mark', rest)
    BY <1>2, <2>3
  <2>6. ASSUME stands[u] # 0
        PROVE  /\ Dir(u) * (mark' - stands[u]) >= 0
               /\ Runs(u, held, mark', rest, stands[u]) <= equity' - seen
    <3>1. /\ Dir(u) * (to - stands[u]) >= 0
          /\ Runs(u, held, to, rest, stands[u]) <= (equity + held * (to - mark)) - seen
      BY <2>4, <2>6
    <3> QED BY <1>2, <3>1
  <2> QED BY <2>1, <2>5, <2>6
<1> QED BY <1>5, <1>6 DEF LinesInv

LEMMA NextLinesInv == LinesInv /\ [LinesSteps]_linesVars => LinesInv'
<1> SUFFICES ASSUME LinesInv, [LinesSteps]_linesVars PROVE LinesInv'
  OBVIOUS
<1>1. CASE Sweep
  BY <1>1, SweepStep
<1>2. CASE PriceMoves
  BY <1>2, PriceStep
<1>3. CASE FloorRises
  BY <1>3, RisesStep
<1>4. CASE \E side \in ways, size \in OrderSizes, px \in Marks : Opens(side, size, px)
  BY <1>4, OpensStep
<1>5. ASSUME NEW o \in rest, TraderCancels(o) PROVE LinesInv'
  BY <1>5, CancelStep
<1>6. ASSUME NEW o \in rest, Fills(o) PROVE LinesInv'
  BY <1>6, FillsStep
<1>7. ASSUME NEW side \in Sides, TraderReduces(side) PROVE LinesInv'
  BY <1>7, ReducesStep
<1>8. ASSUME NEW side \in Sides, Fires(side) PROVE LinesInv'
  BY <1>8, FiresStep
<1>9. CASE \E side \in Sides, to \in Marks : TraderMovesStop(side, to)
  BY <1>9, MovesStopStep
<1>10. CASE UNCHANGED linesVars
  <2>1. UNCHANGED <<mark, held, rest, stands, equity, floor, seen, opened, ways>>
    BY <1>10 DEF linesVars
  <2>2. LinesForms' /\ (seen <= floor)'
    BY <2>1, LinesFacts DEF LinesForms, OrdersForm, LinesInv
  <2>3. StopsHold'
    BY <2>1 DEF LinesInv, StopsHold, Alive, OneWay, Runs, Losses, Loss
  <2> QED BY <2>2, <2>3 DEF LinesInv
<1> QED BY <1>1, <1>2, <1>3, <1>4, <1>5, <1>6, <1>7, <1>8, <1>9, <1>10 DEF LinesSteps

\* What the orders on the way to a stop lose at it.
LEMMA AtStopIs ==
  ASSUME NEW side, IsFiniteSet(OnTheWay(side)),
         NEW v, \A o \in OnTheWay(side) : v[o] = o.size * Dir(side) * (o.px - stands[side])
  PROVE  AtStop(side) = equity - Dir(side) * held * Dir(side) * (mark - stands[side]) - Sum(v, OnTheWay(side))
<1> DEFINE S == OnTheWay(side)
           c(s) == CHOOSE x \in s : TRUE
           loss(o) == o.size * Dir(side) * (o.px - stands[side])
           F(f) == f = [s \in SUBSET S |-> IF s = {} THEN 0 ELSE loss(c(s)) + f[s \ {c(s)}]]
           total == (CHOOSE f : F(f))[S]
<1>1. AtStop(side) = equity - Dir(side) * held * Dir(side) * (mark - stands[side]) - total
  BY DEF AtStop, MapThenSumSet, MapThenFoldSet
<1>2. \A f : SumFun(f, v, S) <=> F(f)
  <2>1. \A s \in SUBSET S : s # {} => v[c(s)] = loss(c(s))
    OBVIOUS
  <2> HIDE DEF S, loss
  <2> QED BY <2>1 DEF SumFun
<1>3. PICK g : SumFun(g, v, S)
  BY SumFunExists
<1> HIDE DEF F
<1>4. F(CHOOSE f : F(f))
  BY <1>2, <1>3
<1>5. SumFun(CHOOSE f : F(f), v, S)
  BY <1>2, <1>4
<1>6. Sum(v, S) = total
  <2> DEFINE h == CHOOSE f : F(f)
  <2>1. SumFun(h, v, S)
    BY <1>5
  <2> HIDE DEF h
  <2>2. Sum(v, S) = h[S]
    BY <2>1, SumIs
  <2> QED BY <2>2 DEF h
<1> QED BY <1>1, <1>6

LEMMA LinesInvSuffices == LinesInv => StopHoldsTheFloor
<1> SUFFICES ASSUME LinesInv, Alive, ways # Sides, NEW u \in Sides, IsHeld(u), stands[u] # 0
             PROVE  AtStop(u) >= seen - (Dir(u) * held + SumOf(OnTheWay(u)))
  BY DEF StopHoldsTheFloor
<1>1. PICK w \in Sides : ways = {w}
  BY DEF LinesInv, LinesForms, Sides
<1>2. OneWay(w, held, mark, rest)
  BY <1>1 DEF LinesInv, StopsHold
<1>3. w = u
  BY <1>2, LinesFacts, HeldIsTheWay DEF OneWay
<1>4. Runs(u, held, mark, rest, stands[u]) <= equity - seen
  BY <1>1, <1>3 DEF LinesInv, StopsHold
<1> DEFINE t == stands[u]
           W == OnTheWay(u)
           k == Dir(u) * (mark - t)
           e == Dir(u) * held
           v == [o \in W |-> o.size * Dir(u) * (o.px - t)]
           z == [o \in W |-> o.size]
           l == Losses(u, t, rest)
<1>5. t \in Int /\ k \in Int /\ e \in Int /\ equity \in Int /\ seen \in Int /\ held \in Int /\ mark \in Int
  BY LinesFacts, Ways
<1>6. IsFiniteSet(rest) /\ IsFiniteSet(W) /\ W \subseteq rest /\ rest \cap W = W
  <2>1. W \subseteq rest
    BY DEF OnTheWay, Of
  <2> QED BY <2>1, LinesFacts, FS_Subset DEF OrdersForm
<1>7. \A o \in W : /\ v[o] = z[o] + l[o] /\ v[o] \in Int /\ z[o] \in Int /\ l[o] \in Int
                   /\ z[o] = o.size /\ v[o] = o.size * Dir(u) * (o.px - t)
  <2> SUFFICES ASSUME NEW o \in W PROVE v[o] = z[o] + l[o] /\ v[o] \in Int /\ z[o] \in Int /\ l[o] \in Int
    OBVIOUS
  <2> DEFINE a == Dir(u) * (o.px - t)
  <2>1. o \in rest /\ o.size \in Nat /\ o.px \in Nat
    BY <1>6, LinesFacts DEF OrdersForm
  <2>2. a > 0 /\ a \in Int
    BY <1>5, <2>1, Ways DEF OnTheWay
  <2>3. l[o] = o.size * (a - 1)
    BY <2>1, <2>2 DEF Losses, Loss
  <2>4. v[o] = o.size * a
    <3>1. v[o] = o.size * Dir(u) * (o.px - t)
      OBVIOUS
    <3>2. CASE Dir(u) = 1
      BY <1>5, <2>1, <3>1, <3>2
    <3>3. CASE Dir(u) = -1
      BY <1>5, <2>1, <3>1, <3>3
    <3> QED BY <3>2, <3>3, Ways
  <2>5. z[o] = o.size
    OBVIOUS
  <2> HIDE DEF a, v, z, l
  <2>6. o.size * a = o.size + o.size * (a - 1) /\ o.size * (a - 1) \in Int
    BY <2>1, <2>2
  <2> QED BY <2>1, <2>3, <2>4, <2>5, <2>6
<1>8. \A o \in rest : l[o] \in Int /\ l[o] = IF o \in W THEN l[o] ELSE 0
  <2> SUFFICES ASSUME NEW o \in rest PROVE l[o] \in Int /\ (o \notin W => l[o] = 0)
    OBVIOUS
  <2>1. l[o] = Loss(u, t, o) /\ Loss(u, t, o) \in Nat
    BY <1>5, LinesFacts, LossesAre
  <2>2. o.side = u
    BY <1>2, <1>3 DEF OneWay
  <2>3. o \notin W => ~(Dir(u) * (o.px - t) > 0)
    BY <2>2 DEF OnTheWay, Of
  <2>4. o \notin W => Loss(u, t, o) = 0
    BY <2>3 DEF Loss
  <2> HIDE DEF l
  <2> QED BY <2>1, <2>4
<1>9. AtStop(u) = equity - Dir(u) * held * Dir(u) * (mark - t) - Sum(v, W)
  BY <1>6, <1>7, AtStopIs
<1>10. Dir(u) * held * Dir(u) * (mark - t) = e * k
  <2>1. CASE Dir(u) = 1
    BY <1>5, <2>1
  <2>2. CASE Dir(u) = -1
    BY <1>5, <2>2
  <2> QED BY <2>1, <2>2, Ways
<1>11. Runs(u, held, mark, rest, t) = e * (k - 1) + Sum(l, rest)
  BY DEF Runs
<1>12. Runs(u, held, mark, rest, t) <= equity - seen
  BY <1>4
<1> HIDE DEF t, k, e, v, z, l, W
<1>13. Sum(v, W) = Sum(z, W) + Sum(l, W) /\ Sum(z, W) \in Int /\ Sum(l, W) \in Int
  BY <1>6, <1>7, SumPlus, SumInt
<1>14. Sum(l, W) = Sum(l, rest)
  <2> DEFINE m == [o \in rest |-> IF o \in W THEN l[o] ELSE 0]
  <2>1. \A o \in rest : l[o] \in Int /\ m[o] = (IF o \in W THEN l[o] ELSE 0) /\ m[o] = l[o]
    BY <1>8
  <2> HIDE DEF m
  <2>2. Sum(l, rest \cap W) = Sum(m, rest)
    BY <1>6, <2>1, SumWhere
  <2>3. Sum(l, rest) = Sum(m, rest)
    BY <1>6, <2>1, SumSame
  <2> QED BY <1>6, <2>2, <2>3
<1>15. SumOf(W) = Sum(z, W)
  BY <1>6, <1>7, SumOfIs
<1>16. e * (k - 1) = e * k - e /\ e * k \in Int
  BY <1>5
<1>17. AtStop(u) = (equity - e * k) - Sum(v, W)
  BY <1>9, <1>10
<1>18. AtStop(u) >= seen - (e + SumOf(W))
  BY <1>5, <1>11, <1>12, <1>13, <1>14, <1>15, <1>16, <1>17
<1> QED BY <1>18 DEF e, W

LEMMA LinesNextKeepsRule ==
  ASSUME LinesInv, [LinesSteps]_linesVars, opened' # opened, NEW q \in Magnitudes(rest)'
  PROVE  \/ q * mark <= equity * Min({PoolLeverage, PerpLeverage})
         \/ \E p \in Magnitudes(rest) : q <= p
<1>1. PICK side \in ways, size \in OrderSizes, px \in Marks : Opens(side, size, px)
  BY DEF LinesSteps, Sweep, PriceMoves, FloorRises, TraderCancels, Fills, TraderReduces, Fires, TraderMovesStop, linesVars
<1> DEFINE resting == rest \cup {[id |-> opened, side |-> side, size |-> size, px |-> px]}
<1>2. WithinRules(resting) /\ rest' = resting /\ held' = held
  BY <1>1 DEF Opens
<1>3. OrdersForm(resting)
  <2>1. LinesInv'
    BY NextLinesInv
  <2>2. OrdersForm(rest)'
    BY <2>1 DEF LinesInv, LinesForms
  <2> HIDE DEF resting
  <2> QED BY <1>2, <2>2 DEF OrdersForm
<1> HIDE DEF resting
<1>4. q \in Magnitudes(resting)
  BY <1>2 DEF Magnitudes, Outcomes
<1> QED BY <1>2, <1>3, <1>4, LinesFacts, OpensKeepsTheRule

----------------------------------------------------------------------------
LEMMA GatewayRunsLines == GatewaySpec => LinesInit /\ [][LinesSteps]_linesVars
<1>1. GatewayInit => LinesInit
  BY DEF GatewayInit
<1>2. [GatewayNext]_gatewayState => [LinesSteps]_linesVars
  <2> SUFFICES ASSUME [GatewayNext]_gatewayState PROVE [LinesSteps]_linesVars
    OBVIOUS
  <2>1. CASE OnLines
    BY <2>1 DEF OnLines
  <2>2. CASE OnOrders \/ OnFaucet \/ OnContacts \/ ProcessEnds
    BY <2>2 DEF OnOrders, OnFaucet, OnContacts, ProcessEnds
  <2>3. CASE UNCHANGED gatewayState
    BY <2>3 DEF gatewayState
  <2> QED BY <2>1, <2>2, <2>3 DEF GatewayNext
<1> QED BY <1>1, <1>2, PTL DEF GatewaySpec

LEMMA LinesInvHolds == GatewaySpec => []LinesInv
BY InitLinesInv, NextLinesInv, GatewayRunsLines, PTL

\* StopHoldsTheFloor: of an account traded one way, a position run to its stop with every order on the way
\* filled leaves it at the rule line last read, but for a tick, whatever the prices, sizes and lines (lines,
\* reconcile).
THEOREM StopAlwaysHoldsTheFloor == GatewaySpec => []StopHoldsTheFloor
BY LinesInvHolds, LinesInvSuffices, PTL

\* NothingGrowsPastTheRule: whatever orders rest and however they fill, an order let in leaves no outcome past
\* the leverage rules that could not be before it (leverage_check, worst_size).
THEOREM NothingEverGrowsPastTheRule == GatewaySpec => NothingGrowsPastTheRule
<1>1. LinesInv /\ [LinesSteps]_linesVars
        => [opened' # opened =>
              \A q \in Magnitudes(rest)' :
                \/ q * mark <= equity * Min({PoolLeverage, PerpLeverage})
                \/ \E p \in Magnitudes(rest) : q <= p]_linesVars
  BY LinesNextKeepsRule
<1> QED BY <1>1, LinesInvHolds, GatewayRunsLines, PTL DEF NothingGrowsPastTheRule
===============================================================================
