---------------------------- MODULE OrderIntake ----------------------------
(***************************************************************************)
(* How a signed order travels: from whoever signed it, over a network that  *)
(* may lose it, through the gateway (src/gateway/server.py, checks.py) to   *)
(* Hyperliquid, whose answer comes back or does not.  One account, one key. *)
(*                                                                         *)
(* Requests are signed by the trader's desk (module Desk), which posts each *)
(* once, and by the trader's page, which may post the same signed request   *)
(* again and may use one nonce for two requests.  A delivery is a request    *)
(* and the number of the posting: each is a thread of the gateway's server.  *)
(*                                                                         *)
(* Time is counted in ticks, `now`.  A message that is never delivered stays *)
(* on the wire.  What the protector decides about an order is abstracted to  *)
(* its outcomes (Protection has the rest): it refuses, or it sends actions   *)
(* of the gateway's own and then lets the order go.                         *)
(***************************************************************************)
EXTENDS NonceBook, Naturals, Sequences, SequencesExt, FiniteSetsExt

CONSTANTS
  DeskAsks, PageAsks,       \* the requests each may sign
  What,                     \* what each asks for: market, side, price and size in one
  Expiry,                   \* the client signs for this long (45 s)
  MaxExpiry,                \* the gateway takes no request that lives longer (60 s)
  HandleTime,               \* bound: a request taken in is through this long after it expires
  MaxOwn,                   \* bound: actions of the gateway's own
  MaxRestarts,              \* bound: restarts of the gateway
  MaxTime,                  \* bound: the clock
  Scenes,                   \* bound: the sets of deliveries one behaviour may make
  None                      \* no value

Requests == DeskAsks \cup PageAsks

ASSUME IntakeAssumption ==
  /\ DeskAsks \cap PageAsks = {}
  /\ {Expiry, MaxExpiry, HandleTime, MaxOwn, MaxRestarts, MaxTime} \subseteq Nat
  /\ 0 < Expiry /\ Expiry <= MaxExpiry
  /\ DOMAIN What = Requests
  /\ None \notin Nat \cup [nonce : Nat, expires : Nat, at : Nat]

VARIABLES
  now,
  asked,     \* each request, once signed: its nonce, its expiry, when it was signed
  thread,    \* each delivery: where it is and what came of it
  listens,   \* deliveries whose sender still waits for the answer
  nonces,    \* the gateway's NonceBook
  ownNonce,  \* _own_nonce
  holder,    \* the delivery that holds the account's lock
  sent,      \* deliveries submitted in this life of the gateway
  flight,    \* submits on their way to Hyperliquid
  used,      \* Hyperliquid: nonces used, whether by an own action, and for which delivery
  orders,    \* Hyperliquid: the account's orders, oldest first
  restarts, owns

gatewayVars == <<nonces, ownNonce, holder, sent>>
venueVars == <<flight, used, orders>>
boundVars == <<restarts, owns>>
wireVars == <<asked, thread, listens>>
intakeVars == <<now, asked, thread, listens, nonces, ownNonce, holder, sent, flight, used, orders, restarts, owns>>

Deliveries == (DeskAsks \X {1}) \cup (PageAsks \X {1, 2})
Ask(d) == asked[d[1]]
InGateway(d) == thread[d].at \in {"claimed", "held", "submitted"}
UsedNonces == {u.nonce : u \in used}

IntakeInit ==
  /\ now = 1
  /\ asked = [r \in Requests |-> None]
  /\ \E scene \in Scenes :
       thread = [d \in Deliveries |-> [at |-> IF d \in scene THEN "unsent" ELSE "never", answer |-> "none"]]
  /\ listens = {}
  /\ nonces = EmptyNonceBook /\ ownNonce = 0 /\ holder = None /\ sent = {}
  /\ flight = {} /\ used = {} /\ orders = <<>>
  /\ restarts = 0 /\ owns = 0

----------------------------------------------------------------------------
(* The senders. *)

Sign(r, nonce, expires) ==
  /\ asked[r] = None /\ thread[<<r, 1>>].at = "unsent"
  /\ asked' = [asked EXCEPT ![r] = [nonce |-> nonce, expires |-> expires, at |-> now]]
  /\ thread' = [thread EXCEPT ![<<r, 1>>].at = "wire"]

PageSigns ==
  \E r \in PageAsks :
    /\ Sign(r, now, now + MaxExpiry)
    /\ UNCHANGED <<now, listens, gatewayVars, venueVars, boundVars>>

PagePostsAgain ==
  \E r \in PageAsks :
    /\ asked[r] # None /\ thread[<<r, 2>>].at = "unsent"
    /\ thread' = [thread EXCEPT ![<<r, 2>>].at = "wire"]
    /\ UNCHANGED <<now, asked, listens, gatewayVars, venueVars, boundVars>>

----------------------------------------------------------------------------
(* The gateway.  Answers: "not_sent" is any answer that carries sent: false. *)

Answer(d, answer) == [at |-> "answered", answer |-> IF d \in listens THEN answer ELSE "none"]
Answered(d, answer) == thread' = [thread EXCEPT ![d] = Answer(d, answer)]

Fresh(d) == now < Ask(d).expires /\ Ask(d).expires <= now + MaxExpiry

\* check: an expiry out of range, a bad signature, an account that is not the signer's or does
\* not trade, an asset off the list, a read of the chain that failed or was throttled.
RefuseUnclaimed(d) ==
  /\ thread[d].at = "wire"
  /\ Answered(d, "not_sent")
  /\ UNCHANGED <<now, asked, listens, gatewayVars, venueVars, boundVars>>

\* The last of check: the nonce is claimed.  A full book is a refusal like any other; a nonce
\* already taken is answered without sent: false.
Claim(d) ==
  LET book == Pruned(nonces, now) IN
  /\ thread[d].at = "wire" /\ Fresh(d)
  /\ IF Taken(book, Ask(d).nonce) THEN /\ nonces' = book
                                       /\ Answered(d, "replayed")
     ELSE IF Full(book) THEN /\ nonces' = book
                             /\ Answered(d, "not_sent")
     ELSE /\ nonces' = Recorded(book, Ask(d).nonce, Ask(d).expires)
          /\ thread' = [thread EXCEPT ![d].at = "claimed"]
  /\ UNCHANGED <<now, asked, listens, ownNonce, holder, sent, venueVars, boundVars>>

\* One request at a time per account.  The lock is taken with the first step under it that anyone
\* else can see.
Holds(d) ==
  \/ thread[d].at = "claimed" /\ holder = None
  \/ thread[d].at = "held"

\* Fault: a request in hand is not thought of.
NextNonceAlone(avoid) == Max({now, ownNonce + 1})
NextNonce(avoid) ==
  LET nonce == Max({now, ownNonce + 1}) IN IF nonce = avoid THEN nonce + 1 ELSE nonce

\* Everything before the submit that fails: the agent is gone, a rule refuses the order, the stop
\* or the take cannot be placed, the signer refuses or signs with another key.
RefuseHeld(d) ==
  /\ Holds(d)
  /\ nonces' = Released(nonces, Ask(d).nonce)
  /\ holder' = None
  /\ Answered(d, "not_sent")
  /\ UNCHANGED <<now, asked, listens, ownNonce, sent, venueVars, boundVars>>

\* _act for the stop or the take of an order that opens.  Hyperliquid refuses a nonce used before,
\* or may refuse or miss the action for its own reasons; then the request goes no further.
ActFor(d) ==
  LET nonce == NextNonce(Ask(d).nonce) IN
  /\ Holds(d) /\ owns < MaxOwn
  /\ ownNonce' = nonce /\ owns' = owns + 1
  /\ \/ /\ nonce \notin UsedNonces     \* placed
        /\ used' = used \cup {[nonce |-> nonce, own |-> TRUE, by |-> d]}
        /\ holder' = d /\ thread' = [thread EXCEPT ![d].at = "held"]
        /\ UNCHANGED nonces
     \/ /\ used' \in {used, used \cup {[nonce |-> nonce, own |-> TRUE, by |-> d]}}
        /\ nonces' = Released(nonces, Ask(d).nonce)
        /\ holder' = None
        /\ Answered(d, "not_sent")
  /\ UNCHANGED <<now, asked, listens, sent, flight, orders, restarts>>

\* From here the nonce stays spent.
Submit(d) ==
  /\ Holds(d) /\ holder' = d
  /\ thread' = [thread EXCEPT ![d].at = "submitted"]
  /\ sent' = sent \cup {d} /\ flight' = flight \cup {d}
  /\ UNCHANGED <<now, asked, listens, nonces, ownNonce, used, orders, boundVars>>

\* Hyperliquid takes the action, or refuses it; an order it takes rests or fills.
Land(d) ==
  /\ d \in flight
  /\ flight' = flight \ {d}
  /\ \E taken \in BOOLEAN :
       /\ taken => Ask(d).nonce \notin UsedNonces
       /\ used' = used \cup {[nonce |-> Ask(d).nonce, own |-> FALSE, by |-> d]}
       /\ orders' = IF taken THEN Append(orders, [ask |-> d[1], stamp |-> now]) ELSE orders
       /\ thread' = IF thread[d].at = "submitted"
                    THEN [thread EXCEPT ![d].answer = IF taken THEN "submitted" ELSE "refused"]
                    ELSE thread
  /\ UNCHANGED <<now, asked, listens, gatewayVars, boundVars>>

\* The venue's answer, passed on; or the call failed, or answered nothing that confirms: the order
\* may or may not have reached Hyperliquid, and that is what the client is told.
AnswerSubmitted(d) ==
  /\ thread[d].at = "submitted"
  /\ holder' = None
  /\ \/ thread[d].answer # "none" /\ Answered(d, thread[d].answer)
     \/ Answered(d, "unclear")
  /\ UNCHANGED <<now, asked, listens, nonces, ownNonce, sent, venueVars, boundVars>>

Lost(d) == d \in flight /\ flight' = flight \ {d}
           /\ UNCHANGED <<now, asked, listens, thread, gatewayVars, used, orders, boundVars>>

\* The process ends and starts: its memory is gone, every request in it is broken off.
Restart ==
  /\ restarts < MaxRestarts /\ restarts' = restarts + 1
  /\ nonces' = EmptyNonceBook /\ ownNonce' = 0 /\ holder' = None /\ sent' = {}
  /\ thread' = [d \in Deliveries |->
                  IF InGateway(d) THEN Answer(d, "unclear") ELSE thread[d]]
  /\ UNCHANGED <<now, asked, listens, venueVars, owns>>

\* Time passes no request the gateway has in hand by more than HandleTime.
IntakeTick ==
  /\ now < MaxTime
  /\ \A d \in Deliveries : (InGateway(d) \/ d \in flight) => now < Ask(d).expires + HandleTime
  /\ now' = now + 1
  /\ UNCHANGED <<wireVars, gatewayVars, venueVars, boundVars>>

IntakeSteps ==
  \/ PageSigns \/ PagePostsAgain
  \/ \E d \in Deliveries : RefuseUnclaimed(d) \/ Claim(d) \/ RefuseHeld(d)
                             \/ ActFor(d) \/ Submit(d) \/ Land(d) \/ Lost(d) \/ AnswerSubmitted(d)
  \/ IntakeTick

----------------------------------------------------------------------------
(* A signed request is submitted at most once in a life of the gateway,     *)
(* however often it is posted and whatever else uses its nonce: the book     *)
(* keeps a pair until the request that took it has expired, through          *)
(* releases, claims after a release, and entries that fall due late.         *)
SubmittedOnce ==
  \A d, e \in sent : d[1] = e[1] /\ d # e =>
    \E r \in Requests \ {d[1]} : asked[r] # None /\ asked[r].nonce = Ask(d).nonce

(* An action of the gateway's own never takes the nonce of the request it is *)
(* sent for: Hyperliquid would refuse the order after its stop was placed.    *)
OwnNonceApart == \A u \in used : u.own => u.nonce # Ask(u.by).nonce
=============================================================================
