------------------------------- MODULE Desk --------------------------------
(***************************************************************************)
(* The trader's desk (src/agents/desk.py, client.py): one command at a time, *)
(* each a process of its own that reads the day's counters from a file,      *)
(* settles the doubts of earlier commands from Hyperliquid's order history,  *)
(* places an order and writes the counters back when it ends.  An attempt    *)
(* is charged before it is posted; the answer, or what the history says      *)
(* later, may give it back.                                                 *)
(*                                                                         *)
(* Hyperliquid's clock may be behind the desk's, and the history it returns  *)
(* holds the newest orders only, in no stated order.                        *)
(***************************************************************************)
EXTENDS OrderIntake

CONSTANTS
  MaxOrders,      \* WINDOW_MAX_ORDERS_PER_DAY
  SettleAfter,    \* SETTLE_AFTER_S
  Skew,           \* the clock skew a match allows for
  HistoryLimit,   \* HISTORY_LIMIT
  MaxKills        \* bound: commands killed before they could save

\* The day's counters: orders left, doubts, oids accounted for.
Counters == [left : Nat, doubts : SUBSET [what : Range(What), at : Nat], known : SUBSET Nat]

ASSUME DeskAssumption ==
  /\ {MaxOrders, SettleAfter, Skew, HistoryLimit, MaxKills} \subseteq Nat
  /\ None \notin [book : Counters, ask : DeskAsks]

VARIABLES
  file,     \* what the session file holds
  desk,     \* the command that waits for an answer, or None: its counters and its request
  behind,   \* how far Hyperliquid's clock is behind
  kills

deskVars == <<file, desk, behind, kills>>
vars == <<intakeVars, file, desk, behind, kills>>

Init ==
  /\ IntakeInit
  /\ file = [left |-> MaxOrders, doubts |-> {}, known |-> {}]
  /\ desk = None
  /\ behind \in 0..Skew /\ kills = 0

----------------------------------------------------------------------------
(* settle_doubts. *)

\* historicalOrders: an order's oid is its place among the orders.
History == {i \in DOMAIN orders : Len(orders) - i < HistoryLimit}
Stamp(oid) == orders[oid].stamp - behind
CompleteFrom ==
  IF Cardinality(History) >= HistoryLimit THEN Min({Stamp(i) : i \in History} \cup {MaxTime}) ELSE 0

\* Fault: an answer that is not there yet is taken for none.
DueAtOnce(book) == {d \in book.doubts : d.at - Skew >= CompleteFrom}
Due(book) == {d \in book.doubts : now - d.at >= SettleAfter /\ d.at - Skew >= CompleteFrom}

SameOrder(oid, d) == What[orders[oid].ask] = d.what /\ Stamp(oid) >= d.at - Skew

\* Each doubt in turn, the oldest first, takes an order of the history that is like it and that
\* no attempt has been accounted for by, if there is one.
Settlements(book) ==
  {f \in [Due(book) -> History \cup {None}] :
     \A d \in Due(book) :
       LET free == {i \in History : SameOrder(i, d)} \ (book.known \cup {f[e] : e \in {e \in Due(book) : e.at < d.at}})
       IN IF free = {} THEN f[d] = None ELSE f[d] \in free}

\* One that found none is given back.
Settled(book, f) ==
  [left   |-> book.left + Cardinality({d \in DOMAIN f : f[d] = None}),
   doubts |-> book.doubts \ DOMAIN f,
   known  |-> book.known \cup (Range(f) \ {None})]

\* A command begins: load_counters, settle_doubts, and the file saved if anything was settled.
\* A command that then posts something is this step and Post after it; a history that cannot be
\* read settles nothing.
Settle ==
  /\ desk = None /\ Due(file) # {}
  /\ \E f \in Settlements(file) : file' = Settled(file, f)
  /\ UNCHANGED <<intakeVars, desk, behind, kills>>

----------------------------------------------------------------------------
(* place_order. *)

\* What follows an attempt: the doubt kept, or the attempt given back, or the oid noted.
WithDoubt(book, r) == [book EXCEPT !.doubts = @ \cup {[what |-> What[r], at |-> asked[r].at]}]
GivenBack(book) == [book EXCEPT !.left = @ + 1]

Charged(book) == [book EXCEPT !.left = @ - 1]

\* A new process has no nonce of its own yet, so it signs with its clock; two commands never sign
\* in the same millisecond.
Post(r) ==
  /\ desk = None /\ file.left > 0
  /\ \A q \in DeskAsks : asked[q] # None => asked[q].at < now
  /\ Sign(r, now, now + Expiry)
  /\ listens' = {<<r, 1>>}
  /\ desk' = [book |-> Charged(file), ask |-> r]
  /\ UNCHANGED <<now, gatewayVars, venueVars, boundVars, file, behind, kills>>

\* The counters are saved whatever came of the command.
End(book) ==
  /\ file' = book /\ desk' = None /\ listens' = {}
  /\ thread' = [thread EXCEPT ![<<desk.ask, 1>>].answer =
                  IF thread[<<desk.ask, 1>>].at = "answered" THEN "none" ELSE @]
  /\ UNCHANGED <<now, asked, gatewayVars, venueVars, boundVars, behind, kills>>

AfterAnswer(answer, r, book) ==
  CASE answer = "not_sent"  -> GivenBack(book)
    [] answer = "submitted" ->
         [book EXCEPT !.known = @ \cup {i \in DOMAIN orders : orders[i].ask = r}]
    [] answer = "refused"   -> book
    [] answer \in {"replayed", "unclear"} -> WithDoubt(book, r)

HearAnswer ==
  /\ desk # None
  /\ LET t == thread[<<desk.ask, 1>>] IN
     t.at = "answered" /\ End(AfterAnswer(t.answer, desk.ask, desk.book))

\* The connection broke, the wait ran out, or a page that is not the gateway's came back.
HearNothing ==
  /\ desk # None
  /\ End(WithDoubt(desk.book, desk.ask))

\* The process is killed before it saves.
Kill ==
  /\ desk # None
  /\ kills < MaxKills /\ kills' = kills + 1
  /\ desk' = None /\ listens' = {}
  /\ UNCHANGED <<now, asked, thread, gatewayVars, venueVars, boundVars, file, behind>>

DeskNext == Settle \/ (\E r \in DeskAsks : Post(r)) \/ HearAnswer \/ HearNothing \/ Kill

Steps == DeskNext \/ (IntakeSteps /\ UNCHANGED deskVars)

\* The gateway's process ends; the desk's command goes on waiting for its answer.
Next == Steps \/ (Restart /\ UNCHANGED deskVars)

Spec == Init /\ [][Next]_vars

----------------------------------------------------------------------------
(* The budget. *)

OrdersLeft == IF desk = None THEN file.left ELSE desk.book.left

\* Requests of the desk that may still reach Hyperliquid.
MayStillGo ==
  {r \in DeskAsks : LET d == <<r, 1>> IN
     \/ thread[d].at = "wire" /\ now < asked[r].expires
     \/ thread[d].at \in {"claimed", "held"}
     \/ d \in flight}
OnHyperliquid == {orders[i].ask : i \in DOMAIN orders} \cap DeskAsks

Budget == INSTANCE OrderBudget WITH
  Attempts <- DeskAsks, charged <- MaxOrders - OrdersLeft + kills,
  open <- MayStillGo, placed <- OnHyperliquid

(* The desk keeps its budget: every step of the desk, the gateway, the        *)
(* network and Hyperliquid is one that OrderBudget allows, so a lost answer,   *)
(* a restart, a retry or a late order gives nothing back that still counts.    *)
(* A command killed before it saves loses its own charge and no other.         *)
BudgetKept == Budget!Spec
=============================================================================
