----------------------------- MODULE Protection ----------------------------
(***************************************************************************)
(* The stop and the take the gateway keeps on Hyperliquid for an account     *)
(* (src/gateway/protect.py, the reads of hl.py): placed before an order that  *)
(* may open a position is submitted, and looked after by a sweep, over an     *)
(* account that changes between any two requests.  One account, one key, one  *)
(* asset, one direction; the account's lock makes the gateway's passes and    *)
(* requests take turns, and `work` is the one that has it.                   *)
(*                                                                         *)
(* A stop and a take are each a distance from the mark the position was       *)
(* opened at, 0 for none; smaller is nearer.  `room` is how far the drawdown   *)
(* floor lets the stop stand, `goal` how far the target is; the day's floor,   *)
(* where it is the nearer one, puts the stop at 1.  RuleLines has the          *)
(* arithmetic behind them.                                                   *)
(***************************************************************************)
EXTENDS Naturals, Sequences, FiniteSets, FiniteSetsExt, SequencesExt

CONSTANTS
  Distances,     \* where a stop or a take may stand
  Challenge,     \* a challenge; else a funded stage
  WeekendFlat,   \* the asset is a HIP-3 perp and its pool is flat over the weekend
  CloseAfter,    \* refused passes in a row after which a position with no stop is closed
  MaxOpens,      \* bound: orders that may open
  MaxEvents,     \* bound: things that go wrong or change outside
  None

ASSUME ProtectionAssumption ==
  /\ Distances \subseteq Nat \ {0} /\ Distances # {} /\ 1 \in Distances
  /\ {Challenge, WeekendFlat} \subseteq BOOLEAN
  /\ {CloseAfter, MaxOpens, MaxEvents} \subseteq Nat

VARIABLES
  pos, rest, stop, take,   \* Hyperliquid: the position, the orders resting that open, stop and take
  halted,                  \* the asset's market takes no order
  room, goal,              \* where the account's equity puts the lines
  today, snap,             \* the day; the contract's daily snapshot: its day, whether its floor is the nearer
  trades, known,           \* the key trades the account; Hyperliquid knows it as its agent
  friday,                  \* the hour before the Friday close
  work,                    \* what holds the account's lock
  watched, pending,        \* _watch, _pending
  flat, stray,             \* _flat, _stray_seen
  kept,                    \* the venue client's kept list of orders, None or the list
  run,                     \* _refused: refused passes in a row
  gone,                    \* _agent_gone
  limits,                  \* _limits: None or the snapshot, and whether it was read this minute
  asked,                   \* _trader_takes
  after,                   \* a read after an entry is scheduled
  opens, events

venueVars == <<pos, rest, stop, take>>
worldVars == <<halted, room, goal, today, snap, trades, known, friday>>
memory == <<watched, pending, flat, stray, kept, run, gone, limits, asked, after>>
vars == <<venueVars, worldVars, memory, work, opens, events>>

Idle == [at |-> "idle"]
Happens == events < MaxEvents /\ events' = events + 1

FreshMemory ==
  /\ flat = FALSE /\ stray = FALSE /\ kept = None
  /\ run = 0 /\ gone = FALSE /\ limits = None /\ asked = {} /\ after = FALSE

Init ==
  /\ pos = 0 /\ rest = 0 /\ stop = 0 /\ take = 0
  /\ halted = FALSE /\ room = Max(Distances) /\ goal = Max(Distances)
  /\ today = 0 /\ snap \in [day : {0}, near : BOOLEAN]
  /\ trades = TRUE /\ known = TRUE /\ friday = FALSE
  /\ work = Idle
  /\ watched = FALSE /\ pending = FALSE /\ FreshMemory
  /\ opens = 0 /\ events = 0

----------------------------------------------------------------------------
(* The lines, and what reconcile sends. *)

LineOf(near, r) == IF near THEN 1 ELSE r

\* limits: read whole once, then the snapshot again, at most once a minute, while it is not today's.
\* Fault: the snapshot read first is good for ever.
ReadOnce == IF limits = None THEN [day |-> snap.day, near |-> snap.near, fresh |-> TRUE] ELSE limits
LimitsRead ==
  IF limits # None /\ (limits.day >= today \/ limits.fresh) THEN limits
  ELSE [day |-> snap.day, near |-> snap.near, fresh |-> TRUE]

\* _follows, with one asset: nothing rests that would grow the position.
Follows(book) == Challenge /\ book.rest = 0

KeepsStop(book, line) == IF book.pos > 0 THEN book.stop <= line ELSE book.stop = line
KeepsTake(book, follow) ==
  IF book.pos = 0 THEN book.take = book.goal
  ELSE \/ ~Challenge
       \/ IF follow /\ book.take \notin asked THEN book.take = book.goal ELSE book.take <= book.goal

\* The actions in the order they go: one that places what is missing, then the moves.
Reconciled(book, line, follow) ==
  LET place == [do |-> "place", stop |-> IF book.stop = 0 THEN line ELSE 0,
                                take |-> IF book.take = 0 THEN book.goal ELSE 0]
  IN (IF place.stop = 0 /\ place.take = 0 THEN <<>> ELSE <<place>>)
     \o (IF book.stop = 0 \/ KeepsStop(book, line) THEN <<>> ELSE <<[do |-> "moveStop", to |-> line]>>)
     \o (IF book.take = 0 \/ KeepsTake(book, follow) THEN <<>> ELSE <<[do |-> "moveTake", to |-> book.goal]>>)

\* _forget_takes, by the report: the take placed or moved is the gateway's again.
TakesLeft(actions) ==
  IF \E i \in DOMAIN actions : actions[i].do = "moveTake" \/ (actions[i].do = "place" /\ actions[i].take # 0)
  THEN {} ELSE asked

Naked(book) == book.pos > 0 /\ book.stop = 0
Stray(book) == book.pos + book.rest = 0 /\ (book.stop # 0 \/ book.take # 0)

----------------------------------------------------------------------------
(* A read of the account: the positions first, then the orders. *)

ReadPositions(for, reuse) ==
  /\ work = Idle
  /\ work' = [at |-> "reading", for |-> for, pos |-> pos, room |-> room, goal |-> goal, run |-> run,
              list |-> IF reuse /\ pos = 0 THEN kept ELSE None]
  /\ UNCHANGED <<venueVars, worldVars>>

\* A kept list is no older than a minute, or it is read again.
Books ==
  LET whole(list) == [pos |-> work.pos, room |-> work.room, goal |-> work.goal,
                      rest |-> list.rest, stop |-> list.stop, take |-> list.take]
  IN {whole([rest |-> rest, stop |-> stop, take |-> take])} \cup (IF work.list = None THEN {} ELSE {whole(work.list)})

\* A list is kept for an account whose positions, read just before it, are none.
KeptAfter(book) ==
  IF book.pos = 0 THEN [rest |-> book.rest, stop |-> book.stop, take |-> book.take] ELSE None

\* A read fails: nothing read is kept, and the pass or the request is over.
ReadFails ==
  /\ work.at = "reading" /\ Happens
  /\ kept' = None /\ work' = Idle
  /\ UNCHANGED <<venueVars, worldVars, watched, pending, flat, stray, run, gone, limits, asked, after, opens>>

----------------------------------------------------------------------------
(* The sweep. *)

\* One pass, full or of the hot accounts; a refusal in the pass before is in a row with this one's.
SweepStarts ==
  /\ watched /\ ~gone
  /\ ReadPositions("pass", TRUE)
  /\ run' = 0
  /\ UNCHANGED <<watched, pending, flat, stray, kept, gone, limits, asked, after, opens, events>>

AfterEntry ==
  /\ after /\ after' = FALSE
  /\ IF gone THEN UNCHANGED <<work, venueVars, worldVars>> ELSE ReadPositions("after", FALSE)
  /\ UNCHANGED <<watched, pending, flat, stray, kept, run, gone, limits, asked, opens, events>>

\* What goes before anything else in the Friday hour, and whatever comes of it goes on.
\* Fault: the positions are closed and the orders that may open left.
Closes(book) == IF book.pos > 0 THEN <<[do |-> "close"]>> ELSE <<>>
FridayClosesOnly(book) == IF WeekendFlat /\ friday /\ trades THEN Closes(book) ELSE <<>>
Friday(book) ==
  IF WeekendFlat /\ friday /\ trades
  THEN [i \in 1..book.rest |-> [do |-> "cancelOrder"]] \o Closes(book)
  ELSE <<>>

\* Fault: one answer is enough.
StrayAtOnce(book) == Stray(book)
StrayAgain(book) == Stray(book) /\ stray
Cancels(book) ==
  (IF book.stop # 0 THEN <<[do |-> "cancelStop"]>> ELSE <<>>) \o (IF book.take # 0 THEN <<[do |-> "cancelTake"]>> ELSE <<>>)

Unwatched == watched' = FALSE /\ stray' = FALSE /\ run' = 0

Sends(book, what, actions, line) ==
  work' = [at |-> "sending", for |-> work.for, what |-> what, book |-> book, todo |-> actions, sent |-> actions,
           run |-> work.run, line |-> line]

\* _flat_again, and the account let go at the second answer in a row that shows nothing open.
\* Fault: at the first.
FlatAtOnce == TRUE
FlatAgain == flat
LetGo(stands) ==
  /\ flat' = ~FlatAgain
  /\ IF FlatAgain /\ ~stands THEN Unwatched /\ asked' = {}
     ELSE UNCHANGED <<watched, run, asked>>

\* The pass from the book on: what it concludes, or what it sends.
Sweeps ==
  /\ work.at = "reading" /\ work.for \in {"pass", "after"}
  /\ \E book \in Books :
       LET first == Friday(book)
           lim == LimitsRead
           line == LineOf(lim.near, book.room)
           plan == Reconciled(book, line, Follows(book))
           nothing == book.pos + book.rest = 0
       IN /\ kept' = KeptAfter(book)
          /\ \/ /\ nothing /\ StrayAgain(book) /\ ~trades
                /\ Unwatched /\ work' = Idle /\ UNCHANGED <<flat, asked, limits>>
             \/ /\ nothing /\ StrayAgain(book) /\ trades
                /\ Sends(book, "clear", Cancels(book), line)
                /\ stray' = TRUE
                /\ UNCHANGED <<flat, watched, run, asked, limits>>
             \/ /\ nothing /\ ~StrayAgain(book)
                /\ work' = Idle /\ LetGo(Stray(book))
                /\ (watched' => stray' = Stray(book)) /\ (~watched' => stray' = FALSE)
                /\ UNCHANGED limits
             \/ /\ ~nothing
                /\ flat' = FALSE /\ limits' = lim
                /\ IF plan # <<>> /\ ~trades THEN Unwatched /\ work' = Idle
                   ELSE /\ stray' = FALSE
                        /\ IF first \o plan = <<>> THEN work' = Idle
                           ELSE Sends(book, "plan", first \o plan, line)
                        /\ UNCHANGED <<watched, run>>
                /\ UNCHANGED asked
  /\ UNCHANGED <<venueVars, worldVars, pending, gone, after, opens, events>>

----------------------------------------------------------------------------
(* A request of the trader's that may open a position. *)

OpenStarts ==
  /\ trades /\ ~gone /\ opens < MaxOpens /\ opens' = opens + 1
  /\ ReadPositions("open", FALSE)
  /\ UNCHANGED <<memory, events>>

\* before_signing, the signer, the market's hours and the lines may refuse it.
OpenRefused ==
  /\ work.at = "reading" /\ work.for = "open"
  /\ work' = Idle /\ kept' = None
  /\ UNCHANGED <<venueVars, worldVars, watched, pending, flat, stray, run, gone, limits, asked, after, opens, events>>

OpenPlans ==
  /\ work.at = "reading" /\ work.for = "open" /\ ~(WeekendFlat /\ friday)
  /\ LET book == CHOOSE b \in Books : TRUE
         lim == LimitsRead
         line == LineOf(lim.near, book.room)
     IN /\ Sends(book, "open", Reconciled(book, line, FALSE), line)
        /\ limits' = lim /\ kept' = KeptAfter(book)
  /\ UNCHANGED <<venueVars, worldVars, watched, pending, flat, stray, run, gone, asked, after, opens, events>>

Watch ==
  /\ watched' = TRUE /\ kept' = None
  /\ flat' = FALSE /\ stray' = FALSE

\* The order itself, on the book before the lock is let go, or refused or lost.
OpenSubmits ==
  /\ work.at = "submitting" /\ work' = Idle
  /\ rest' \in IF known /\ ~halted THEN {rest, rest + 1} ELSE {rest}
  /\ after' \in {after, TRUE}
  /\ rest' # rest => after'
  /\ kept' = None
  /\ UNCHANGED <<pos, stop, take, worldVars, watched, pending, flat, stray, run, gone, limits, asked, opens, events>>

----------------------------------------------------------------------------
(* What the gateway sends, one action after another. *)

Nearer(d, e) == IF d = 0 THEN e ELSE IF e = 0 THEN d ELSE Min({d, e})

\* Hyperliquid takes every order of an asset's off with its position.
PositionGone == pos' = 0 /\ stop' = 0 /\ take' = 0 /\ UNCHANGED rest

CanLand(a) ==
  /\ known /\ ~halted
  /\ CASE a.do = "place" -> TRUE
       [] a.do \in {"moveStop", "cancelStop"} -> stop # 0
       [] a.do \in {"moveTake", "cancelTake"} -> take # 0
       [] a.do = "cancelOrder" -> rest > 0
       [] a.do = "close" -> pos > 0

Lands(a) ==
  \/ a.do = "place"       /\ stop' = Nearer(stop, a.stop) /\ take' = Nearer(take, a.take) /\ UNCHANGED <<pos, rest>>
  \/ a.do = "moveStop"    /\ stop' = a.to /\ UNCHANGED <<pos, rest, take>>
  \/ a.do = "moveTake"    /\ take' = a.to /\ UNCHANGED <<pos, rest, stop>>
  \/ a.do = "cancelStop"  /\ stop' = 0 /\ UNCHANGED <<pos, rest, take>>
  \/ a.do = "cancelTake"  /\ take' = 0 /\ UNCHANGED <<pos, rest, stop>>
  \/ a.do = "cancelOrder" /\ rest' = rest - 1 /\ UNCHANGED <<pos, stop, take>>
  \/ a.do = "close"       /\ (PositionGone \/ (pos' \in 1..(pos - 1) /\ UNCHANGED <<rest, stop, take>>))

\* One order of a pair lands and the other is refused.
HalfLands(a) ==
  /\ a.do = "place" /\ UNCHANGED <<pos, rest>>
  /\ \/ stop' = Nearer(stop, a.stop) /\ UNCHANGED take
     \/ take' = Nearer(take, a.take) /\ UNCHANGED stop

\* apply raises: the pass or the request is over.  In a pass, a "no" to the stop of a position that
\* has none is counted (_stop_refused).
Raises(refused) ==
  IF refused /\ work.for = "pass" /\ work.what = "plan" /\ Naked(work.book)
  THEN /\ run' = Min({work.run + 1, CloseAfter})
       /\ work' = IF run' >= CloseAfter THEN [at |-> "rereading"] ELSE Idle
  ELSE work' = Idle /\ UNCHANGED run

SendNext ==
  /\ work.at = "sending" /\ work.todo # <<>>
  /\ LET a == Head(work.todo)
         goesOn == work' = [work EXCEPT !.todo = Tail(@)] /\ UNCHANGED run
         ofFriday == a.do \in {"cancelOrder", "close"}
     IN \/ /\ CanLand(a) /\ Lands(a)
           /\ goesOn /\ UNCHANGED <<gone, events>>
        \/ /\ ~CanLand(a)
           /\ UNCHANGED venueVars
           /\ IF ofFriday THEN goesOn /\ UNCHANGED gone
              ELSE IF known THEN Raises(TRUE) /\ UNCHANGED gone
              ELSE gone' = TRUE /\ work' = Idle /\ UNCHANGED run
           /\ UNCHANGED events
        \/ /\ CanLand(a) /\ Happens          \* refused
           /\ UNCHANGED venueVars \/ HalfLands(a)
           /\ IF ofFriday THEN goesOn ELSE Raises(TRUE)
           /\ UNCHANGED gone
        \/ /\ CanLand(a) /\ Happens          \* no answer, or one that confirms nothing
           /\ UNCHANGED venueVars \/ Lands(a)
           /\ IF ofFriday THEN goesOn ELSE Raises(FALSE)
           /\ UNCHANGED gone
  /\ kept' = None
  /\ UNCHANGED <<worldVars, watched, pending, flat, stray, limits, asked, after, opens>>

AllSent ==
  /\ work.at = "sending" /\ work.todo = <<>>
  /\ \/ /\ work.what = "plan" /\ work' = Idle
        /\ asked' = TakesLeft(work.sent)
        /\ UNCHANGED <<watched, flat, stray, kept, run>>
     \/ /\ work.what = "clear" /\ work' = Idle
        /\ LetGo(FALSE)
        /\ (watched' => UNCHANGED stray) /\ (~watched' => stray' = FALSE)
        /\ UNCHANGED kept
     \/ /\ work.what = "open" /\ work' = [at |-> "submitting"]
        /\ asked' = TakesLeft(work.sent) /\ Watch
        /\ UNCHANGED run
  /\ UNCHANGED <<venueVars, worldVars, pending, gone, limits, after, opens, events>>

\* The account read again before a position is closed for want of a stop.
Rereads ==
  /\ work.at = "rereading"
  /\ IF pos > 0 /\ stop = 0 THEN work' = [at |-> "closing"] /\ UNCHANGED run
                            ELSE work' = Idle /\ run' = 0
  /\ UNCHANGED <<venueVars, worldVars, watched, pending, flat, stray, kept, gone, limits, asked, after, opens, events>>

ClosesUnstopped ==
  /\ work.at = "closing" /\ work' = Idle
  /\ \/ CanLand([do |-> "close"]) /\ Lands([do |-> "close"]) /\ UNCHANGED events
     \/ ~CanLand([do |-> "close"]) /\ UNCHANGED <<venueVars, events>>
     \/ Happens /\ UNCHANGED venueVars
  /\ kept' = None
  /\ UNCHANGED <<worldVars, watched, pending, flat, stray, run, gone, limits, asked, after, opens>>

----------------------------------------------------------------------------
(* The trader's other requests: each holds the lock through Hyperliquid's answer. *)

TraderDoes ==
  /\ work = Idle /\ trades /\ ~gone /\ known /\ ~halted
  /\ kept' = None
  /\ UNCHANGED <<worldVars, watched, pending, flat, stray, run, gone, after, opens, events, work>>

TraderCancels == TraderDoes /\ rest > 0 /\ rest' = rest - 1 /\ UNCHANGED <<pos, stop, take, limits, asked>>
TraderCloses == TraderDoes /\ pos > 0 /\ PositionGone /\ UNCHANGED <<limits, asked>>

\* move: a stop only nearer, and with none standing no farther than its line.
TraderMovesStop(d) ==
  /\ TraderDoes /\ pos > 0
  /\ IF stop # 0 THEN d <= stop /\ UNCHANGED limits ELSE d <= LineOf(LimitsRead.near, room) /\ limits' = LimitsRead
  /\ stop' = d /\ UNCHANGED <<pos, rest, take, asked>>

\* A take anywhere this side of the target; it is the trader's even if the answer never came.
TraderMovesTake(d) ==
  /\ TraderDoes /\ pos > 0 /\ d <= goal
  /\ limits' = LimitsRead
  /\ take' \in {d, take} /\ asked' = asked \cup {d}
  /\ UNCHANGED <<pos, rest, stop>>

----------------------------------------------------------------------------
(* The gateway starts (take_on), and time passes. *)

TakesOn(ok) ==
  IF ~trades THEN pending' = FALSE /\ UNCHANGED <<watched, kept, flat, stray>>
  ELSE IF ok THEN pending' = FALSE /\ Watch
  ELSE pending' = TRUE /\ UNCHANGED <<watched, kept, flat, stray>>

RetryPending ==
  /\ pending /\ TakesOn(TRUE)
  /\ UNCHANGED <<venueVars, worldVars, run, gone, limits, asked, after, work, opens, events>>

Started(unread) == pending' = (trades /\ unread) /\ watched' = (trades /\ ~unread)
GatewayRestarts ==
  /\ Happens
  /\ \E unread \in BOOLEAN : Started(unread)
  /\ flat' = FALSE /\ stray' = FALSE /\ kept' = None
  /\ run' = 0 /\ gone' = FALSE /\ limits' = None /\ asked' = {} /\ after' = FALSE
  /\ work' = Idle
  /\ UNCHANGED <<venueVars, worldVars, opens>>

MinutePasses ==
  /\ limits # None /\ limits.fresh /\ limits' = [limits EXCEPT !.fresh = FALSE]
  /\ UNCHANGED <<venueVars, worldVars, watched, pending, flat, stray, kept, run, gone, asked, after, work, opens, events>>

AgentRetry ==
  /\ gone /\ gone' = FALSE
  /\ UNCHANGED <<venueVars, worldVars, watched, pending, flat, stray, kept, run, limits, asked, after, work, opens, events>>

----------------------------------------------------------------------------
(* Hyperliquid, the chain and the market. *)

Outside(changed) == changed /\ UNCHANGED <<memory, work, opens>>

Fill == rest > 0 /\ rest' = rest - 1 /\ pos' = pos + 1 /\ UNCHANGED <<stop, take, worldVars, events>>
Fires == pos > 0 /\ (stop # 0 \/ take # 0) /\ PositionGone /\ UNCHANGED <<worldVars, events>>
\* A stop that fires and finds nothing to fill it; a market its deployer halts.
StopLost == Happens /\ pos > 0 /\ stop # 0 /\ stop' = 0 /\ UNCHANGED <<pos, rest, take, worldVars>>
Halted ==
  /\ Happens /\ ~halted /\ halted' = TRUE /\ rest' = 0 /\ stop' = 0 /\ take' = 0
  /\ UNCHANGED <<pos, room, goal, today, snap, trades, known, friday>>
Reopens == halted /\ halted' = FALSE /\ UNCHANGED <<venueVars, room, goal, today, snap, trades, known, friday, events>>
EquityMoves ==
  /\ Happens /\ room' \in Distances /\ goal' \in Distances
  /\ UNCHANGED <<venueVars, halted, today, snap, trades, known, friday>>
DayTurns == Happens /\ today' = today + 1 /\ UNCHANGED <<venueVars, halted, room, goal, snap, trades, known, friday>>
Checkpoint ==
  /\ snap.day < today /\ snap' \in [day : {today}, near : BOOLEAN]
  /\ UNCHANGED <<venueVars, halted, room, goal, today, trades, known, friday, events>>
KeyRetires == Happens /\ trades /\ trades' = FALSE /\ UNCHANGED <<venueVars, halted, room, goal, today, snap, known, friday>>
AgentLost == Happens /\ known /\ known' = FALSE /\ UNCHANGED <<venueVars, halted, room, goal, today, snap, trades, friday>>
AgentBack == ~known /\ known' = TRUE /\ UNCHANGED <<venueVars, halted, room, goal, today, snap, trades, friday, events>>
FridayComes ==
  /\ WeekendFlat /\ Happens /\ ~friday /\ friday' = TRUE
  /\ UNCHANGED <<venueVars, halted, room, goal, today, snap, trades, known>>

World ==
  Outside(Fill \/ Fires \/ StopLost \/ Halted \/ Reopens \/ EquityMoves \/ DayTurns \/ Checkpoint \/ KeyRetires
          \/ AgentLost \/ AgentBack \/ FridayComes)

PassStep == ReadFails \/ Sweeps \/ SendNext \/ AllSent \/ Rereads \/ ClosesUnstopped
OpenStep == OpenRefused \/ OpenPlans \/ OpenSubmits

Next ==
  \/ SweepStarts \/ AfterEntry \/ OpenStarts
  \/ PassStep \/ OpenStep
  \/ TraderCancels \/ TraderCloses
  \/ \E d \in Distances : TraderMovesStop(d) \/ TraderMovesTake(d)
  \/ RetryPending \/ GatewayRestarts \/ MinutePasses \/ AgentRetry
  \/ World

Spec == Init /\ [][Next]_vars

\* The sweep's thread runs on its timer, every call ends, and clocks run.
FairSpec ==
  /\ Spec
  /\ WF_vars(SweepStarts) /\ WF_vars(PassStep) /\ WF_vars(OpenStep)
  /\ WF_vars(RetryPending) /\ WF_vars(MinutePasses) /\ WF_vars(AgentRetry)

----------------------------------------------------------------------------

(* While its key trades it, an account that holds or may come to hold a       *)
(* position is watched, or is waiting to be: not let go between two reads      *)
(* that each missed an order that filled, not forgotten at a restart.         *)
OpenIsWatched == trades /\ (pos > 0 \/ rest > 0) => watched \/ pending

(* The sweep takes no stop off from under a position, or from before an order  *)
(* that may open one, however its reads and the fills fall.                   *)
Cancelling == work.at = "sending" /\ work.todo # <<>> /\ Head(work.todo).do \in {"cancelStop", "cancelTake"}
GuardNotTaken == [][Cancelling /\ (stop' # stop \/ take' # take) => pos' + rest' = 0]_vars

(* A position whose stop is missing, or stands farther out than the rule that  *)
(* is nearest now, does not stay so: whatever is refused, lost or restarted,   *)
(* the stop is brought in or the position is gone.                            *)
Loose == pos > 0 /\ (stop = 0 \/ stop > LineOf(snap.near, room))
LooseEnds == Loose ~> ~Loose \/ ~trades \/ ~known \/ halted

(* Friday's hour ends with the account flat. *)
FridayEndsFlat == friday ~> pos + rest = 0 \/ ~trades \/ ~known \/ halted
=============================================================================
