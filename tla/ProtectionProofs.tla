-------------------------- MODULE ProtectionProofs -------------------------
(***************************************************************************)
(* While its key trades it, an open account is watched or waiting to be, and  *)
(* no sweep takes a stop off from under a position, for any distances,       *)
(* openings and number of things that go wrong.                             *)
(*                                                                         *)
(* Two answers in a row that show nothing open are needed because each is    *)
(* two requests: after the first no order rests, so that no order is left to *)
(* fill between the positions and the orders of the second.                 *)
(***************************************************************************)
EXTENDS Protection, SequenceTheorems, TLAPS

\* The last read showed nothing open.
Seen == flat \/ stray

\* A sequence of actions that takes no guard off.
Guarding(s) == \E S : s \in Seq(S) /\ \A a \in S : a.do \notin {"cancelStop", "cancelTake"}

\* What a kept list of orders shows is no less than what rests.
ListFits(list) == list # None => list.rest \in Nat /\ rest <= list.rest

WorkFits ==
  /\ work.at = "reading" => work.pos \in Nat /\ ListFits(work.list) /\ (Seen /\ work.pos = 0 => pos = 0)
  /\ work.at = "sending" =>
       /\ work = [at |-> "sending", for |-> work.for, what |-> work.what, book |-> work.book, todo |-> work.todo,
                  sent |-> work.sent, run |-> work.run, line |-> work.line]
       /\ work.what = "clear" => rest = 0 /\ pos = 0
       /\ work.what # "clear" => Guarding(work.todo)
  /\ work.at = "submitting" => watched /\ ~Seen

Sizes == pos \in Nat /\ rest \in Nat

WatchInv == Sizes /\ (Seen => rest = 0) /\ ListFits(kept) /\ WorkFits /\ OpenIsWatched

LEMMA InitWatchInv == Init => WatchInv
BY DEF Init, WatchInv, Sizes, ListFits, WorkFits, OpenIsWatched, Idle, FreshMemory, Seen

\* A step after which no more rests than before, nothing is held that could not have been, and
\* that lets no open account go.
Calm ==
  /\ Sizes' /\ rest' <= rest /\ (pos' > 0 => pos > 0 \/ rest > 0)
  /\ (Seen' => Seen) /\ (trades' => trades)
  /\ trades' /\ (watched \/ pending) => watched' \/ pending'
  /\ kept' = kept \/ kept' = None

LEMMA CalmKeeps ==
  ASSUME WatchInv, Calm
  PROVE  Sizes' /\ (Seen' => rest' = 0) /\ ListFits(kept)' /\ OpenIsWatched'
<1>1. Sizes' /\ (Seen' => rest' = 0)
  BY DEF WatchInv, Calm, Sizes
<1>2. ListFits(kept)'
  <2>1. CASE kept' = None
    BY <2>1 DEF ListFits
  <2>2. CASE kept' = kept
    BY <2>2 DEF WatchInv, Calm, Sizes, ListFits
  <2> QED BY <2>1, <2>2 DEF Calm
<1>3. pos' > 0 \/ rest' > 0 => pos > 0 \/ rest > 0
  BY DEF WatchInv, Calm, Sizes
<1>4. OpenIsWatched'
  BY <1>3, Zenon DEF WatchInv, Calm, OpenIsWatched
<1> QED BY <1>1, <1>2, <1>4

LEMMA CalmEnds ==
  ASSUME WatchInv, Calm, work'.at \in {"idle", "rereading", "closing"}
  PROVE  WatchInv'
<1>1. WorkFits'
  BY DEF WorkFits
<1> QED BY <1>1, CalmKeeps DEF WatchInv

LEMMA CalmStays ==
  ASSUME WatchInv, Calm, work' = work, work.at = "submitting" => watched'
  PROVE  WatchInv'
<1>1. work.at = "reading" => ListFits(work.list)' /\ (Seen' /\ work.pos = 0 => pos' = 0)
  BY DEF WatchInv, WorkFits, ListFits, Calm, Sizes
<1>2. work.at = "sending" /\ work.what = "clear" => rest' = 0 /\ pos' = 0
  BY DEF WatchInv, WorkFits, Calm, Sizes
<1>3. WorkFits'
  BY <1>1, <1>2 DEF WatchInv, WorkFits, Calm
<1> QED BY <1>3, CalmKeeps DEF WatchInv

LEMMA TailGuards ==
  ASSUME NEW s, s # <<>>, Guarding(s)
  PROVE  Guarding(Tail(s)) /\ Head(s).do \notin {"cancelStop", "cancelTake"}
<1>1. PICK S : s \in Seq(S) /\ \A a \in S : a.do \notin {"cancelStop", "cancelTake"}
  BY DEF Guarding
<1>2. Head(s) \in S /\ Tail(s) \in Seq(S)
  BY <1>1, HeadTailProperties
<1> QED BY <1>1, <1>2 DEF Guarding

LEMMA BothGuard ==
  ASSUME NEW s, NEW t, Guarding(s), Guarding(t)
  PROVE  Guarding(s \o t)
<1>1. PICK S : s \in Seq(S) /\ \A a \in S : a.do \notin {"cancelStop", "cancelTake"}
  BY DEF Guarding
<1>2. PICK T : t \in Seq(T) /\ \A a \in T : a.do \notin {"cancelStop", "cancelTake"}
  BY DEF Guarding
<1>3. s \in Seq(S \cup T) /\ t \in Seq(S \cup T)
  BY <1>1, <1>2, SeqMonotonic
<1>4. s \o t \in Seq(S \cup T)
  BY <1>3, ConcatProperties
<1>5. \A a \in S \cup T : a.do \notin {"cancelStop", "cancelTake"}
  BY <1>1, <1>2
<1> QED BY <1>4, <1>5 DEF Guarding

LEMMA GuardingIf ==
  ASSUME NEW S, NEW s \in Seq(S), \A a \in S : a.do \notin {"cancelStop", "cancelTake"}
  PROVE  Guarding(s)
BY DEF Guarding

LEMMA OneGuards ==
  ASSUME NEW a, a.do \notin {"cancelStop", "cancelTake"}
  PROVE  Guarding(<<a>>) /\ Guarding(<<>>)
<1> DEFINE one == <<a>>
           none == <<>>
<1>1. one \in Seq({a}) /\ none \in Seq({a})
  OBVIOUS
<1> HIDE DEF one, none
<1>2. Guarding(one)
  BY <1>1, GuardingIf
<1>3. Guarding(none)
  BY <1>1, GuardingIf
<1> QED BY <1>2, <1>3 DEF one, none

\* What reconcile plans places and moves.
LEMMA ReconciledGuards == \A book, line, follow : Guarding(Reconciled(book, line, follow))
<1> SUFFICES ASSUME NEW book, NEW line, NEW follow PROVE Guarding(Reconciled(book, line, follow))
  OBVIOUS
<1> DEFINE place == [do |-> "place", stop |-> IF book.stop = 0 THEN line ELSE 0,
                                     take |-> IF book.take = 0 THEN book.goal ELSE 0]
           toStop == [do |-> "moveStop", to |-> line]
           toTake == [do |-> "moveTake", to |-> book.goal]
           places == IF place.stop = 0 /\ place.take = 0 THEN <<>> ELSE <<place>>
           stops == IF book.stop = 0 \/ KeepsStop(book, line) THEN <<>> ELSE <<toStop>>
           takes == IF book.take = 0 \/ KeepsTake(book, follow) THEN <<>> ELSE <<toTake>>
<1>1. place.do = "place" /\ toStop.do = "moveStop" /\ toTake.do = "moveTake"
  OBVIOUS
<1>2. Reconciled(book, line, follow) = places \o stops \o takes
  BY DEF Reconciled
<1> HIDE DEF place, toStop, toTake
<1>3. Guarding(<<place>>) /\ Guarding(<<toStop>>) /\ Guarding(<<toTake>>) /\ Guarding(<<>>)
  BY <1>1, OneGuards
<1>4. Guarding(places) /\ Guarding(stops) /\ Guarding(takes)
  BY <1>3
<1> HIDE DEF places, stops, takes
<1>5. Guarding(places \o stops)
  BY <1>4, BothGuard
<1> QED BY <1>2, <1>4, <1>5, BothGuard

LEMMA FridayGuards ==
  ASSUME NEW book, book.rest \in Nat
  PROVE  Guarding(Friday(book))
<1> DEFINE cancel == [do |-> "cancelOrder"]
           close == [do |-> "close"]
           cancels == [i \in 1..book.rest |-> cancel]
<1>1. cancel.do = "cancelOrder" /\ close.do = "close"
  OBVIOUS
<1> HIDE DEF cancel, close
<1>2. cancels \in Seq({cancel})
  OBVIOUS
<1>3. Guarding(cancels) /\ Guarding(<<close>>) /\ Guarding(<<>>)
  BY <1>1, <1>2, OneGuards DEF Guarding
<1>4. Friday(book) = <<>> \/ Friday(book) = cancels \o <<close>> \/ Friday(book) = cancels \o <<>>
  BY DEF Friday, Closes, cancel, close
<1> HIDE DEF cancels
<1> QED BY <1>3, <1>4, BothGuard

LEMMA CalmGoesOn ==
  ASSUME WatchInv, Calm, work.at = "sending", work.todo # <<>>, work' = [work EXCEPT !.todo = Tail(@)]
  PROVE  WatchInv'
<1>1. work'.at = "sending" /\ work'.what = work.what
         /\ work' = [at |-> "sending", for |-> work'.for, what |-> work'.what, book |-> work'.book,
                     todo |-> work'.todo, sent |-> work'.sent, run |-> work'.run, line |-> work'.line]
         /\ work'.todo = Tail(work.todo)
  BY DEF WatchInv, WorkFits
<1>2. work.what = "clear" => rest' = 0 /\ pos' = 0
  BY DEF WatchInv, WorkFits, Calm, Sizes
<1>3. work.what # "clear" => Guarding(Tail(work.todo))
  BY TailGuards DEF WatchInv, WorkFits
<1>4. WorkFits'
  BY <1>1, <1>2, <1>3 DEF WorkFits
<1> QED BY <1>4, CalmKeeps DEF WatchInv

----------------------------------------------------------------------------
(* Reads. *)

\* The positions are read: what the orders will show is at least what rests.
LEMMA ReadStarts ==
  ASSUME WatchInv, NEW for, NEW reuse \in BOOLEAN, ReadPositions(for, reuse),
         UNCHANGED <<watched, pending, flat, stray, kept>>
  PROVE  WatchInv'
<1>1. UNCHANGED <<pos, rest, trades>>
  BY DEF ReadPositions, venueVars, worldVars
<1>2. work'.at = "reading" /\ work'.pos = pos /\ (work'.list = kept \/ work'.list = None)
  BY DEF ReadPositions
<1>3. WorkFits'
  BY <1>1, <1>2 DEF WorkFits, WatchInv, Sizes, ListFits, Seen
<1> QED BY <1>1, <1>3 DEF WatchInv, Sizes, ListFits, OpenIsWatched, Seen

\* What a read shows of the orders is no less than what rests now.
LEMMA BookFacts ==
  ASSUME WatchInv, work.at = "reading", NEW book \in Books
  PROVE  book.pos = work.pos /\ book.pos \in Nat /\ book.rest \in Nat /\ rest <= book.rest
BY DEF Books, WatchInv, WorkFits, ListFits, Sizes

LEMMA KeptAfterFits ==
  ASSUME WatchInv, work.at = "reading", NEW book \in Books, kept' = KeptAfter(book), rest' = rest
  PROVE  ListFits(kept)'
BY BookFacts DEF KeptAfter, ListFits

\* Flat for the second time, an account is flat: no order was left to fill.
LEMMA FlatForGood ==
  ASSUME WatchInv, work.at = "reading", NEW book \in Books, book.pos + book.rest = 0
  PROVE  rest = 0 /\ (Seen => pos = 0)
<1>1. book.pos = 0 /\ book.rest = 0 /\ work.pos = 0
  BY BookFacts
<1> QED BY <1>1, BookFacts DEF WatchInv, WorkFits, Sizes

\* An account let go has nothing open.
LEMMA LetGoKeeps ==
  ASSUME WatchInv, NEW stands \in BOOLEAN, LetGo(stands), UNCHANGED <<pos, rest, trades, pending>>,
         rest = 0, Seen => pos = 0, ListFits(kept)', work'.at = "idle"
  PROVE  WatchInv'
<1>1. WorkFits'
  BY DEF WorkFits, Idle
<1>2. OpenIsWatched'
  BY DEF LetGo, FlatAgain, OpenIsWatched, WatchInv, Sizes, Seen
<1> QED BY <1>1, <1>2 DEF WatchInv, Sizes

----------------------------------------------------------------------------
(* Steps. *)

LEMMA SweepsKeep == WatchInv /\ Sweeps => WatchInv'
<1> SUFFICES ASSUME WatchInv, Sweeps PROVE WatchInv'
  OBVIOUS
<1>1. work.at = "reading" /\ UNCHANGED <<pos, rest, trades, pending>>
  BY DEF Sweeps, venueVars, worldVars
<1> DEFINE Line(b) == LineOf(LimitsRead.near, b.room)
           Plan(b) == Reconciled(b, Line(b), Follows(b))
<1>2. PICK book \in Books :
        /\ kept' = KeptAfter(book)
        /\ \/ book.pos + book.rest = 0 /\ ~trades /\ Unwatched /\ work' = Idle /\ flat' = flat
           \/ /\ book.pos + book.rest = 0 /\ stray /\ Sends(book, "clear", Cancels(book), Line(book))
              /\ flat' = flat /\ watched' = watched
           \/ book.pos + book.rest = 0 /\ work' = Idle /\ LetGo(Stray(book))
           \/ /\ flat' = FALSE /\ stray' = FALSE
              /\ \/ ~trades /\ Unwatched /\ work' = Idle
                 \/ watched' = watched /\ work' = Idle
                 \/ watched' = watched /\ Sends(book, "plan", Friday(book) \o Plan(book), Line(book))
  BY DEF Sweeps, StrayAgain, Unwatched
<1>3. ListFits(kept)'
  BY <1>1, <1>2, KeptAfterFits
<1>4. CASE book.pos + book.rest = 0 /\ ~trades /\ Unwatched /\ work' = Idle /\ flat' = flat
  BY <1>1, <1>3, <1>4 DEF WatchInv, WorkFits, Sizes, OpenIsWatched, Idle, Seen, Unwatched
<1>5. CASE /\ book.pos + book.rest = 0 /\ stray /\ Sends(book, "clear", Cancels(book), Line(book))
           /\ flat' = flat /\ watched' = watched
  <2>1. rest = 0 /\ pos = 0
    BY <1>1, <1>5, FlatForGood DEF Seen
  <2>2. work'.at = "sending" /\ WorkFits'
    BY <1>1, <1>5, <2>1 DEF Sends, WorkFits
  <2> QED BY <1>1, <1>3, <1>5, <2>1, <2>2 DEF WatchInv, Sizes, OpenIsWatched
<1>6. CASE book.pos + book.rest = 0 /\ work' = Idle /\ LetGo(Stray(book))
  <2>1. rest = 0 /\ (Seen => pos = 0)
    BY <1>1, <1>6, FlatForGood
  <2>2. Stray(book) \in BOOLEAN /\ work'.at = "idle"
    BY <1>6 DEF Stray, Idle
  <2> QED BY <1>1, <1>3, <1>6, <2>1, <2>2, LetGoKeeps
<1>7. CASE flat' = FALSE /\ stray' = FALSE /\ ~trades /\ Unwatched /\ work' = Idle
  BY <1>1, <1>3, <1>7 DEF WatchInv, WorkFits, Sizes, OpenIsWatched, Idle, Seen
<1>8. CASE flat' = FALSE /\ stray' = FALSE /\ watched' = watched /\ work' = Idle
  BY <1>1, <1>3, <1>8 DEF WatchInv, WorkFits, Sizes, OpenIsWatched, Idle, Seen
<1>9. CASE flat' = FALSE /\ stray' = FALSE /\ watched' = watched /\ Sends(book, "plan", Friday(book) \o Plan(book), Line(book))
  <2>1. Guarding(Friday(book) \o Plan(book))
    BY <1>1, BookFacts, FridayGuards, ReconciledGuards, BothGuard
  <2>2. WorkFits'
    BY <1>9, <2>1 DEF Sends, WorkFits
  <2> QED BY <1>1, <1>3, <1>9, <2>2 DEF WatchInv, Sizes, OpenIsWatched, Seen
<1> QED BY <1>2, <1>4, <1>5, <1>6, <1>7, <1>8, <1>9

LEMMA OpenPlansKeeps == WatchInv /\ OpenPlans => WatchInv'
<1> SUFFICES ASSUME WatchInv, OpenPlans PROVE WatchInv'
  OBVIOUS
<1>1. work.at = "reading" /\ UNCHANGED <<pos, rest, trades, pending, watched, flat, stray>>
  BY DEF OpenPlans, venueVars, worldVars
<1> DEFINE book == CHOOSE b \in Books : TRUE
<1>2. book \in Books
  BY DEF Books
<1>3. ListFits(kept)'
  BY <1>1, <1>2, KeptAfterFits DEF OpenPlans
<1>4. work'.at = "sending" /\ WorkFits'
  BY ReconciledGuards DEF OpenPlans, Sends, WorkFits
<1> QED BY <1>1, <1>3, <1>4 DEF WatchInv, Sizes, OpenIsWatched, Seen

\* An order is on the book of an account that is watched.
LEMMA OpenSubmitsKeeps == WatchInv /\ OpenSubmits => WatchInv'
<1> SUFFICES ASSUME WatchInv, OpenSubmits PROVE WatchInv'
  OBVIOUS
<1>1. watched' /\ ~Seen' /\ kept' = None /\ work' = Idle /\ pos' = pos /\ rest' \in Nat
  BY DEF OpenSubmits, WatchInv, WorkFits, Sizes, Seen
<1> QED BY <1>1 DEF WatchInv, WorkFits, Sizes, ListFits, OpenIsWatched, Idle

\* Nothing the gateway sends makes a position or leaves more orders.
LEMMA LandsShrinks ==
  ASSUME Sizes, NEW a, CanLand(a), Lands(a)
  PROVE  Sizes' /\ rest' <= rest /\ pos' <= pos
<1>1. CASE a.do = "cancelOrder"
  BY <1>1 DEF CanLand, Lands, Sizes
<1>2. CASE a.do = "close"
  BY <1>2 DEF Lands, PositionGone, Sizes
<1>3. CASE a.do \notin {"cancelOrder", "close"}
  BY <1>3 DEF Lands, Sizes
<1> QED BY <1>1, <1>2, <1>3

LEMMA SendNextKeeps == WatchInv /\ SendNext => WatchInv'
<1> SUFFICES ASSUME WatchInv, SendNext PROVE WatchInv'
  OBVIOUS
<1> DEFINE a == Head(work.todo)
<1>1. work.at = "sending" /\ work.todo # <<>> /\ kept' = None /\ UNCHANGED <<trades, watched, pending, flat, stray>>
  BY DEF SendNext, worldVars
<1>2. \/ UNCHANGED venueVars
      \/ HalfLands(a)
      \/ CanLand(a) /\ Lands(a)
  BY DEF SendNext
<1>3. Sizes' /\ rest' <= rest /\ pos' <= pos
  BY <1>2, LandsShrinks DEF venueVars, HalfLands, WatchInv, Sizes
<1>4. Calm
  BY <1>1, <1>3 DEF Calm, WatchInv, Sizes, Seen
<1>5. \/ work' = [work EXCEPT !.todo = Tail(@)]
      \/ work'.at \in {"idle", "rereading"}
  BY DEF SendNext, Raises, Idle
<1> QED BY <1>1, <1>4, <1>5, CalmEnds, CalmGoesOn

LEMMA AllSentKeeps == WatchInv /\ AllSent => WatchInv'
<1> SUFFICES ASSUME WatchInv, AllSent PROVE WatchInv'
  OBVIOUS
<1>1. work.at = "sending" /\ UNCHANGED <<pos, rest, trades, pending>>
  BY DEF AllSent, venueVars, worldVars
<1>2. CASE work.what = "plan" /\ work' = Idle /\ UNCHANGED <<watched, flat, stray, kept>>
  <2>1. Calm /\ work'.at = "idle"
    BY <1>1, <1>2 DEF Calm, WatchInv, Sizes, Idle, Seen
  <2> QED BY <2>1, CalmEnds
<1>3. CASE work.what = "clear" /\ work' = Idle /\ LetGo(FALSE) /\ kept' = kept
  <2>1. rest = 0 /\ (Seen => pos = 0) /\ ListFits(kept)' /\ work'.at = "idle"
    BY <1>1, <1>3 DEF WatchInv, WorkFits, ListFits, Idle
  <2> QED BY <1>1, <1>3, <2>1, LetGoKeeps
<1>4. CASE work.what = "open" /\ work' = [at |-> "submitting"] /\ Watch
  <2>1. WorkFits' /\ ListFits(kept)'
    BY <1>4 DEF WorkFits, Watch, ListFits, Seen
  <2> QED BY <1>1, <1>4, <2>1 DEF WatchInv, Sizes, OpenIsWatched, Watch, Seen
<1> QED BY <1>2, <1>3, <1>4 DEF AllSent

LEMMA PassStepKeeps == WatchInv /\ PassStep => WatchInv'
<1> SUFFICES ASSUME WatchInv, PassStep PROVE WatchInv'
  OBVIOUS
<1>1. CASE ReadFails
  <2>1. Calm /\ work'.at = "idle"
    BY <1>1 DEF ReadFails, Calm, WatchInv, Sizes, venueVars, worldVars, Idle, Seen
  <2> QED BY <2>1, CalmEnds
<1>2. CASE Rereads
  <2>1. Calm /\ work'.at \in {"idle", "closing"}
    BY <1>2 DEF Rereads, Calm, WatchInv, Sizes, venueVars, worldVars, Idle, Seen
  <2> QED BY <2>1, CalmEnds
<1>3. CASE ClosesUnstopped
  <2>1. UNCHANGED venueVars \/ (CanLand([do |-> "close"]) /\ Lands([do |-> "close"]))
    BY <1>3 DEF ClosesUnstopped
  <2>2. Sizes' /\ rest' <= rest /\ pos' <= pos
    BY <2>1, LandsShrinks DEF venueVars, WatchInv, Sizes
  <2>3. Calm /\ work'.at = "idle"
    BY <1>3, <2>2 DEF ClosesUnstopped, Calm, WatchInv, Sizes, worldVars, Idle, Seen
  <2> QED BY <2>3, CalmEnds
<1> QED BY <1>1, <1>2, <1>3, SweepsKeep, SendNextKeeps, AllSentKeeps DEF PassStep

LEMMA TraderKeeps ==
  ASSUME WatchInv, \/ TraderCancels \/ TraderCloses
                   \/ \E d \in Distances : TraderMovesStop(d) \/ TraderMovesTake(d)
  PROVE  WatchInv'
<1>1. work' = work /\ work = Idle /\ kept' = None /\ UNCHANGED <<trades, watched, pending, flat, stray>>
  BY DEF TraderCancels, TraderCloses, TraderMovesStop, TraderMovesTake, TraderDoes, worldVars
<1>2. Sizes' /\ rest' <= rest /\ pos' <= pos
  BY DEF TraderCancels, TraderCloses, TraderMovesStop, TraderMovesTake, PositionGone, WatchInv, Sizes
<1>3. Calm /\ work.at = "idle"
  BY <1>1, <1>2 DEF Calm, WatchInv, Sizes, Idle, Seen
<1> QED BY <1>1, <1>3, CalmStays

LEMMA ProcessKeeps ==
  ASSUME WatchInv, RetryPending \/ GatewayRestarts \/ MinutePasses \/ AgentRetry
  PROVE  WatchInv'
<1>1. UNCHANGED <<pos, rest, trades>>
  BY DEF RetryPending, GatewayRestarts, MinutePasses, AgentRetry, venueVars, worldVars
<1>2. CASE RetryPending
  <2>1. Calm /\ work' = work /\ (work.at = "submitting" => watched')
    BY <1>1, <1>2 DEF RetryPending, TakesOn, Watch, Calm, WatchInv, WorkFits, Sizes, Seen
  <2> QED BY <2>1, CalmStays
<1>3. CASE GatewayRestarts
  <2>1. (trades' => watched' \/ pending') /\ ~Seen' /\ kept' = None /\ work' = Idle
    BY <1>1, <1>3 DEF GatewayRestarts, Started, Seen
  <2> QED BY <1>1, <2>1 DEF WatchInv, WorkFits, Sizes, ListFits, OpenIsWatched, Idle
<1>4. CASE MinutePasses \/ AgentRetry
  <2>1. Calm /\ work' = work /\ watched' = watched
    BY <1>1, <1>4 DEF MinutePasses, AgentRetry, Calm, WatchInv, Sizes, Seen
  <2> QED BY <2>1, CalmStays DEF WatchInv, WorkFits
<1> QED BY <1>2, <1>3, <1>4

LEMMA WorldKeeps == WatchInv /\ World => WatchInv'
<1> SUFFICES ASSUME WatchInv, World PROVE WatchInv'
  OBVIOUS
<1>1. UNCHANGED <<work, watched, pending, flat, stray, kept>>
  BY DEF World, Outside, memory
<1>2. Sizes' /\ rest' <= rest /\ (pos' > 0 => pos > 0 \/ rest > 0) /\ (trades' => trades)
  <2>1. CASE Fill
    BY <2>1 DEF Fill, WatchInv, Sizes, worldVars
  <2>2. CASE Fires
    BY <2>2 DEF Fires, PositionGone, WatchInv, Sizes, worldVars
  <2>3. CASE StopLost \/ Halted
    BY <2>3 DEF StopLost, Halted, WatchInv, Sizes, worldVars
  <2>4. CASE Reopens \/ EquityMoves \/ DayTurns \/ Checkpoint \/ KeyRetires \/ AgentLost \/ AgentBack \/ FridayComes
    BY <2>4 DEF Reopens, EquityMoves, DayTurns, Checkpoint, KeyRetires, AgentLost, AgentBack, FridayComes,
                WatchInv, Sizes, venueVars
  <2> QED BY <2>1, <2>2, <2>3, <2>4 DEF World, Outside
<1>3. Calm
  BY <1>1, <1>2 DEF Calm, Seen
<1> QED BY <1>1, <1>3, CalmStays DEF WatchInv, WorkFits

LEMMA NextWatchInv == WatchInv /\ [Next]_vars => WatchInv'
<1> SUFFICES ASSUME WatchInv, [Next]_vars PROVE WatchInv'
  OBVIOUS
<1>1. CASE SweepStarts \/ OpenStarts
  BY <1>1, ReadStarts DEF SweepStarts, OpenStarts, memory
<1>2. CASE AfterEntry
  <2>1. CASE gone
    <3>1. Calm /\ work' = work /\ watched' = watched
      BY <1>2, <2>1 DEF AfterEntry, Calm, WatchInv, Sizes, venueVars, worldVars, Seen
    <3> QED BY <3>1, CalmStays DEF WatchInv, WorkFits
  <2>2. CASE ~gone
    BY <1>2, <2>2, ReadStarts DEF AfterEntry
  <2> QED BY <2>1, <2>2
<1>3. CASE OpenRefused
  <2>1. Calm /\ work'.at = "idle"
    BY <1>3 DEF OpenRefused, Calm, WatchInv, Sizes, venueVars, worldVars, Idle, Seen
  <2> QED BY <2>1, CalmEnds
<1>4. CASE OpenPlans \/ OpenSubmits
  BY <1>4, OpenPlansKeeps, OpenSubmitsKeeps
<1>5. CASE UNCHANGED vars
  <2>1. Calm /\ work' = work /\ watched' = watched
    BY <1>5 DEF vars, venueVars, worldVars, memory, Calm, WatchInv, Sizes, Seen
  <2> QED BY <2>1, CalmStays DEF WatchInv, WorkFits
<1> QED BY <1>1, <1>2, <1>3, <1>4, <1>5, PassStepKeeps, TraderKeeps, ProcessKeeps, WorldKeeps DEF Next, OpenStep

(* An account that holds or may come to hold a position is watched, or waiting *)
(* to be, while its key trades it.                                           *)
THEOREM OpenAlwaysWatched == Spec => []OpenIsWatched
<1>1. WatchInv => OpenIsWatched
  BY DEF WatchInv
<1> QED BY <1>1, InitWatchInv, NextWatchInv, PTL DEF Spec

\* Only what clears strays takes a guard off, and by then nothing is open and nothing can open.
LEMMA OnlyStraysGo ==
  ASSUME WatchInv, Next, Cancelling, stop' # stop \/ take' # take
  PROVE  pos' + rest' = 0
<1>1. work.at = "sending" /\ work # Idle
  BY DEF Cancelling, Idle
<1>2. work.what = "clear"
  BY <1>1, TailGuards DEF Cancelling, WatchInv, WorkFits
<1>3. pos = 0 /\ rest = 0
  BY <1>1, <1>2 DEF WatchInv, WorkFits
<1>4. CASE SendNext
  <2> DEFINE a == Head(work.todo)
  <2>1. a.do \in {"cancelStop", "cancelTake"}
    BY DEF Cancelling
  <2>2. UNCHANGED venueVars \/ HalfLands(a) \/ Lands(a)
    BY <1>4 DEF SendNext
  <2>3. UNCHANGED <<pos, rest>>
    BY <2>1, <2>2 DEF venueVars, HalfLands, Lands
  <2> QED BY <1>3, <2>3
<1>5. CASE World
  <2>1. pos' = pos /\ rest' = 0
    BY <1>3, <1>5 DEF World, Outside, Fill, Fires, StopLost, Halted, Reopens, EquityMoves, DayTurns, Checkpoint,
       KeyRetires, AgentLost, AgentBack, FridayComes, venueVars
  <2> QED BY <1>3, <2>1
<1>6. CASE ~SendNext /\ ~World
  <2>1. UNCHANGED <<stop, take>>
    BY <1>1, <1>6 DEF Next, PassStep, OpenStep, SweepStarts, AfterEntry, OpenStarts, ReadPositions, ReadFails, Sweeps,
       AllSent, Rereads, ClosesUnstopped, OpenRefused, OpenPlans, OpenSubmits, TraderCancels, TraderCloses, TraderMovesStop,
       TraderMovesTake, TraderDoes, RetryPending, GatewayRestarts, MinutePasses, AgentRetry, venueVars
  <2> QED BY <2>1
<1> QED BY <1>4, <1>5, <1>6

(* The sweep takes no stop off from under a position, nor from before an order  *)
(* that may open one (_sweep_one's _stray_again).                             *)
THEOREM GuardNeverTaken == Spec => GuardNotTaken
<1>1. WatchInv /\ [Next]_vars =>
        [Cancelling /\ (stop' # stop \/ take' # take) => pos' + rest' = 0]_vars
  BY OnlyStraysGo
<1> QED BY <1>1, InitWatchInv, NextWatchInv, PTL DEF Spec, GuardNotTaken
=============================================================================
