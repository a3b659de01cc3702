----------------------------- MODULE NonceBook -----------------------------
(***************************************************************************)
(* The gateway's book of used nonces (src/gateway/checks.py, NonceBook): a  *)
(* map from a (trader, nonce) pair to the expiry of the request that took   *)
(* it, and a heap of (expiry, pair) by which old entries are dropped.       *)
(*                                                                         *)
(* Both operations hold the book's lock, so each is one step.  A pair given *)
(* back leaves its heap entry behind; the heap is a set here, since two      *)
(* equal entries fall due together.                                        *)
(***************************************************************************)
EXTENDS Naturals, FiniteSets, Functions

CONSTANT MaxNonces   \* the most pairs the book holds (limit)

ASSUME NonceBookAssumption == MaxNonces \in Nat

EmptyNonceBook == [seen |-> <<>>, due |-> {}]

\* Fault: an entry is dropped at the instant it may still be used.
PrunedEarly(book, now) ==
  LET over == {e \in book.due : e[1] <= now + 1} IN
  [seen |-> RestrictDomain(book.seen, LAMBDA p : <<book.seen[p], p>> \notin over),
   due  |-> book.due \ over]

\* The loop at the head of claim.
Pruned(book, now) ==
  LET over == {e \in book.due : e[1] <= now} IN
  [seen |-> RestrictDomain(book.seen, LAMBDA p : <<book.seen[p], p>> \notin over),
   due  |-> book.due \ over]

Taken(book, pair) == pair \in DOMAIN book.seen
Full(book) == Cardinality(DOMAIN book.seen) >= MaxNonces

\* The rest of claim, for a pair that is free in a book that is not full.
Recorded(book, pair, expires) ==
  [seen |-> [p \in DOMAIN book.seen \cup {pair} |-> IF p = pair THEN expires ELSE book.seen[p]],
   due  |-> book.due \cup {<<expires, pair>>}]

Released(book, pair) == [book EXCEPT !.seen = RestrictDomain(@, LAMBDA p : p # pair)]
=============================================================================
