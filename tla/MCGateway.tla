------------------------------- MODULE MCGateway -----------------------------
(* Small instances of the gateway's process for TLC. *)
EXTENDS Gateway, TLC

CONSTANTS a1, a2, p1, p2, x, y, c

TwoAttempts == {a1, a2}
OnePost == {p1}
\* No order; two attempts of the desk; an attempt and a request of the page's; one the page posts twice.
Pairs == {{}, {<<a1, 1>>, <<a2, 1>>}, {<<a1, 1>>, <<p1, 1>>}, {<<p1, 1>>, <<p1, 2>>}}
\* The page asks for what the desk's first attempt asks for; the second is another order.
Apart == [r \in Requests |-> IF r = a2 THEN 2 ELSE 1]
TwoAddresses == {x, y}
OneClient == {c}
ThreeRecords == 1..3
SixPrices == 8..13
TwoSizes == {1, 2}
TwoFloors == {9, 12}
=============================================================================
