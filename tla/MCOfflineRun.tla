---------------------------- MODULE MCOfflineRun ----------------------------
(* Fixtures of three to five snapshots at up to three instants in any order.  *)
(* The slippage is the program's 25 basis points, 1 / 400.  The first and     *)
(* fourth snapshots take every price, and the fifth may contradict the        *)
(* fourth.  The market's liquidity and token vary over fixtures in order.     *)
(* The float of 11 is 12, the other prices' are their own.  Floats divide to  *)
(* the nearest half that keeps the sign: of two prices with one return, and   *)
(* of a return less and one greater than the exact one, there are examples.   *)
EXTENDS OfflineRun

CONSTANTS t1, t2

Snap(t, p, l, k) == [ts |-> t, price |-> p, liquidity |-> l, token |-> k]

SomeDecimals == {0, 8, 10, 11, 20}

SomeFloat == [p \in SomeDecimals |-> IF p = 11 THEN 12 ELSE p]

SomeFloats == {SomeFloat[p] : p \in SomeDecimals}

Halves(a, p) ==
    LET nearest == (4 * (p - a) + a) \div (2 * a)
    IN  IF p = a THEN 0 ELSE IF p > a THEN Max({1, nearest}) ELSE Min({-1, nearest})

SomeGain == [a \in SomeFloats \ {0} |-> [p \in SomeFloats |-> <<Halves(a, p), 2>>]]

Fifths == {<<>>} \cup {<<Snap(e, r, None, t1)>> : e \in 0..2, r \in {0, 8, 10, 20}}

Timings ==
    {<<Snap(a, p, None, t1), Snap(1, 10, 30, t1), Snap(c, 11, None, t1),
       Snap(d, q, None, t1)>> \o rest :
        a \in 0..2, c \in 0..2, d \in 0..2, p \in {0, 8, 10}, q \in {0, 8, 11, 20},
        rest \in Fifths}

Venues ==
    {<<Snap(0, p, None, t1), Snap(1, 10, None, t1), Snap(1, 11, None, t1),
       Snap(2, q, l, k)>> \o rest :
        p \in {8, 10}, q \in {0, 10, 20}, l \in {None, 30, 500}, k \in {t1, t2},
        rest \in Fifths}

SomeFixtures ==
    Timings \cup Venues
    \cup {<<Snap(0, 8, None, t1), Snap(1, 10, None, t1), Snap(2, 10, None, t1)>>}
=============================================================================
