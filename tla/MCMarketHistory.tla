--------------------------- MODULE MCMarketHistory ---------------------------
(***************************************************************************)
(* Historians and a loader of one Binance symbol; a historian and a loader *)
(* of two pools beside a collector of the same.                            *)
(***************************************************************************)
EXTENDS MarketVenues

CONSTANTS h1, h2, l1, c1, btc, poolA, poolB

MCSymbols == {"spot", "pool", "token"}

MCAnswers == FeedAnswer

MCMarketAnswers == MarketAnswer

MCSpotName == [k \in Keys |-> "spot"]

SpotRun(recent, limit) ==
    [symbol |-> btc, recent |-> recent, limit |-> limit,
     page |-> 1, pageSize |-> Null, pool |-> FALSE, ohlcv |-> 100]

PoolRun(size, gecko) ==
    [symbol |-> Null, recent |-> FALSE, limit |-> 100,
     page |-> 1, pageSize |-> size, pool |-> gecko, ohlcv |-> 100]

SpotCommands == {SpotRun(TRUE, 1000), SpotRun(TRUE, 1001)}

PoolCommands == {PoolRun(100, TRUE), PoolRun(0, TRUE)}

-----------------------------------------------------------------------------
(* Payloads *)

MCEarliest == -4

Ok == 3

\* The columns of a Binance candle.
Columns(open, close, price, known) ==
    [open |-> open, close |-> close, prices |-> <<Ok, Ok, Ok, price>>,
     sizes |-> <<0, 0, 0>>, known |-> known]

\* A candle from 12 to 14, fetched before or after its end, with its end in
\* every spelling; one that ends before it begins, one without a price, and
\* one whose begin is missing.
KlinePayloads(price, known) ==
    {<<Columns(Seconds(12), v, price, known)>> : v \in Spellings(14)}
    \cup {<<Columns(Millis(14), Millis(12), price, known)>>,
          <<Columns(Millis(12), Millis(14), 0, known)>>,
          <<Columns(Absent, Millis(14), price, known)>>}

Traded(id, time) ==
    [id |-> id, time |-> time, amount |-> 1, price |-> Ok, isBuyerMaker |-> FALSE]

TradePayloads(n) ==
    {[i \in 1..n |-> Traded(7, v)] : v \in Spellings(12) \cup {Zero, Seconds(11)}}
    \cup {<<[Traded(7, Millis(12)) EXCEPT !.amount = 0]>>}

PoolItem(k, price) ==
    [address |-> k, price |-> price, name |-> "pool", known |-> 14,
     times |-> <<Absent, Absent, Absent, Absent, Absent>>, hashed |-> 14,
     created |-> Absent]

\* The first pool has no openTime, an updateTime and worse ones; the second
\* has no time and no price.
PoolLists ==
    {<<[PoolItem(poolB, 4) EXCEPT !.times = <<Absent, v, Millis(14), Zero, Zero>>],
       PoolItem(poolA, Null)>> : v \in Spellings(12)}
    \cup {<<PoolItem(poolA, Refused)>>,
          <<[PoolItem(poolA, 3) EXCEPT !.times[1] = [type |-> "text", n |-> 1]]>>}

PoolPayloads ==
    {[PoolItem(poolA, 3) EXCEPT !.created = v] :
        v \in Spellings(14) \cup {Absent, Zero, [type |-> "text", n |-> 1]}}

Ohlcv(open, price, known) ==
    [open |-> open, prices |-> <<Ok, Ok, Ok, price>>, volume |-> 0, known |-> known]

\* 13 is not a whole second; 14 in milliseconds would be of an instant no
\* datetime can hold.
OhlcvPayloads ==
    {<<Ohlcv(Seconds(t), 3, 14), Ohlcv(Seconds(14), 5, 14)>> : t \in {12, 13}}
    \cup {<<Ohlcv(Millis(14), 3, 14)>>, <<Ohlcv(Absent, 3, 14)>>}

Hear(request, payloads, interval) ==
    {[request |-> request, payload |-> p, interval |-> interval, now |-> 14] : p \in payloads}

SpotHeard ==
    Hear("klines", {<<>>} \cup KlinePayloads(5, 12), "1h")
        \cup Hear("klines", KlinePayloads(6, 14), "4h")
        \cup Hear("aggTrades", TradePayloads(2), Null)
        \cup Hear("trades", TradePayloads(1), Null)

PoolHeard ==
    Hear("pools", PoolLists, Null) \cup Hear("pool", PoolPayloads, Null)
        \cup Hear("ohlcv", OhlcvPayloads, "1m")

-----------------------------------------------------------------------------
(* What the loader and the collector bring *)

Row(table, source, at, id, value) ==
    [table |-> table, token |-> Null, at |-> at, source |-> source, id |-> id,
     value |-> value, known |-> 14]

\* A price no venue gave.
Loaded == 8

MCLoads ==
    {<<Row("trade", <<"binance", "trades">>, 12, Null, Bought),
       Row("snapshot", <<"binance">>, 14, Null, Loaded)>>}

\* The candles of a pool in the other order.
CrossLoads ==
    {<<Row("snapshot", <<"geckoterminal", "ohlcv", "1m">>, 14, Null, Loaded),
       Row("snapshot", <<"geckoterminal", "ohlcv", "1m">>, 12, Null, Loaded)>>}

\* What the collector hears: nothing, and then both pools, in one of the orders
\* historians use.
Silence(i) ==
    [feed |-> i, now |-> 12,
     payload |-> [shape |-> "items", items |-> <<>>, serverTime |-> Seconds(12), symbols |-> <<>>]]

NothingHeard == {Silence(i) : i \in Feeds}

PoolsHeard ==
    {Silence(1), Silence(3),
     [Silence(2) EXCEPT !.payload.items =
         <<[address |-> poolA, times |-> <<Absent, Absent>>],
           [address |-> poolB, times |-> <<Absent, Absent>>]>>]}

=============================================================================
