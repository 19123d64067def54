--------------------------- MODULE MarketPayloads ---------------------------
(***************************************************************************)
(* What becomes of the payloads of the market requests: candles and trades *)
(* of Binance (collectors/binance/normalize.py), the pools of Raydium      *)
(* (collectors/raydium/normalize.py), a pool and its candles of            *)
(* GeckoTerminal (collectors/gecko/normalize.py).  Each operator returns   *)
(* the list MarketHistory's runs persist, or Refused, and then the run     *)
(* fails.  No state.                                                       *)
(*                                                                         *)
(* A payload is the list, or the pool, at its place in the answer; without *)
(* one the normalizers raise, as they do for an item that is no object.    *)
(* Times are JSON values as in VenueTimes.  An amount is a number, Null    *)
(* for null and the empty string, or Refused for anything that is none.    *)
(* "known" is MarketHistory's: the instant from which the venue could say  *)
(* so; it passes through.                                                  *)
(***************************************************************************)
EXTENDS VenueTimes, FiniteSetsExt

CONSTANTS
    Null,
    Bought, Sold    \* a trade's amount and price, with its side

\* The first item that is refused spoils the list.
ListOf(items) ==
    IF \E i \in DOMAIN items : items[i] = Refused THEN Refused ELSE items

\* parse_decimal knows no missing amounts, and the comparisons no others.
Positive(x) == x \notin {Null, Refused} /\ x > 0

Nonnegative(x) == x \notin {Null, Refused} /\ x >= 0

Candle(close, interval, price, known) ==
    [close |-> close, interval |-> interval, price |-> price, known |-> known]

-----------------------------------------------------------------------------
(* Binance *)

\* prices are open, high, low and close; sizes the two volumes and the count.
normalize_kline(row, interval) ==
    LET open == parse_required_venue_time(row.open)
        close == parse_required_venue_time(row.close)
    IN  IF \/ Refused \in {open, close}
           \/ close < open
           \/ \E i \in 1..4 : ~Positive(row.prices[i])
           \/ \E i \in 1..3 : ~Nonnegative(row.sizes[i])
        THEN Refused
        ELSE Candle(close, interval, row.prices[4], row.known)

\* An aggregate trade and a trade differ in the names of their fields.
normalize_trade(item) ==
    LET time == parse_required_venue_time(item.time)
    IN  IF \/ time = Refused
           \/ ~Positive(item.amount) \/ ~Positive(item.price)
           \/ ~Nonnegative(item.id)
           \/ item.isBuyerMaker = Null
        THEN Refused
        ELSE [id |-> item.id, at |-> time,
              fill |-> IF item.isBuyerMaker THEN Sold ELSE Bought]

Klines(payload, interval) ==
    ListOf([i \in DOMAIN payload |-> normalize_kline(payload[i], interval)])

Trades(payload) == ListOf([i \in DOMAIN payload |-> normalize_trade(payload[i])])

-----------------------------------------------------------------------------
(* Pools *)

Pool(item, at) ==
    IF Refused \in {at, item.price} THEN Refused
    ELSE [address |-> item.address, at |-> at, price |-> item.price,
          name |-> item.name, known |-> item.known]

\* The places of an item's times that are there.
Given(item) == {i \in DOMAIN item.times : item.times[i].type # "null"}

\* Mutant: the last time that is there.
ObservationLast(item) ==
    IF Given(item) = {} THEN item.hashed ELSE parse_venue_time(item.times[Max(Given(item))])

\* times are openTime, updateTime, timestamp, slot and blockTime.  The first
\* that is there is taken for an instant, a 0 as well and a slot, which is the
\* number of a block; without any, an instant is made of a hash of the item.
observation_timestamp(item) ==
    IF Given(item) = {} THEN item.hashed ELSE parse_venue_time(item.times[Min(Given(item))])

normalize_pool_list(payload) ==
    ListOf([i \in DOMAIN payload |-> Pool(payload[i], observation_timestamp(payload[i]))])

\* The instant a pool was created, or else that of the request.
normalize_pool(item, now) ==
    ListOf(<<Pool(item, IF Truthy(item.created) THEN parse_venue_time(item.created) ELSE now)>>)

\* int() cuts a fraction off, and makes 1 of a bool that is true.
Truncated(v) ==
    CASE v.type \in {"int", "float", "digits"} ->
            IF v.n < 0 THEN -((-v.n) \div PerSecond) * PerSecond
            ELSE (v.n \div PerSecond) * PerSecond
      [] v.type = "bool" -> IF Truthy(v) THEN PerSecond ELSE 0
      [] OTHER -> Refused

\* A candle of GeckoTerminal has one instant, the begin of its interval, which
\* is in seconds whatever its size.
normalize_candle(row, interval) ==
    LET seconds == Truncated(row.open)
    IN  IF \/ seconds = Refused \/ Held(seconds) = Refused
           \/ \E i \in 1..4 : row.prices[i] \in {Null, Refused}
           \/ row.volume \in {Null, Refused}
        THEN Refused
        ELSE Candle(Held(seconds), interval, row.prices[4], row.known)

normalize_ohlcv(payload, interval) ==
    ListOf([i \in DOMAIN payload |-> normalize_candle(payload[i], interval)])

=============================================================================
