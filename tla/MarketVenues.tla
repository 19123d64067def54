---------------------------- MODULE MarketVenues ----------------------------
(***************************************************************************)
(* MarketHistory with its venues: the lists its runs persist are what      *)
(* MarketPayloads makes of payloads, and its collectors are those of       *)
(* ListingVenues.  Payloads that are refused are among the causes of       *)
(* FailHistory.  What the venues said, in instants, beside what the three  *)
(* tables say.                                                             *)
(***************************************************************************)
EXTENDS MarketHistory, ListingVenues

CONSTANTS
    Bought, Sold,
    MarketHeard     \* what runs may hear: the request, the payload of its
                    \* answer, the interval asked for, and the reading of the
                    \* host's clock (now) when it arrives

Payloads == INSTANCE MarketPayloads

\* The list a run persists, or Refused.
MarketNormalized(m) ==
    CASE m.request = "klines" -> Payloads!Klines(m.payload, m.interval)
      [] m.request \in {"aggTrades", "trades"} -> Payloads!Trades(m.payload)
      [] m.request = "pools" -> Payloads!normalize_pool_list(m.payload)
      [] m.request = "pool" -> Payloads!normalize_pool(m.payload, m.now)
      [] m.request = "ohlcv" -> Payloads!normalize_ohlcv(m.payload, m.interval)

MarketAnswer ==
    [request \in Requests |->
        {MarketNormalized(m) : m \in {x \in MarketHeard : x.request = request}} \ {Refused}]

-----------------------------------------------------------------------------
(* What the venues said *)

\* The candles, trades or pools of an answer.
Items(m) == IF m.request = "pool" THEN {m.payload} ELSE Members(m.payload)

\* The symbols of Binance that runs ask about, and the pools of GeckoTerminal.
Spots == {c.symbol : c \in {x \in Commands : ControlsValid(x)}} \ {Null}

GeckoPools == {m.payload.address : m \in {x \in MarketHeard : x.request = "pool"}}

\* The first time of five that is there is the pool's, and without any the
\* one made up for it.
ObservedAt(x) ==
    IF \A i \in DOMAIN x.times : x.times[i].type = "null" THEN {x.hashed}
    ELSE UNION {Meant(x.times[i]) :
                   i \in {j \in DOMAIN x.times :
                             /\ x.times[j].type # "null"
                             /\ \A l \in 1..(j - 1) : x.times[l].type = "null"}}

\* An instant in seconds, whatever its size, and the second it is in.
SecondOf(v) ==
    {(t \div PerSecond) * PerSecond : t \in {u \in Plausible : v.type \in {"int", "float", "digits"} /\ v.n = u}}

\* When an item of an answer was, what it is about, and what it says.
InstantsOf(m, x) ==
    CASE m.request = "klines" -> Meant(x.close)
      [] m.request \in {"aggTrades", "trades"} -> Meant(x.time)
      [] m.request = "pools" -> ObservedAt(x)
      [] m.request = "pool" -> IF Truthy(x.created) THEN Meant(x.created) ELSE {m.now}
      [] m.request = "ohlcv" -> SecondOf(x.open)

TokensOf(m, x) ==
    CASE m.request \in {"klines", "aggTrades", "trades"} -> Spots
      [] m.request \in {"pools", "pool"} -> {x.address}
      [] m.request = "ohlcv" -> GeckoPools

ValueOf(m, x) ==
    CASE m.request \in {"klines", "ohlcv"} -> x.prices[4]
      [] m.request \in {"aggTrades", "trades"} -> IF x.isBuyerMaker THEN Sold ELSE Bought
      [] m.request \in {"pools", "pool"} -> x.price

SourceOf(m) ==
    CASE m.request = "klines" -> <<"binance">>
      [] m.request \in {"aggTrades", "trades"} -> <<"binance", m.request>>
      [] m.request = "pools" -> <<"raydium">>
      [] m.request = "pool" -> <<"geckoterminal", "pool">>
      [] m.request = "ohlcv" -> <<"geckoterminal", "ohlcv", m.interval>>

\* Row r says what an item of answer m says.
Says(m, r) ==
    /\ r.source = SourceOf(m)
    /\ \E x \in Items(m) :
          /\ r.token \in TokensOf(m, x)
          /\ r.value = ValueOf(m, x)
          /\ r.at \in InstantsOf(m, x)
          /\ m.request \in {"aggTrades", "trades"} => r.id = x.id

\* Row r is one a loader was given.
Brought(r) ==
    \E list \in Loads : \E i \in DOMAIN list : r = [list[i] EXCEPT !.token = r.token]

\* When the pool at address k was, if k is one.
PoolSeen(k) ==
    UNION {UNION {InstantsOf(m, x) : x \in {y \in Items(m) : y.address = k}} :
              m \in {h \in MarketHeard : h.request \in {"pools", "pool"}}}

\* By token, when runs may first see it: a pool when it was, a symbol when it
\* is asked about.
SeenByRuns == [k \in Keys |-> PoolSeen(k) \cup IF k \in Spots THEN Times ELSE {}]

-----------------------------------------------------------------------------
(* Assumptions *)

ASSUME MarketHeardAssumption ==
    \A m \in MarketHeard :
        /\ m.request \in Requests
        /\ m.request # "pool" => IsSequence(m.payload)
        /\ m.request = "pools" => \A x \in Items(m) : IsSequence(x.times)

\* A number sent as a time is a time, or else the normalizers refuse it.
ASSUME MarketTimesMeantAssumption ==
    \A m \in MarketHeard : \A x \in Items(m) :
        \/ InstantsOf(m, x) # {}
        \/ m.request = "klines" /\ parse_required_venue_time(x.close) = Refused
        \/ m.request \in {"aggTrades", "trades"} /\ parse_required_venue_time(x.time) = Refused
        \/ m.request = "pools" /\ Payloads!observation_timestamp(x) = Refused
        \/ m.request = "pool" /\ parse_venue_time(x.created) = Refused
        \/ m.request = "ohlcv" /\ Payloads!normalize_candle(x, m.interval) = Refused

ASSUME MarketAnswerAssumption == MarketAnswers = MarketAnswer

-----------------------------------------------------------------------------
(* Properties *)

\* Between payload and table no price moves to another instant, token or
\* source, and no token is dated otherwise than a venue or the clock of a run
\* did: whichever of five fields has the time (raydium/normalize.py:41), in
\* seconds, milliseconds, digits or ISO text, although the rows of a run are
\* under whatever token it upserted last (ingestion.py), and whatever the
\* collector and the loader write under the same keys at the same time.
RowsTellVenues ==
    /\ \A r \in market : Brought(r) \/ \E m \in MarketHeard : Says(m, r)
    /\ \A k \in Keys : tokens[k] # NoRow =>
          /\ tokens[k].first \in Seen[k] \cup SeenByRuns[k]
          /\ tokens[k].created \in Born[k] \cup {Null}

=============================================================================
