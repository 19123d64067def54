----------------------------- MODULE OfflineRun -----------------------------
(***************************************************************************)
(* demo.py, run_offline_smoke: one fixture is read, the listing-momentum   *)
(* strategy (strategies/listing_momentum.py, research/windows.py) makes at *)
(* most one signal of it, and the signal becomes an order that goes        *)
(* through PaperExecution.  Before that the same snapshots are analysed    *)
(* (Research), and at the end three reports are written over those of the  *)
(* run before.                                                             *)
(*                                                                         *)
(* A fixture is a sequence of snapshots in the order of its file, which    *)
(* nothing sorts.  Its fourth snapshot is "now": it gives the evaluation   *)
(* time and the market.  (TLA+ counts it from 1, Python from 0.)           *)
(***************************************************************************)
EXTENDS PaperExecution

CONSTANTS
    Fixtures,           \* the sequences of snapshots considered
    MetaToken,          \* meta.json: the token
    ObservedLiquidity,  \* meta.json: observed_liquidity
    Qty,                \* strategy parameters
    Rise, Fall,         \* thresholds: a gain, a loss, in percent
    Windows,            \* DEFAULT_WINDOWS
    Decimals,           \* the prices considered
    Float,              \* float() of each
    Gain                \* the return from one float to another, in floats

INSTANCE Research

\* The prices of a frame.
Floats == {Float[p] : p \in Decimals}

\* float() rounds, but reverses no order; a positive price may become zero.
ASSUME FloatAssumption == /\ Decimals \subseteq Nat
                          /\ Float \in [Decimals -> Nat]
                          /\ \A p, q \in Decimals : p <= q => Float[p] <= Float[q]
                          /\ 0 \in Decimals => Float[0] = 0

\* Neither do the division and the subtraction of p / a - 1.0, and they keep
\* the sign of a gain: the quotient of a float and a smaller one exceeds 1 by
\* more than half of what separates 1.0 from the next float.
ASSUME GainAssumption ==
    /\ Gain \in [Floats \ {0} -> [Floats -> Int \X (Nat \ {0})]]
    /\ \A a \in Floats \ {0}, p \in Floats :
          /\ Gain[a][p][1] > 0 <=> p > a
          /\ \A q \in Floats : p <= q => AtMost(Gain[a][p], Gain[a][q])

Quotes == {s \in PriceSnapshot : s.price \in Decimals}

ASSUME FixturesAssumption == /\ Fixtures \subseteq Seq(Quotes)
                             /\ MetaToken \in Tokens /\ ObservedLiquidity \in Nat
                             /\ Qty \in Nat \ {0} /\ Rise \in Nat /\ Fall \in Nat
                             /\ Windows \subseteq Nat

\* None is neither a signal nor a return.
ASSUME NoneAssumption == /\ None \notin [kind : {"BUY", "SELL"}, price : Nat, ts : Nat]
                         /\ None \notin Int \X Int

VARIABLES
    snaps,      \* snapshots
    signal,     \* the signal of the strategy
    analysis,   \* the ListingAnalysis
    reports     \* what the output directory holds under the three names

runVars == <<orderVars, snaps, signal, analysis, reports>>

\* In the order they are written.
Reports == <<"analysis.json", "paper_run.json", "window_stats.csv">>

RunInit ==
    /\ OrderInit
    /\ snaps = <<>>
    /\ signal = None
    /\ analysis = None
    /\ reports = [i \in DOMAIN Reports |-> "old"]

-----------------------------------------------------------------------------
(* The strategy *)

\* Mutant: snapshots after the evaluation time are seen as well.
SeenWithFuture(f, listing, now) == {i \in DOMAIN f : f[i].ts >= listing}

\* Those that pass without_lookahead() and are not before the listing.
Seen(f, listing, now) == {i \in DOMAIN f : f[i].ts <= now /\ f[i].ts >= listing}

\* sorted() by timestamp is stable: among equals the order of the file stays.
Before(f, i, j) == f[i].ts < f[j].ts \/ (f[i].ts = f[j].ts /\ i <= j)

Earliest(f, I) == f[CHOOSE i \in I : \A j \in I : Before(f, i, j)]

Latest(f, I) == f[CHOOSE i \in I : \A j \in I : Before(f, j, i)]

\* generate(): None, or a signal at the last price seen.
SignalOf(f, listing, now) ==
    LET I == Seen(f, listing, now)
        first == Earliest(f, I).price
        last == Latest(f, I).price
        At(kind) == [kind |-> kind, price |-> last, ts |-> now]
    IN  IF \A i, j \in I : i = j THEN None
        ELSE IF first = 0 THEN None
        ELSE IF 100 * (last - first) >= Rise * first THEN At("BUY")
        ELSE IF 100 * (first - last) >= Fall * first THEN At("SELL")
        ELSE None

-----------------------------------------------------------------------------
(* The driver *)

Listing == snaps[1].ts

Now == snaps[4]

\* The fixture is read.  One that is too short fails with an IndexError.
Load(f) ==
    /\ snaps' = f
    /\ stage' = IF Len(f) < 4 THEN "failed" ELSE "loaded"
    /\ UNCHANGED <<order, market, portfolio, reason, fill, signal, analysis, reports>>

Analyse ==
    /\ stage = "loaded"
    /\ \/ stage' = "analysed" /\ analysis' \in Analyses(snaps, Listing, Now.ts)
       \/ /\ MayFail(snaps, Listing, Now.ts)
          /\ stage' = "failed" /\ UNCHANGED analysis
    /\ UNCHANGED <<order, market, portfolio, reason, fill, snaps, signal, reports>>

Generate ==
    /\ stage = "analysed"
    /\ signal' = SignalOf(snaps, Listing, Now.ts)
    /\ stage' = IF signal' = None THEN "done" ELSE "signalled"
    /\ UNCHANGED <<order, market, portfolio, reason, fill, snaps, analysis, reports>>

\* Mutant: no allowance for the slippage.
LimitFlat == signal.price * One * (One + Slip) * FracDen

\* signal.price * slip for a BUY, signal.price / slip for a SELL, with slip =
\* 1 + Slip / One.
Limit == IF signal.kind = "BUY" THEN signal.price * (One + Slip) * (One + Slip) * FracDen
                                ELSE signal.price * One * One * FracDen

\* The order, against an empty portfolio.  A limit of zero is refused by
\* PaperOrder's validator, and the exception ends the run.
DraftOrder ==
    /\ stage = "signalled"
    /\ IF Limit > 0
       THEN /\ stage' = "proposed"
            /\ order' = [side |-> signal.kind, qty |-> Qty, limit |-> Limit,
                         ts |-> signal.ts, token |-> MetaToken]
            /\ market' = Now
            /\ portfolio' = [position |-> 0, gross |-> 0, open |-> 0, drawdown |-> 0,
                             liquidity |-> ObservedLiquidity]
       ELSE stage' = "failed" /\ UNCHANGED <<order, market, portfolio>>
    /\ UNCHANGED <<reason, fill, snaps, signal, analysis, reports>>

Check == Evaluate /\ UNCHANGED <<snaps, signal, analysis, reports>>

SubmitPaper == Submit("paper") /\ UNCHANGED <<snaps, signal, analysis, reports>>

\* A file is written in place.  The run may end in the middle of it: the disk
\* is full, or the process is killed.
WriteReport(result) ==
    /\ stage \in {"done", "rejected", "filled"}
    /\ \E i \in DOMAIN Reports :
          /\ reports[i] = "old"
          /\ \A j \in 1..(i - 1) : reports[j] = "new"
          /\ reports' = [reports EXCEPT ![i] = result]
    /\ UNCHANGED <<orderVars, snaps, signal, analysis>>

RunNext ==
    \/ stage = "idle" /\ \E f \in Fixtures : Load(f)
    \/ Analyse
    \/ Generate
    \/ DraftOrder
    \/ Check
    \/ SubmitPaper
    \/ \E result \in {"new", "torn"} : WriteReport(result)

RunSpec == RunInit /\ [][RunNext]_runVars

-----------------------------------------------------------------------------
(* Properties *)

\* The snapshots of the analysis and the strategy.
InView == {i \in DOMAIN snaps : snaps[i].ts >= snaps[1].ts /\ snaps[i].ts <= snaps[4].ts}

\* Nothing observed after the evaluation time, or before the listing, has any
\* influence: the fixture without these rows allows the same analysis, gives
\* the same signal, and the order is of that time.
FutureDoesNotMatter ==
    stage \notin {"idle", "failed", "loaded"} =>
        LET now == snaps[4].ts
            kept == RowsAt(snaps, InView)
        IN  /\ stage = "analysed" /\ kept # snaps =>
                  analysis \in Analyses(kept, snaps[1].ts, now)
            /\ stage # "analysed" => signal = SignalOf(kept, snaps[1].ts, now)
            /\ order # None => order.ts = now

\* The drawdown of a window is the deepest fall from any price to a later one:
\* none is deeper, and it is reached.  (Between equal timestamps either order
\* may count.)
DrawdownIsWorstFall ==
    stage = "analysed" =>
        \A w \in Windows :
            LET I == {i \in InView : snaps[i].ts <= snaps[1].ts + w}
                d == analysis.windows[w].maxDrawdown
                Falls(Rel(_, _)) == {Change(FloatPrice(snaps[c[1]]), FloatPrice(snaps[c[2]])) :
                    c \in {x \in I \X I : Rel(snaps[x[1]].ts, snaps[x[2]].ts)
                                         /\ FloatPrice(snaps[x[1]]) > 0}}
            IN  IF d = None
                THEN Cardinality(I) < 2 \/ \A i \in I : FloatPrice(snaps[i]) = 0
                ELSE /\ \A f \in Falls(<) : AtMost(d, f)
                     /\ d[1] = 0 \/ d \in Falls(<=)

\* A wider window knows at least as much: it has every row of the narrower
\* one, so no statistic disappears and the drawdown only deepens.  And what a
\* statistic needs of the prices, the weaker ones need too.
StatisticsNest ==
    stage = "analysed" =>
        \A v, w \in Windows :
            LET a == analysis.windows[v]
                b == analysis.windows[w]
            IN  /\ v <= w =>
                      /\ a.observations <= b.observations
                      /\ a.simpleReturn # None => b.simpleReturn # None
                      /\ a.meanLiquidity[2] <= b.meanLiquidity[2]
                      /\ a.maxDrawdown # None =>
                            b.maxDrawdown # None /\ AtMost(b.maxDrawdown, a.maxDrawdown)
                /\ a.volatilityKnown => a.simpleReturn # None
                /\ a.simpleReturn # None => a.maxDrawdown # None

\* The candidate windows fit together: the entry is open from the listing to
\* the first gain, which comes no later than the exit and gains no more.
\* There is an entry exactly if the exit gains, and always if holding to the
\* end gains, although that is computed in another arithmetic.  (By how much
\* holding gains may exceed the exit's gain, by the rounding of the latter.)
CandidatesFit ==
    stage = "analysed" =>
        \A c, d \in analysis.candidates :
            /\ d.kind = "exit" =>
                  /\ d.value[1] > 0 <=> \E e \in analysis.candidates : e.kind = "entry"
                  /\ c.kind = "entry" => c.end <= d.end /\ c.value[1] > 0 /\ AtMost(c.value, d.value)
                  /\ c.kind = "holding" /\ c.value[1] > 0 => d.value[1] > 0
            /\ c.start <= c.end /\ c.start >= snaps[1].ts /\ c.end <= snaps[4].ts

\* float() gives the price itself.
Representable(row) == FloatPrice(row) = row.price

\* The return c of a holding is the one the strategy decided by.  (With
\* thresholds of zero a price that stays is a BUY.)
Decides(c) ==
    /\ signal # None /\ signal.kind = "BUY" <=> 100 * c[1] >= Rise * c[2]
    /\ signal # None /\ signal.kind = "SELL" <=> -100 * c[1] >= Fall * c[2] /\ 100 * c[1] < Rise * c[2]

\* One run tells one story, wherever the first and the last price in view are
\* the only ones of their instant.  The return of the holding candidate is
\* that of a window that reaches to the evaluation time.  The strategy, on
\* Decimals and with a sort of its own, decides by the same return if float()
\* gives both prices as they are; and if it rounds them, a BUY still never
\* stands beside a holding that loses, nor a SELL beside one that gains.
ReportsAgree ==
    LET first == Earliest(snaps, InView)
        last == Latest(snaps, InView)
    IN  stage \in {"done", "signalled"} /\ Cardinality(InView) >= 2
        /\ (\A i \in InView : snaps[i].ts = last.ts => snaps[i] = last)
        /\ (\A i \in InView : snaps[i].ts = Listing => snaps[i] = first) =>
            \E c \in analysis.candidates :
                /\ c.kind = "holding"
                /\ \A w \in Windows :
                      snaps[1].ts + w >= snaps[4].ts => analysis.windows[w].simpleReturn = c.value
                /\ Representable(first) /\ Representable(last) => Decides(c.value)
                /\ signal # None => IF signal.kind = "BUY" THEN c.value[1] >= 0 ELSE c.value[1] <= 0

\* A BUY is filled whenever the market can bear it: the limit covers the
\* slippage exactly.  Only a second snapshot of the same instant, later in the
\* file, can come between the signal's price and the market's.
BuyCoversSlippage ==
    stage = "rejected" /\ reason = "LIMIT_NOT_MET" =>
        \E i \in 5..Len(snaps) : snaps[i].ts = snaps[4].ts /\ snaps[i].price < snaps[4].price

\* The offline run starts without a position, so it never sells: whatever the
\* fixture, a SELL ends with the risk check.
NeverSellsShort ==
    order # None /\ order.side = "SELL" =>
        /\ stage \in {"proposed", "rejected"}
        /\ stage = "rejected" => reason = "SELL_EXCEEDS_POSITION"

\* "Limit allows configured paper slippage against observed market.price"
\* (demo.py, above the two limits): an order drafted at the market's own
\* price would pass the broker's limit check.
LimitAllowsSlippage ==
    stage = "proposed" /\ signal.price = market.price => LimitMet

=============================================================================
