--------------------------- MODULE PaperExecution ---------------------------
(***************************************************************************)
(* The way of an order from the pre-trade checks (risk/checks.py) through  *)
(* the execution gateway (execution/gateway.py, safety.py) to the paper    *)
(* broker (execution/paper_broker.py).  The risk check values the order at *)
(* its limit price against a portfolio; the broker fills it later at the   *)
(* market's price plus slippage, capped by the market's liquidity.  Each   *)
(* of the two sees only part of the other's input.                         *)
(*                                                                         *)
(* Prices, quantities and liquidity are naturals.  A sum of money is kept  *)
(* in units of 1 / (One * (One + Slip) * FracDen), so that the prices the  *)
(* code computes by multiplying and dividing are integers.  A filled       *)
(* quantity is kept as its notional.  Decimal's rounding is not modelled.  *)
(***************************************************************************)
EXTENDS Integers, Sequences

CONSTANTS
    One, Slip,              \* slippage_bps: the fraction Slip / One
    FracNum, FracDen,       \* max_fill_liquidity_fraction
    MaxNotional, MaxPosition, MaxOpen, MaxDrawdown, MinLiquidity, \* RiskLimits
    Tokens,                 \* (chain, token_address) pairs
    Orders, Markets, Portfolios, \* what callers submit
    None

\* The ranges PaperBroker.__init__ enforces.
ASSUME BrokerAssumption == /\ One \in Nat \ {0} /\ Slip \in Nat
                           /\ FracDen \in Nat \ {0} /\ FracNum \in 1..FracDen
ASSUME LimitsAssumption == /\ MaxNotional \in Int /\ MaxPosition \in Int /\ MaxOpen \in Int
                           /\ MaxDrawdown \in Int /\ MinLiquidity \in Int

Money(x) == One * (One + Slip) * FracDen * x

\* A limit is in units of money.  PaperOrder's validators leave it and the
\* quantity positive.
PaperOrder == [side : {"BUY", "SELL"}, qty : Nat \ {0}, limit : Nat \ {0},
               ts : Nat, token : Tokens]

PriceSnapshot == [price : Nat, ts : Nat, liquidity : Nat \cup {None}, token : Tokens]

\* position and gross are sums of money.
PortfolioState == [position : Nat, gross : Nat, open : Nat, drawdown : Int, liquidity : Nat]

PaperFill == [price : Nat \ {0}, notional : Nat \ {0}, full : BOOLEAN]

ASSUME InputsAssumption == /\ None \notin PriceSnapshot /\ None \notin Nat
                           /\ Orders \subseteq PaperOrder
                           /\ Markets \subseteq PriceSnapshot \cup {None}
                           /\ Portfolios \subseteq PortfolioState

VARIABLES
    stage,      \* how far the order has come
    order,      \* the PaperOrder
    market,     \* the PriceSnapshot submitted with it, or None
    portfolio,  \* the PortfolioState it is checked against
    reason,     \* why it was rejected
    fill        \* the PaperFill

orderVars == <<stage, order, market, portfolio, reason, fill>>

-----------------------------------------------------------------------------
(* risk/checks.py *)

Notional == order.qty * order.limit

\* Mutant: only the new order is compared with the limit on the position.
BuyObjectionsForgetful ==
    <<[fails |-> Notional > Money(MaxPosition), why |-> "MAX_POSITION_SIZE"],
      [fails |-> portfolio.gross + Notional > Money(MaxNotional), why |-> "MAX_NOTIONAL"],
      [fails |-> portfolio.open >= MaxOpen, why |-> "MAX_OPEN_POSITIONS"],
      [fails |-> portfolio.drawdown > MaxDrawdown, why |-> "MAX_DRAWDOWN"],
      [fails |-> portfolio.liquidity < MinLiquidity, why |-> "INSUFFICIENT_LIQUIDITY"]>>

\* The checks in the order they are made: the first that fails is reported.
BuyObjections ==
    <<[fails |-> portfolio.position + Notional > Money(MaxPosition), why |-> "MAX_POSITION_SIZE"],
      [fails |-> portfolio.gross + Notional > Money(MaxNotional), why |-> "MAX_NOTIONAL"],
      [fails |-> portfolio.open >= MaxOpen, why |-> "MAX_OPEN_POSITIONS"],
      [fails |-> portfolio.drawdown > MaxDrawdown, why |-> "MAX_DRAWDOWN"],
      [fails |-> portfolio.liquidity < MinLiquidity, why |-> "INSUFFICIENT_LIQUIDITY"]>>

\* Mutant: a sale needs no position.
SellObjectionsForgetful ==
    <<[fails |-> portfolio.liquidity < MinLiquidity, why |-> "INSUFFICIENT_LIQUIDITY"]>>

SellObjections ==
    <<[fails |-> Notional > portfolio.position, why |-> "SELL_EXCEEDS_POSITION"],
      [fails |-> portfolio.liquidity < MinLiquidity, why |-> "INSUFFICIENT_LIQUIDITY"]>>

First(objections) ==
    objections[CHOOSE i \in DOMAIN objections :
                  /\ objections[i].fails
                  /\ \A j \in 1..i - 1 : ~objections[j].fails].why

\* evaluate().  PaperOrder's validators leave nothing for INVALID_ORDER.
Evaluate ==
    /\ stage = "proposed"
    /\ LET objections == IF order.side = "SELL" THEN SellObjections ELSE BuyObjections
       IN  IF \E i \in DOMAIN objections : objections[i].fails
           THEN stage' = "rejected" /\ reason' = First(objections)
           ELSE stage' = "accepted" /\ UNCHANGED reason
    /\ UNCHANGED <<order, market, portfolio, fill>>

-----------------------------------------------------------------------------
(* execution/paper_broker.py *)

\* Mutant: slippage in the buyer's favour.
FillPriceFavourable ==
    (IF order.side = "BUY" THEN One - Slip ELSE One + Slip) * (One + Slip) * FracDen * market.price

\* The market's price, worse by the slippage.  A sale may come out negative.
FillPrice ==
    (IF order.side = "BUY" THEN One + Slip ELSE One - Slip) * (One + Slip) * FracDen * market.price

LimitMet == IF order.side = "BUY" THEN FillPrice <= order.limit ELSE FillPrice >= order.limit

\* What the broker may fill at most.
Fillable == IF market.liquidity = None THEN 0
            ELSE One * (One + Slip) * FracNum * market.liquidity

\* Mutant: an order the market cannot bear is filled in full.
FilledNotionalMax == IF Fillable > order.qty * FillPrice THEN Fillable ELSE order.qty * FillPrice

\* min(requested_qty, max_qty), valued at the fill price.
FilledNotional == IF Fillable < order.qty * FillPrice THEN Fillable ELSE order.qty * FillPrice

Refuse(why) ==
    /\ stage' = "rejected"
    /\ reason' = why
    /\ UNCHANGED fill

\* A snapshot the order cannot be filled against.
RefuseMarket ==
    \/ market = None /\ Refuse("INSUFFICIENT_LIQUIDITY")
    \/ market # None /\ market.ts > order.ts /\ Refuse("LOOKAHEAD_FORBIDDEN")
    \/ market # None /\ market.ts <= order.ts /\ market.token # order.token
                     /\ Refuse("MARKET_MISMATCH")

\* Mutant: a snapshot of another token will do.
UsableAnyToken == market # None /\ market.ts <= order.ts

Usable == market # None /\ market.ts <= order.ts /\ market.token = order.token

RefusePrice ==
    \/ ~LimitMet /\ Refuse("LIMIT_NOT_MET")
    \/ LimitMet /\ FillPrice <= 0 /\ Refuse("INVALID_ORDER")
    \/ LimitMet /\ FillPrice > 0 /\ Fillable <= 0 /\ Refuse("INSUFFICIENT_LIQUIDITY")

\* A fill, in full or in part.
Fill ==
    /\ LimitMet /\ FillPrice > 0 /\ Fillable > 0
    /\ stage' = "filled"
    /\ fill' = [price |-> FillPrice, notional |-> FilledNotional,
                full |-> Fillable >= order.qty * FillPrice]
    /\ UNCHANGED reason

\* fill()
BrokerFill ==
    \/ RefuseMarket
    \/ Usable /\ (RefusePrice \/ Fill)

-----------------------------------------------------------------------------
(* execution/gateway.py *)

\* submit(): any mode but paper, known or not, raises before the broker runs.
Submit(mode) ==
    /\ stage = "accepted"
    /\ IF mode = "paper"
       THEN BrokerFill
       ELSE stage' = "forbidden" /\ UNCHANGED <<reason, fill>>
    /\ UNCHANGED <<order, market, portfolio>>

-----------------------------------------------------------------------------

OrderInit ==
    /\ stage = "idle"
    /\ order = None
    /\ market = None
    /\ portfolio = None
    /\ reason = None
    /\ fill = None

\* A caller makes an order of its own accord.
Propose(o, m, p) ==
    /\ stage' = "proposed"
    /\ order' = o /\ market' = m /\ portfolio' = p
    /\ UNCHANGED <<reason, fill>>

OrderNext ==
    \/ /\ stage = "idle"
       /\ \E o \in Orders, m \in Markets, p \in Portfolios : Propose(o, m, p)
    \/ Evaluate
    \/ \E mode \in {"paper", "live", "unknown"} : Submit(mode)

OrderSpec == OrderInit /\ [][OrderNext]_orderVars

-----------------------------------------------------------------------------
(* Properties *)

Stages == {"idle", "proposed", "accepted", "rejected", "forbidden", "filled"}

OrderTypeOK ==
    /\ stage \in Stages
    /\ stage # "idle" => /\ order \in PaperOrder
                         /\ market \in PriceSnapshot \cup {None}
                         /\ portfolio \in PortfolioState
    /\ stage = "filled" => market # None /\ fill \in PaperFill

\* What the risk check promised about the limit price holds for the fill at
\* the price and size the broker chose: a filled BUY leaves the position and
\* the gross exposure within the limits.
LimitsKept ==
    stage = "filled" /\ order.side = "BUY" =>
        /\ portfolio.position + fill.notional <= Money(MaxPosition)
        /\ portfolio.gross + fill.notional <= Money(MaxNotional)
        /\ portfolio.open < MaxOpen
        /\ portfolio.drawdown <= MaxDrawdown

\* A fill takes at most its share of the liquidity seen in the market, never
\* more than was ordered, and is reported as full exactly when it is.
LiquidityRespected ==
    stage = "filled" =>
        /\ market.liquidity # None
        /\ FracDen * fill.notional <= FracNum * Money(market.liquidity)
        /\ fill.notional <= order.qty * fill.price
        /\ fill.full <=> fill.notional = order.qty * fill.price

\* A fill is never better than the market: it rests on a snapshot of the same
\* token seen no later than the signal, and the slippage is against the order.
FillIsHonest ==
    stage = "filled" =>
        /\ market.token = order.token
        /\ market.ts <= order.ts
        /\ order.side = "BUY" => Money(market.price) <= fill.price /\ fill.price <= order.limit
        /\ order.side = "SELL" => order.limit <= fill.price /\ fill.price <= Money(market.price)

=============================================================================
