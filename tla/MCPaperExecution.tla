--------------------------- MODULE MCPaperExecution ---------------------------
(* Orders, markets and portfolios on both sides of every limit.  A slippage   *)
(* of a quarter makes the fill price differ visibly from the market's.        *)
EXTENDS PaperExecution

CONSTANTS t1, t2

\* 10 units of limit are 2 * (1 + Slip): a price of 2 is just filled.
SomeOrders == [side : {"BUY", "SELL"}, qty : {1, 3},
               limit : {Money(1), 2 * (One + Slip) * (One + Slip) * FracDen},
               ts : {1}, token : {t1}]

SomeMarkets == [price : {0, 1, 2, 3}, ts : {1, 2}, liquidity : {None, 0, 2, 20},
                token : {t1, t2}] \cup {None}

SomePortfolios == [position : {0, Money(2), Money(4)}, gross : {0, Money(4)},
                   open : {0, MaxOpen}, drawdown : {0, MaxDrawdown + 1},
                   liquidity : {0, MinLiquidity}]
=============================================================================
