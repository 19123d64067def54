-------------------------- MODULE OfflineRunProofs --------------------------
(***************************************************************************)
(* Proofs about PaperExecution, for every limit, price, slippage, fraction *)
(* and order; and about OfflineRun, for every fixture, threshold and set   *)
(* of windows: where its order comes from and how it ends, and what the    *)
(* analysis and the strategy make of the rows in view.                     *)
(***************************************************************************)
EXTENDS OfflineRun, FiniteSetTheorems, TLAPS

-----------------------------------------------------------------------------
(* One order *)

\* What acceptance of a BUY establishes.
Approved ==
    stage \in {"accepted", "filled"} /\ order.side = "BUY" =>
        /\ portfolio.position + Notional <= Money(MaxPosition)
        /\ portfolio.gross + Notional <= Money(MaxNotional)
        /\ portfolio.open < MaxOpen
        /\ portfolio.drawdown <= MaxDrawdown

\* What the broker had checked when it filled.
Executed ==
    stage = "filled" =>
        /\ Usable /\ LimitMet /\ FillPrice > 0 /\ Fillable > 0
        /\ fill = [price |-> FillPrice, notional |-> FilledNotional,
                   full |-> Fillable >= order.qty * FillPrice]

OrderInv == OrderTypeOK /\ Approved /\ Executed

-----------------------------------------------------------------------------
(* Arithmetic *)

LEMMA ProductIsNat ==
  \A a, b \in Nat : a * b \in Nat /\ (a > 0 /\ b > 0 => a * b > 0)
OBVIOUS

LEMMA ProductIsInt == \A a, b \in Int : a * b \in Int
OBVIOUS

LEMMA ProductGrows ==
  \A a \in Nat, b, c \in Int : b <= c => a * b <= a * c
OBVIOUS

-----------------------------------------------------------------------------
(* The types of what the broker computes *)

LEMMA PricesAreIntegers ==
  ASSUME order \in PaperOrder, market \in PriceSnapshot
  PROVE  FillPrice \in Int /\ Fillable \in Nat /\ order.qty * FillPrice \in Int
  <1>1. /\ order.qty \in Nat /\ order.side \in {"BUY", "SELL"} /\ market.price \in Nat
        /\ market.liquidity \in Nat \cup {None}
    BY DEF PaperOrder, PriceSnapshot
  <1>2. /\ One \in Nat /\ Slip \in Nat /\ FracDen \in Nat /\ FracNum \in Nat
    BY BrokerAssumption
  <1>3. One + Slip \in Nat /\ One - Slip \in Int
    BY <1>2
  <1>4. FillPrice \in Int
    <2> DEFINE s == IF order.side = "BUY" THEN One + Slip ELSE One - Slip
    <2>1. s \in Int
      BY <1>3
    <2>2. s * (One + Slip) \in Int
      BY <2>1, <1>3, ProductIsInt
    <2>3. s * (One + Slip) * FracDen \in Int
      BY <2>2, <1>2, ProductIsInt
    <2>4. s * (One + Slip) * FracDen * market.price \in Int
      BY <2>3, <1>1, ProductIsInt
    <2> QED
      BY <2>4 DEF FillPrice
  <1>5. Fillable \in Nat
    <2>1. CASE market.liquidity = None
      BY <2>1 DEF Fillable
    <2>2. CASE market.liquidity # None
      <3>1. One * (One + Slip) \in Nat
        BY <1>2, <1>3, ProductIsNat
      <3>2. One * (One + Slip) * FracNum \in Nat
        BY <3>1, <1>2, ProductIsNat
      <3>3. One * (One + Slip) * FracNum * market.liquidity \in Nat
        BY <3>2, <1>1, <2>2, ProductIsNat
      <3> QED
        BY <3>3, <2>2 DEF Fillable
    <2> QED
      BY <2>1, <2>2
  <1> QED
    BY <1>1, <1>4, <1>5, ProductIsInt

LEMMA FillIsTyped ==
  ASSUME order \in PaperOrder, market \in PriceSnapshot, FillPrice > 0, Fillable > 0
  PROVE  [price |-> FillPrice, notional |-> FilledNotional,
          full |-> Fillable >= order.qty * FillPrice] \in PaperFill
  <1>1. FillPrice \in Nat \ {0} /\ Fillable \in Nat \ {0}
    BY PricesAreIntegers
  <1>2. order.qty \in Nat \ {0}
    BY DEF PaperOrder
  <1>3. order.qty * FillPrice \in Nat \ {0}
    BY <1>1, <1>2, ProductIsNat
  <1>4. FilledNotional \in Nat \ {0}
    BY <1>1, <1>3 DEF FilledNotional
  <1>5. (Fillable >= order.qty * FillPrice) \in BOOLEAN
    OBVIOUS
  <1> QED
    BY <1>1, <1>4, <1>5 DEF PaperFill

-----------------------------------------------------------------------------
(* The inductive invariant *)

LEMMA EvaluateKeeps ==
  ASSUME OrderInv, Evaluate
  PROVE  OrderInv'
  <1> DEFINE objections == IF order.side = "SELL" THEN SellObjections ELSE BuyObjections
  <1>1. OrderTypeOK'
    BY DEF OrderInv, OrderTypeOK, Evaluate, Stages
  <1>2. Approved'
    <2> SUFFICES ASSUME stage' \in {"accepted", "filled"}, order'.side = "BUY"
                 PROVE  /\ portfolio.position + Notional <= Money(MaxPosition)
                        /\ portfolio.gross + Notional <= Money(MaxNotional)
                        /\ portfolio.open < MaxOpen
                        /\ portfolio.drawdown <= MaxDrawdown
      BY DEF Approved, Evaluate, Notional
    <2>1. \A i \in DOMAIN BuyObjections : ~BuyObjections[i].fails
      BY DEF Evaluate
    <2>2. /\ ~(portfolio.position + Notional > Money(MaxPosition))
          /\ ~(portfolio.gross + Notional > Money(MaxNotional))
          /\ ~(portfolio.open >= MaxOpen)
          /\ ~(portfolio.drawdown > MaxDrawdown)
      <3>1. ~BuyObjections[1].fails /\ ~BuyObjections[2].fails
            /\ ~BuyObjections[3].fails /\ ~BuyObjections[4].fails
        BY <2>1 DEF BuyObjections
      <3> QED
        BY <3>1 DEF BuyObjections
    <2>3. order \in PaperOrder /\ portfolio \in PortfolioState
      BY DEF OrderInv, OrderTypeOK, Evaluate
    <2>4. /\ portfolio.position \in Int /\ portfolio.gross \in Int
          /\ portfolio.open \in Int /\ portfolio.drawdown \in Int
      BY <2>3 DEF PortfolioState
    <2>5. Notional \in Int
      <3>1. order.qty \in Int /\ order.limit \in Int
        BY <2>3 DEF PaperOrder
      <3> QED
        BY <3>1, ProductIsInt DEF Notional
    <2>6. Money(MaxPosition) \in Int /\ Money(MaxNotional) \in Int
      BY BrokerAssumption, LimitsAssumption, ProductIsInt DEF Money
    <2> QED
      BY <2>2, <2>4, <2>5, <2>6, LimitsAssumption
  <1>3. Executed'
    BY DEF Executed, Evaluate
  <1> QED
    BY <1>1, <1>2, <1>3 DEF OrderInv

LEMMA SubmitKeeps ==
  ASSUME OrderInv, NEW mode, Submit(mode)
  PROVE  OrderInv'
  <1>0. /\ stage = "accepted" /\ order' = order /\ market' = market /\ portfolio' = portfolio
        /\ order \in PaperOrder /\ market \in PriceSnapshot \cup {None}
        /\ portfolio \in PortfolioState
    BY DEF Submit, OrderInv, OrderTypeOK
  <1>1. CASE stage' \in {"forbidden", "rejected"}
    <2>1. OrderTypeOK'
      BY <1>0, <1>1 DEF OrderTypeOK, Stages
    <2>2. Approved' /\ Executed'
      BY <1>1 DEF Approved, Executed
    <2> QED
      BY <2>1, <2>2 DEF OrderInv
  <1>2. CASE Usable /\ Fill
    <2>1. market \in PriceSnapshot
      BY <1>0, <1>2 DEF Usable
    <2>2. fill' \in PaperFill
      BY <1>0, <1>2, <2>1, FillIsTyped DEF Fill
    <2>3. OrderTypeOK'
      BY <1>0, <1>2, <2>1, <2>2 DEF OrderTypeOK, Stages, Fill, Usable
    <2>4. Approved'
      BY <1>0 DEF OrderInv, Approved, Notional
    <2>5. Executed'
      BY <1>0, <1>2 DEF Executed, Usable, Fill, LimitMet, FillPrice, Fillable, FilledNotional
    <2> QED
      BY <2>3, <2>4, <2>5 DEF OrderInv
  <1> QED
    BY <1>1, <1>2 DEF Submit, BrokerFill, RefuseMarket, RefusePrice, Refuse

LEMMA ProposeKeeps ==
  ASSUME OrderInv, stage = "idle",
         NEW o \in Orders, NEW m \in Markets, NEW p \in Portfolios, Propose(o, m, p)
  PROVE  OrderInv'
  BY InputsAssumption DEF OrderInv, OrderTypeOK, Stages, Approved, Executed, Propose

\* The invariant the theorems about one order rest on: types, what acceptance
\* established (Approved) and what the broker had checked (Executed).
THEOREM OrderInvariance == OrderSpec => []OrderInv
<1>1. OrderInit => OrderInv
  BY DEF OrderInit, OrderInv, OrderTypeOK, Stages, Approved, Executed
<1>2. OrderInv /\ [OrderNext]_orderVars => OrderInv'
  <2> SUFFICES ASSUME OrderInv, [OrderNext]_orderVars
               PROVE  OrderInv'
    OBVIOUS
  <2>1. ASSUME stage = "idle",
               NEW o \in Orders, NEW m \in Markets, NEW p \in Portfolios, Propose(o, m, p)
        PROVE  OrderInv'
    BY <2>1, ProposeKeeps
  <2>2. CASE Evaluate
    BY <2>2, EvaluateKeeps
  <2>3. ASSUME NEW mode, Submit(mode)
        PROVE  OrderInv'
    BY <2>3, SubmitKeeps
  <2>4. CASE UNCHANGED orderVars
    BY <2>4 DEF orderVars, OrderInv, OrderTypeOK, Approved, Executed, Notional, Usable,
                LimitMet, FillPrice, Fillable, FilledNotional
  <2> QED
    BY <2>1, <2>2, <2>3, <2>4 DEF OrderNext
<1> QED
  BY <1>1, <1>2, PTL DEF OrderSpec

-----------------------------------------------------------------------------
(* What follows *)

\* The records keep their types; in particular no fill has a price or a size
\* that is not positive.
THEOREM OrderTypeCorrect == OrderSpec => []OrderTypeOK
  BY OrderInvariance, PTL DEF OrderInv

LEMMA LimitsFollow == OrderInv => LimitsKept
  <1> SUFFICES ASSUME OrderInv, stage = "filled", order.side = "BUY"
               PROVE  /\ portfolio.position + fill.notional <= Money(MaxPosition)
                      /\ portfolio.gross + fill.notional <= Money(MaxNotional)
                      /\ portfolio.open < MaxOpen
                      /\ portfolio.drawdown <= MaxDrawdown
    BY DEF LimitsKept
  <1>1. order \in PaperOrder /\ market \in PriceSnapshot /\ portfolio \in PortfolioState
    BY DEF OrderInv, OrderTypeOK
  <1>2. FillPrice <= order.limit /\ fill.notional = FilledNotional
    BY DEF OrderInv, Executed, LimitMet
  <1>3. FillPrice \in Int /\ Fillable \in Int /\ order.qty * FillPrice \in Int
    BY <1>1, PricesAreIntegers
  <1>4. order.qty \in Nat /\ order.limit \in Int
    BY <1>1 DEF PaperOrder
  <1>5. order.qty * FillPrice <= Notional /\ Notional \in Int
    BY <1>2, <1>3, <1>4, ProductGrows, ProductIsInt DEF Notional
  <1>6. FilledNotional \in Int /\ FilledNotional <= order.qty * FillPrice
    BY <1>3 DEF FilledNotional
  <1>7. fill.notional \in Int /\ fill.notional <= Notional
    BY <1>2, <1>3, <1>5, <1>6
  <1>8. portfolio.position \in Int /\ portfolio.gross \in Int
    BY <1>1 DEF PortfolioState
  <1>9. Money(MaxPosition) \in Int /\ Money(MaxNotional) \in Int
    BY BrokerAssumption, LimitsAssumption, ProductIsInt DEF Money
  <1>10. /\ portfolio.position + Notional <= Money(MaxPosition)
         /\ portfolio.gross + Notional <= Money(MaxNotional)
         /\ portfolio.open < MaxOpen
         /\ portfolio.drawdown <= MaxDrawdown
    BY DEF OrderInv, Approved
  <1> QED
    BY <1>5, <1>7, <1>8, <1>9, <1>10

\* The limits the risk check compared with the limit price hold for the fill,
\* whatever the slippage and however little of the order the market bears.
THEOREM LimitsCorrect == OrderSpec => []LimitsKept
  BY LimitsFollow, OrderInvariance, PTL

LEMMA LiquidityFollows == OrderInv => LiquidityRespected
  <1> SUFFICES ASSUME OrderInv, stage = "filled"
               PROVE  LiquidityRespected
    BY DEF LiquidityRespected
  <1>1. order \in PaperOrder /\ market \in PriceSnapshot
    BY DEF OrderInv, OrderTypeOK
  <1>2. /\ Fillable > 0
        /\ fill.price = FillPrice /\ fill.notional = FilledNotional
        /\ fill.full = (Fillable >= order.qty * FillPrice)
    BY DEF OrderInv, Executed
  <1>3. Fillable \in Int /\ order.qty * FillPrice \in Int
    BY <1>1, PricesAreIntegers
  <1>4. market.liquidity # None /\ market.liquidity \in Nat
    BY <1>1, <1>2 DEF Fillable, PriceSnapshot
  <1>5. FracDen * Fillable = FracNum * Money(market.liquidity)
    <2>1. Fillable = One * (One + Slip) * FracNum * market.liquidity
      BY <1>4 DEF Fillable
    <2> QED
      BY <2>1, <1>4, BrokerAssumption DEF Money
  <1>6. FilledNotional \in Int /\ FilledNotional <= Fillable
        /\ FilledNotional <= order.qty * FillPrice
        /\ (Fillable >= order.qty * FillPrice <=> FilledNotional = order.qty * FillPrice)
    BY <1>3 DEF FilledNotional
  <1>7. FracDen * FilledNotional <= FracDen * Fillable
    BY <1>3, <1>6, ProductGrows, BrokerAssumption
  <1> QED
    BY <1>2, <1>4, <1>5, <1>6, <1>7 DEF LiquidityRespected

\* A fill takes at most its share of the market's liquidity, never more than
\* was ordered, and says truly whether it is full.
THEOREM LiquidityCorrect == OrderSpec => []LiquidityRespected
  BY LiquidityFollows, OrderInvariance, PTL

LEMMA Slippage ==
  ASSUME order \in PaperOrder, market \in PriceSnapshot
  PROVE  /\ order.side = "BUY" => Money(market.price) <= FillPrice
         /\ order.side = "SELL" => FillPrice <= Money(market.price)
  <1> DEFINE k == (One + Slip) * (FracDen * market.price)
  <1>1. One \in Nat /\ Slip \in Nat /\ FracDen \in Nat /\ market.price \in Nat
    BY BrokerAssumption DEF PriceSnapshot
  <1>2. k \in Nat
    BY <1>1, ProductIsNat
  <1>3. Money(market.price) = One * k
    BY <1>1 DEF Money
  <1>4. /\ order.side = "BUY" => FillPrice = (One + Slip) * k
        /\ order.side = "SELL" => FillPrice = (One - Slip) * k
    <2>1. One + Slip \in Int /\ One - Slip \in Int
      BY <1>1
    <2>2. \A s \in Int : s * (One + Slip) * FracDen * market.price = s * k
      BY <1>1
    <2> QED
      BY <2>1, <2>2 DEF FillPrice
  <1>5. One * k <= (One + Slip) * k /\ (One - Slip) * k <= One * k
    <2> HIDE DEF k
    <2>1. \A a, b \in Int : a <= b => a * k <= b * k
      BY <1>2
    <2> QED
      BY <2>1, <1>1
  <1> QED
    BY <1>3, <1>4, <1>5

LEMMA HonestyFollows == OrderInv => FillIsHonest
  <1> SUFFICES ASSUME OrderInv, stage = "filled"
               PROVE  FillIsHonest
    BY DEF FillIsHonest
  <1>1. order \in PaperOrder /\ market \in PriceSnapshot
    BY DEF OrderInv, OrderTypeOK
  <1>2. Usable /\ LimitMet /\ fill.price = FillPrice
    BY DEF OrderInv, Executed
  <1> QED
    BY <1>1, <1>2, Slippage DEF FillIsHonest, Usable, LimitMet, PaperOrder

\* A fill rests on a snapshot of its own token, seen no later than the signal,
\* and its price lies between the market's and the limit.
THEOREM HonestCorrect == OrderSpec => []FillIsHonest
  BY HonestyFollows, OrderInvariance, PTL

-----------------------------------------------------------------------------
(* The offline run: what its order comes from *)

LEMMA NatLeast == \A S \in SUBSET Nat : S # {} => \E x \in S : \A y \in S : x <= y
  <1> DEFINE R == {p \in Nat \X Nat : p[1] < p[2]}
  <1>1. R = OpToRel(<, Nat)
    BY DEF OpToRel
  <1>2. IsWellFoundedOn(R, Nat)
    BY <1>1, NatLessThanWellFounded, Zenon
  <1>3. \A a, b \in Nat : <<a, b>> \notin R => b <= a
    OBVIOUS
  <1> HIDE DEF R
  <1> TAKE S \in SUBSET Nat
  <1> HAVE S # {}
  <1>4. PICK x \in S : \A y \in S : <<y, x>> \notin R
    BY <1>2, WFMin, Zenon
  <1> QED
    BY <1>3, <1>4

LEMMA Greatest ==
  ASSUME NEW b \in Nat, NEW S \in SUBSET (0..b), S # {}
  PROVE  \E x \in S : \A y \in S : y <= x
  <1> DEFINE T == {b - x : x \in S}
  <1>1. T \in SUBSET Nat /\ T # {}
    <2>1. \A x \in S : b - x \in Nat
      OBVIOUS
    <2> QED
      BY <2>1
  <1>2. PICK d \in T : \A e \in T : d <= e
    BY <1>1, NatLeast
  <1>3. PICK x \in S : d = b - x
    BY <1>2
  <1>4. \A y \in S : y <= x
    <2> TAKE y \in S
    <2>1. b - x <= b - y /\ x \in 0..b /\ y \in 0..b
      BY <1>2, <1>3
    <2> QED
      BY <2>1
  <1> QED
    BY <1>4

\* sorted() leaves one of the rows seen as the last.
LEMMA LatestExists ==
  ASSUME NEW f \in Seq(Quotes), NEW now \in Nat, NEW I \in SUBSET DOMAIN f, I # {},
         \A i \in I : f[i].ts <= now
  PROVE  \E i \in I : \A j \in I : Before(f, j, i)
  <1>0. \A i \in I : f[i].ts \in 0..now /\ i \in 0..Len(f)
    <2> TAKE i \in I
    <2>1. i \in 1..Len(f) /\ f[i] \in PriceSnapshot /\ f[i].ts <= now
      BY DEF Quotes
    <2>2. f[i].ts \in Nat
      BY <2>1 DEF PriceSnapshot
    <2> QED
      BY <2>1, <2>2
  <1> DEFINE T == {f[i].ts : i \in I}
  <1>1. T \in SUBSET (0..now) /\ T # {}
    BY <1>0
  <1>2. PICK t \in T : \A u \in T : u <= t
    BY <1>1, Greatest
  <1> DEFINE J == {i \in I : f[i].ts = t}
  <1>3. J \in SUBSET (0..Len(f)) /\ J # {} /\ Len(f) \in Nat
    BY <1>0, <1>2
  <1>4. PICK i \in J : \A j \in J : j <= i
    BY <1>3, Greatest
  <1>5. \A j \in I : f[j].ts \in Nat /\ f[j].ts <= t /\ t \in Nat
    BY <1>0, <1>2
  <1>6. \A j \in I : Before(f, j, i)
    BY <1>4, <1>5 DEF Before
  <1> QED
    BY <1>4, <1>6

\* The price of a signal is that of "now", or of a later row of that instant.
LEMMA SignalIsOfNow ==
  ASSUME snaps \in Seq(Quotes), Len(snaps) >= 4,
         signal = SignalOf(snaps, Listing, Now.ts), signal # None
  PROVE  /\ signal.kind \in {"BUY", "SELL"} /\ signal.ts = Now.ts
         /\ \E i \in 4..Len(snaps) : snaps[i].ts = Now.ts /\ signal.price = snaps[i].price
  <1> DEFINE I == Seen(snaps, Listing, Now.ts)
             At(kind) == [kind |-> kind, price |-> Latest(snaps, I).price, ts |-> Now.ts]
  <1>1. /\ \A i \in DOMAIN snaps : snaps[i] \in PriceSnapshot /\ snaps[i].ts \in Nat
        /\ DOMAIN snaps = 1..Len(snaps) /\ Len(snaps) \in Nat
    <2>1. \A x \in PriceSnapshot : x.ts \in Nat
      BY DEF PriceSnapshot
    <2>2. \A i \in 1..Len(snaps) : snaps[i] \in PriceSnapshot
      BY DEF Quotes
    <2> QED
      BY <2>1, <2>2
  <1>2. Listing \in Nat /\ Now.ts \in Nat /\ 4 \in DOMAIN snaps /\ snaps[4] = Now
    BY <1>1 DEF Listing, Now
  <1>3. signal \in {At("BUY"), At("SELL")} /\ I # {}
    BY DEF SignalOf
  <1>4. I \in SUBSET DOMAIN snaps /\ \A i \in I : snaps[i].ts <= Now.ts /\ snaps[i].ts >= Listing
    BY DEF Seen
  <1>5. 4 \in I
    BY <1>1, <1>2, <1>3, <1>4 DEF Seen
  <1>6. PICK i \in I : /\ \A j \in I : Before(snaps, j, i)
                       /\ Latest(snaps, I) = snaps[i]
    <2> HIDE DEF I
    <2>1. \E i \in I : \A j \in I : Before(snaps, j, i)
      BY <1>2, <1>3, <1>4, LatestExists
    <2> QED
      BY <2>1 DEF Latest
  <1>7. Before(snaps, 4, i)
    BY <1>5, <1>6
  <1>8. i \in 4..Len(snaps) /\ snaps[i].ts = Now.ts
    BY <1>1, <1>2, <1>4, <1>6, <1>7 DEF Before
  <1>9. signal.price = snaps[i].price
    BY <1>3, <1>6
  <1> QED
    BY <1>3, <1>8, <1>9

-----------------------------------------------------------------------------
(* The offline run: its invariant *)

Orderless == {"idle", "failed", "loaded", "analysed", "signalled", "done"}

Drafted == {"proposed", "accepted", "rejected", "filled"}

\* How far the run is, and what it has by then.
Progress ==
    /\ stage \in Orderless \cup Drafted
    /\ snaps \in Seq(Quotes)
    /\ stage \notin {"idle", "failed"} => Len(snaps) >= 4
    /\ stage \in Orderless => order = None
    /\ stage \in Drafted \cup {"signalled"} =>
          signal # None /\ signal = SignalOf(snaps, Listing, Now.ts)

\* The order is that of the signal, and its portfolio is empty.
FromSignal ==
    stage \in Drafted =>
        /\ order = [side |-> signal.kind, qty |-> Qty, limit |-> Limit,
                    ts |-> signal.ts, token |-> MetaToken]
        /\ market = Now
        /\ portfolio.position = 0

\* How its way ends.
Endings ==
    /\ stage \in Drafted => OrderInv
    /\ stage \in {"accepted", "filled"} => order.side = "BUY"
    /\ stage = "rejected" /\ order.side = "SELL" => reason = "SELL_EXCEEDS_POSITION"
    /\ stage = "rejected" /\ reason = "LIMIT_NOT_MET" => ~LimitMet

OrderedRun == Progress /\ FromSignal /\ Endings

\* What is in the output directory.
InOutput == reports \in [DOMAIN Reports -> {"old", "new", "torn"}]

RunInv == OrderedRun /\ InOutput

\* A step of the run that leaves the order alone, before there is one.
LEMMA EarlyStepKeeps ==
  ASSUME OrderedRun, RunNext, stage' \in Orderless
  PROVE  OrderedRun'
  <1>1. order' = order /\ stage' \notin Drafted /\ order = None
    <2>1. stage \in Orderless /\ UNCHANGED order
      BY DEF OrderedRun, Progress, RunNext, Load, Analyse, Generate, DraftOrder, Check, Evaluate,
             SubmitPaper, Submit, BrokerFill, RefuseMarket, RefusePrice, Refuse, Fill, WriteReport,
             orderVars, Orderless, Drafted
    <2> QED
      BY <2>1 DEF OrderedRun, Progress, Orderless, Drafted
  <1>2. snaps' \in Seq(Quotes) /\ (stage' \notin {"idle", "failed"} => Len(snaps') >= 4)
    <2>1. ASSUME NEW f \in Fixtures, Load(f)
          PROVE  snaps' \in Seq(Quotes) /\ (stage' # "failed" => Len(snaps') >= 4)
      <3>1. f \in Seq(Quotes) /\ Len(f) \in Nat
        BY FixturesAssumption
      <3> QED
        BY <2>1, <3>1 DEF Load
    <2>2. ASSUME UNCHANGED snaps, stage \notin {"idle", "failed"}
          PROVE  snaps' \in Seq(Quotes) /\ Len(snaps') >= 4
      BY <2>2 DEF OrderedRun, Progress
    <2>3. (\E f \in Fixtures : Load(f)) \/ (UNCHANGED snaps /\ stage \notin {"idle", "failed"})
      BY DEF RunNext, Analyse, Generate, DraftOrder, Check, Evaluate,
             SubmitPaper, Submit, WriteReport
    <2> QED
      BY <2>1, <2>2, <2>3
  <1>3. stage' = "signalled" => signal' # None /\ signal' = (SignalOf(snaps, Listing, Now.ts))'
    BY DEF RunNext, Load, Analyse, Generate, DraftOrder, Check, Evaluate, SubmitPaper, Submit,
           BrokerFill, RefuseMarket, RefusePrice, Refuse, Fill, WriteReport, orderVars,
           Listing, Now
  <1>4. Progress'
    BY <1>1, <1>2, <1>3 DEF Progress
  <1>5. FromSignal'
    BY <1>1 DEF FromSignal
  <1>6. Endings'
    BY <1>1 DEF Endings, Drafted
  <1> QED
    BY <1>4, <1>5, <1>6 DEF OrderedRun

LEMMA LimitIsTyped ==
  ASSUME NEW x \in Nat, signal.price = x, Limit > 0
  PROVE  Limit \in Nat \ {0}
  <1>1. One \in Nat /\ One + Slip \in Nat /\ FracDen \in Nat
    BY BrokerAssumption
  <1>2. \A a \in Nat : signal.price * a * a * FracDen \in Nat
    BY <1>1, ProductIsNat
  <1>3. Limit \in Nat
    BY <1>1, <1>2 DEF Limit
  <1> QED
    BY <1>3

LEMMA DraftKeeps ==
  ASSUME OrderedRun, DraftOrder
  PROVE  OrderedRun'
  <1>1. CASE stage' = "failed"
    BY <1>1, EarlyStepKeeps DEF RunNext, Orderless
  <1>2. CASE Limit > 0
    <2>1. /\ snaps \in Seq(Quotes) /\ Len(snaps) >= 4 /\ stage = "signalled"
          /\ signal # None /\ signal = SignalOf(snaps, Listing, Now.ts)
      BY DEF DraftOrder, OrderedRun, Progress
    <2>2. /\ stage' = "proposed" /\ UNCHANGED <<snaps, signal, reason, fill>>
          /\ order' = [side |-> signal.kind, qty |-> Qty, limit |-> Limit,
                       ts |-> signal.ts, token |-> MetaToken]
          /\ market' = Now
          /\ portfolio' = [position |-> 0, gross |-> 0, open |-> 0, drawdown |-> 0,
                           liquidity |-> ObservedLiquidity]
      BY <1>2 DEF DraftOrder
    <2>3. Now \in PriceSnapshot /\ Now.ts \in Nat
      <3>1. Now \in PriceSnapshot
        BY <2>1 DEF Now, Quotes
      <3> QED
        BY <3>1 DEF PriceSnapshot
    <2>4. /\ signal.kind \in {"BUY", "SELL"} /\ signal.ts = Now.ts
          /\ \E i \in 4..Len(snaps) : signal.price = snaps[i].price
      BY <2>1, SignalIsOfNow
    <2>5. signal.price \in Nat
      <3>1. \A i \in 4..Len(snaps) : snaps[i] \in PriceSnapshot
        BY <2>1 DEF Quotes
      <3>2. \A r \in PriceSnapshot : r.price \in Nat
        BY DEF PriceSnapshot
      <3> QED
        BY <2>4, <3>1, <3>2
    <2>6. Limit \in Nat \ {0}
      BY <1>2, <2>5, LimitIsTyped
    <2>7. order' \in PaperOrder
      BY <2>2, <2>3, <2>4, <2>6, FixturesAssumption DEF PaperOrder
    <2>8. portfolio' \in PortfolioState
      BY <2>2, FixturesAssumption DEF PortfolioState
    <2>9. OrderInv'
      BY <2>2, <2>3, <2>7, <2>8 DEF OrderInv, OrderTypeOK, Stages, Approved, Executed
    <2>10. Progress'
      BY <2>1, <2>2 DEF Progress, Orderless, Drafted, Listing, Now
    <2>11. FromSignal'
      BY <2>2 DEF FromSignal, Limit, Now
    <2>12. Endings'
      BY <2>2, <2>9 DEF Endings
    <2> QED
      BY <2>10, <2>11, <2>12 DEF OrderedRun
  <1> QED
    BY <1>1, <1>2 DEF DraftOrder

\* The first objection to a sale out of an empty position is that it exceeds it.
LEMMA CheckKeeps ==
  ASSUME OrderedRun, Check
  PROVE  OrderedRun'
  <1>1. /\ stage = "proposed" /\ stage \in Drafted /\ stage' \in {"accepted", "rejected"}
        /\ UNCHANGED <<order, market, portfolio, fill, snaps, signal>>
        /\ stage' \in Drafted /\ Evaluate
    BY DEF Check, Evaluate, Drafted
  <1>2. OrderInv /\ order \in PaperOrder
    BY <1>1 DEF OrderedRun, Endings, OrderInv, OrderTypeOK
  <1>3. OrderInv'
    BY <1>1, <1>2, EvaluateKeeps
  <1>4. Progress'
    BY <1>1 DEF OrderedRun, Progress, Orderless, Drafted, Listing, Now
  <1>5. FromSignal'
    BY <1>1 DEF OrderedRun, FromSignal, Limit, Now
  <1>6. Notional \in Nat /\ Notional > 0 /\ portfolio.position = 0
    BY <1>1, <1>2, ProductIsNat DEF OrderedRun, FromSignal, Notional, PaperOrder
  <1>7. ASSUME order.side = "SELL"
        PROVE  stage' = "rejected" /\ reason' = "SELL_EXCEEDS_POSITION"
    <2>1. /\ DOMAIN SellObjections = 1..2
          /\ SellObjections[1].fails /\ SellObjections[1].why = "SELL_EXCEEDS_POSITION"
      <3> DEFINE first == [fails |-> Notional > portfolio.position, why |-> "SELL_EXCEEDS_POSITION"]
      <3>1. Notional > portfolio.position
        BY <1>6
      <3>2. first.fails /\ first.why = "SELL_EXCEEDS_POSITION"
        BY <3>1, Zenon
      <3>3. DOMAIN SellObjections = 1..2 /\ SellObjections[1] = first
        BY DEF SellObjections
      <3> QED
        BY <3>2, <3>3, Zenon
    <2>2. (CHOOSE i \in DOMAIN SellObjections :
             /\ SellObjections[i].fails
             /\ \A j \in 1..i - 1 : ~SellObjections[j].fails) = 1
      BY <2>1
    <2> QED
      BY <1>1, <1>7, <2>1, <2>2 DEF Evaluate, First
  <1>8. ASSUME order.side = "BUY", stage' = "rejected"
        PROVE  reason' # "LIMIT_NOT_MET"
    <2>1. /\ DOMAIN BuyObjections = 1..5
          /\ \A i \in 1..5 : BuyObjections[i].why # "LIMIT_NOT_MET"
      BY DEF BuyObjections
    <2>2. \E i \in 1..5 : BuyObjections[i].fails
      BY <1>1, <1>8, <2>1 DEF Evaluate
    <2>3. \E i \in 1..5 : BuyObjections[i].fails /\ \A j \in 1..i - 1 : ~BuyObjections[j].fails
      <3> DEFINE S == {i \in 1..5 : BuyObjections[i].fails}
      <3>1. S \in SUBSET Nat /\ S # {}
        BY <2>2
      <3>2. PICK i \in S : \A j \in S : i <= j
        BY <3>1, NatLeast
      <3> QED
        BY <3>2
    <2> QED
      BY <1>1, <1>8, <2>1, <2>2, <2>3 DEF Evaluate, First
  <1>9. Endings'
    BY <1>1, <1>2, <1>3, <1>7, <1>8 DEF Endings, PaperOrder
  <1> QED
    BY <1>4, <1>5, <1>9 DEF OrderedRun

LEMMA SubmitPaperKeeps ==
  ASSUME OrderedRun, SubmitPaper
  PROVE  OrderedRun'
  <1>1. /\ stage = "accepted" /\ stage \in Drafted /\ stage' \in {"rejected", "filled"}
        /\ UNCHANGED <<order, market, portfolio, snaps, signal>>
        /\ stage' \in Drafted /\ Submit("paper")
        /\ reason' = "LIMIT_NOT_MET" => reason = "LIMIT_NOT_MET" \/ ~LimitMet
        /\ stage' = "rejected" /\ reason' = "LIMIT_NOT_MET" => ~LimitMet
    BY DEF SubmitPaper, Submit, BrokerFill, RefuseMarket, RefusePrice, Refuse, Fill, Drafted
  <1>2. OrderInv'
    BY <1>1, SubmitKeeps DEF OrderedRun, Endings
  <1>3. Progress'
    BY <1>1 DEF OrderedRun, Progress, Orderless, Drafted, Listing, Now
  <1>4. FromSignal'
    BY <1>1 DEF OrderedRun, FromSignal, Limit, Now
  <1>5. Endings'
    BY <1>1, <1>2 DEF OrderedRun, Endings, LimitMet, FillPrice
  <1> QED
    BY <1>3, <1>4, <1>5 DEF OrderedRun

LEMMA StillKeeps ==
  ASSUME OrderedRun, UNCHANGED <<orderVars, snaps, signal>>
  PROVE  OrderedRun'
  <1>1. OrderInv => OrderInv'
    BY DEF orderVars, OrderInv, OrderTypeOK, Approved, Executed, Notional, Usable,
           LimitMet, FillPrice, Fillable, FilledNotional
  <1>2. Progress' /\ FromSignal'
    BY DEF orderVars, OrderedRun, Progress, FromSignal, Limit, Listing, Now
  <1>3. Endings'
    BY <1>1 DEF orderVars, OrderedRun, Endings, LimitMet, FillPrice
  <1> QED
    BY <1>2, <1>3 DEF OrderedRun

LEMMA ReportsKeep ==
  ASSUME InOutput, [RunNext]_runVars
  PROVE  InOutput'
  <1>1. ASSUME NEW result \in {"new", "torn"}, WriteReport(result)
        PROVE  InOutput'
    BY <1>1 DEF WriteReport, InOutput
  <1>2. (\E result \in {"new", "torn"} : WriteReport(result)) \/ UNCHANGED reports
    BY DEF RunNext, runVars, Load, Analyse, Generate, DraftOrder, Check, SubmitPaper
  <1> QED
    BY <1>1, <1>2 DEF InOutput

\* The invariant of the offline run: where the run is, what its order was made
\* from, why it was refused or filled, and what is in the output files.
THEOREM RunInvariance == RunSpec => []RunInv
<1>1. RunInit => RunInv
  <2> SUFFICES ASSUME RunInit PROVE RunInv
    OBVIOUS
  <2>1. stage = "idle" /\ order = None /\ snaps = <<>>
    BY DEF RunInit, OrderInit
  <2>2. OrderedRun
    BY <2>1 DEF OrderedRun, Progress, FromSignal, Endings, Orderless, Drafted
  <2>3. InOutput
    BY DEF RunInit, InOutput
  <2> QED
    BY <2>2, <2>3 DEF RunInv
<1>2. RunInv /\ [RunNext]_runVars => RunInv'
  <2> SUFFICES ASSUME RunInv, [RunNext]_runVars
               PROVE  RunInv'
    OBVIOUS
  <2>0. OrderedRun /\ InOutput
    BY DEF RunInv
  <2>1. OrderedRun'
    <3>1. CASE RunNext /\ stage' \in Orderless
      BY <2>0, <3>1, EarlyStepKeeps
    <3>2. CASE DraftOrder
      BY <2>0, <3>2, DraftKeeps
    <3>3. CASE Check
      BY <2>0, <3>3, CheckKeeps
    <3>4. CASE SubmitPaper
      BY <2>0, <3>4, SubmitPaperKeeps
    <3>5. CASE UNCHANGED <<orderVars, snaps, signal>>
      BY <2>0, <3>5, StillKeeps
    <3>6. Load(snaps') \/ Analyse \/ Generate => stage' \in Orderless
      BY DEF Load, Analyse, Generate, Orderless
    <3> QED
      BY <3>1, <3>2, <3>3, <3>4, <3>5, <3>6 DEF RunNext, runVars, WriteReport, Load
  <2>2. InOutput'
    BY <2>0, ReportsKeep
  <2> QED
    BY <2>1, <2>2 DEF RunInv
<1> QED
  BY <1>1, <1>2, PTL DEF RunSpec

-----------------------------------------------------------------------------
(* The offline run: what follows *)

\* Of two products with a common factor, the greater has the greater other one.
LEMMA ExcessOfFactor ==
  ASSUME NEW k \in Nat, NEW a \in Nat, NEW b \in Nat, k * a < k * b
  PROVE  a < b
  <1>1. b <= a => k * b <= k * a
    BY ProductGrows
  <1>2. k * a \in Int /\ k * b \in Int
    BY ProductIsInt
  <1> QED
    BY <1>1, <1>2

\* A limit that is not met is below the market's price, whatever the slippage.
LEMMA RejectedAboveSignal ==
  ASSUME RunInv, stage = "rejected", reason = "LIMIT_NOT_MET"
  PROVE  signal.price < Now.price
  <1>1. /\ order.side = "BUY" /\ signal.kind = "BUY" /\ ~LimitMet /\ market = Now
        /\ order.limit = Limit
    BY DEF RunInv, OrderedRun, Endings, FromSignal, Drafted, OrderInv, OrderTypeOK, PaperOrder
  <1>2. order \in PaperOrder /\ market \in PriceSnapshot
    <2>1. order \in PaperOrder
      BY DEF RunInv, OrderedRun, Endings, Drafted, OrderInv, OrderTypeOK
    <2>2. snaps \in Seq(Quotes) /\ Len(snaps) >= 4
      BY DEF RunInv, OrderedRun, Progress
    <2> QED
      BY <1>1, <2>1, <2>2 DEF Now, Quotes
  <1>3. signal.price \in Nat
    <2>1. /\ snaps \in Seq(Quotes) /\ Len(snaps) >= 4
          /\ signal # None /\ signal = SignalOf(snaps, Listing, Now.ts)
      BY DEF RunInv, OrderedRun, Progress, Drafted
    <2>2. \E i \in 4..Len(snaps) : signal.price = snaps[i].price
      BY <2>1, SignalIsOfNow
    <2>3. \A i \in 4..Len(snaps) : snaps[i] \in PriceSnapshot
      BY <2>1 DEF Quotes
    <2>4. \A r \in PriceSnapshot : r.price \in Nat
      BY DEF PriceSnapshot
    <2> QED
      BY <2>2, <2>3, <2>4
  <1> DEFINE a == One + Slip
             k == a * a * FracDen
  <1>4. a \in Nat /\ FracDen \in Nat /\ Now.price \in Nat
    BY <1>1, <1>2, BrokerAssumption DEF PriceSnapshot
  <1>5. k \in Nat
    BY <1>4, ProductIsNat
  <1>6. FillPrice = k * Now.price
    BY <1>1 DEF FillPrice
  <1>7. Limit = k * signal.price
    <2> HIDE DEF a
    <2>1. signal.price * a * a * FracDen = k * signal.price
      BY <1>3, <1>4
    <2> USE DEF a
    <2> QED
      BY <1>1, <2>1 DEF Limit
  <1>8. k * signal.price < k * Now.price
    <2>1. FillPrice \in Int /\ order.limit \in Int
      BY <1>2, PricesAreIntegers DEF PaperOrder
    <2>2. ~(FillPrice <= order.limit)
      BY <1>1 DEF LimitMet
    <2> QED
      BY <1>1, <1>6, <1>7, <2>1, <2>2
  <1> HIDE DEF k
  <1> QED
    BY <1>3, <1>4, <1>5, <1>8, ExcessOfFactor

\* For every fixture, threshold and slippage, a BUY fails its limit only where
\* a second snapshot of the evaluation time, later in the file, is cheaper:
\* the limit drafted from the signal's price covers the slippage exactly.
THEOREM SlippageCovered == RunSpec => []BuyCoversSlippage
<1>1. RunInv => BuyCoversSlippage
  <2> SUFFICES ASSUME RunInv, stage = "rejected", reason = "LIMIT_NOT_MET"
               PROVE  \E i \in 5..Len(snaps) :
                         snaps[i].ts = snaps[4].ts /\ snaps[i].price < snaps[4].price
    BY DEF BuyCoversSlippage
  <2>1. /\ snaps \in Seq(Quotes) /\ Len(snaps) >= 4
        /\ signal # None /\ signal = SignalOf(snaps, Listing, Now.ts)
    BY DEF RunInv, OrderedRun, Progress, Drafted
  <2>2. PICK i \in 4..Len(snaps) : snaps[i].ts = Now.ts /\ signal.price = snaps[i].price
    BY <2>1, SignalIsOfNow
  <2>3. snaps[i].price < snaps[4].price
    BY <2>2, RejectedAboveSignal DEF Now
  <2>4. snaps[4] \in PriceSnapshot /\ snaps[4].price \in Nat
    <3>1. snaps[4] \in PriceSnapshot
      BY <2>1 DEF Quotes
    <3> QED
      BY <3>1 DEF PriceSnapshot
  <2>5. i # 4
    BY <2>3, <2>4
  <2> QED
    BY <2>1, <2>2, <2>3, <2>5 DEF Now
<1> QED
  BY <1>1, RunInvariance, PTL

\* A SELL never gets past the risk check, whatever the fixture makes of it.
THEOREM NoShortSale == RunSpec => []NeverSellsShort
<1>1. RunInv => NeverSellsShort
  BY DEF RunInv, OrderedRun, Progress, Endings, Drafted, NeverSellsShort
<1> QED
  BY <1>1, RunInvariance, PTL

\* The order a run drafts is kept to the rules of every order: the limits, the
\* liquidity and an honest price hold for its fill.
THEOREM RunKeepsRules == RunSpec => [](LimitsKept /\ LiquidityRespected /\ FillIsHonest)
<1>1. RunInv => LimitsKept /\ LiquidityRespected /\ FillIsHonest
  <2>1. RunInv /\ stage = "filled" => OrderInv
    BY DEF RunInv, OrderedRun, Endings, Drafted
  <2>2. stage # "filled" => LimitsKept /\ LiquidityRespected /\ FillIsHonest
    BY DEF LimitsKept, LiquidityRespected, FillIsHonest
  <2> QED
    BY <2>1, <2>2, LimitsFollow, LiquidityFollows, HonestyFollows
<1> QED
  BY <1>1, RunInvariance, PTL

-----------------------------------------------------------------------------
(* The analysis: rows at places *)

LEMMA PlaceEnumerates ==
  ASSUME NEW n \in Nat, NEW I \in SUBSET (1..n)
  PROVE  /\ IsFiniteSet(I) /\ Cardinality(I) \in 0..n
         /\ \A k \in 1..Cardinality(I) : Place(I, k) \in I
         /\ \A k, l \in 1..Cardinality(I) : k < l => Place(I, k) < Place(I, l)
         /\ \A i \in I : \E k \in 1..Cardinality(I) : Place(I, k) = i
  <1> DEFINE m == Cardinality(I)
             Upto(i) == {j \in I : j <= i}
             r == [i \in I |-> Cardinality(Upto(i))]
  <1>0. \A i \in I : i \in Nat
    OBVIOUS
  <1>1. IsFiniteSet(I) /\ m \in Nat /\ m <= n
    <2>1. IsFiniteSet(1..n) /\ Cardinality(1..n) = n
      BY FS_Interval
    <2> QED
      BY <2>1, FS_Subset, FS_CardinalityType
  <1>2. \A i \in I : IsFiniteSet(Upto(i)) /\ Cardinality(Upto(i)) \in 1..m
    <2> TAKE i \in I
    <2>1. IsFiniteSet(Upto(i)) /\ Cardinality(Upto(i)) <= m
      BY <1>1, FS_Subset
    <2>2. Cardinality(Upto(i)) \in Nat /\ (Cardinality(Upto(i)) = 0 <=> Upto(i) = {})
      BY <2>1, FS_CardinalityType, FS_EmptySet
    <2>3. i \in Upto(i)
      BY <1>0
    <2> QED
      BY <1>1, <2>1, <2>2, <2>3
  <1>3. \A i, j \in I : i < j => r[i] < r[j]
    <2> SUFFICES ASSUME NEW i \in I, NEW j \in I, i < j
                 PROVE  Cardinality(Upto(i)) < Cardinality(Upto(j))
      OBVIOUS
    <2>0. i \in Nat /\ j \in Nat
      BY <1>0
    <2>1. Upto(i) \subseteq Upto(j) /\ j \in Upto(j) /\ j \notin Upto(i)
      <3>1. \A x \in Upto(i) : x \in I /\ x <= i /\ x <= j /\ x # j
        BY <1>0, <2>0
      <3>2. j <= j
        BY <2>0
      <3> QED
        BY <3>1, <3>2
    <2>2. /\ Cardinality(Upto(i)) <= Cardinality(Upto(j))
          /\ Cardinality(Upto(i)) # Cardinality(Upto(j))
      BY <1>2, <2>1, FS_Subset
    <2> QED
      BY <1>2, <2>2
  <1>4. r \in [I -> 1..m]
    BY <1>2
  <1> HIDE DEF r
  <1>5. \A k \in 1..m : \E i \in I : r[i] = k
    <2>1. \A i, j \in I : r[i] = r[j] => i = j
      BY <1>0, <1>3, <1>4
    <2>2. r \in Injection(I, 1..m)
      BY <1>4, <2>1 DEF Injection, IsInjective
    <2>3. IsFiniteSet(1..m) /\ Cardinality(1..m) = m
      BY <1>1, FS_Interval
    <2>4. r \in Surjection(I, 1..m)
      BY <1>1, <2>2, <2>3, FS_Injection
    <2> QED
      BY <2>4 DEF Surjection
  <1>6. \A k \in 1..m : Place(I, k) \in I /\ r[Place(I, k)] = k
    BY <1>5 DEF Place, r
  <1>7. \A k, l \in 1..m : k < l => Place(I, k) < Place(I, l)
    <2> SUFFICES ASSUME NEW k \in 1..m, NEW l \in 1..m, k < l,
                        ~(Place(I, k) < Place(I, l))
                 PROVE  FALSE
      OBVIOUS
    <2>1. Place(I, k) \in I /\ Place(I, l) \in I /\ r[Place(I, k)] = k /\ r[Place(I, l)] = l
      BY <1>6
    <2>2. Place(I, l) < Place(I, k) \/ Place(I, l) = Place(I, k)
      <3>1. Place(I, k) \in Nat /\ Place(I, l) \in Nat
        BY <1>0, <2>1
      <3> QED
        BY <3>1
    <2>3. Place(I, l) < Place(I, k) => l < k
      BY <1>3, <2>1
    <2>4. Place(I, l) = Place(I, k) => l = k
      BY <2>1
    <2> QED
      BY <2>2, <2>3, <2>4
  <1>8. \A i \in I : Place(I, r[i]) = i
    <2> TAKE i \in I
    <2>1. r[i] \in 1..m
      BY <1>4
    <2>2. Place(I, r[i]) \in I /\ r[Place(I, r[i])] = r[i]
      BY <1>6, <2>1
    <2>3. \A j \in I : r[j] = r[i] => j = i
      BY <1>0, <1>3, <1>4
    <2> QED
      BY <2>2, <2>3
  <1> QED
    BY <1>1, <1>4, <1>6, <1>7, <1>8

LEMMA PlacesOfPrefix ==
  ASSUME NEW m \in Nat
  PROVE  IsFiniteSet(1..m) /\ Cardinality(1..m) = m /\ \A k \in 1..m : Place(1..m, k) = k
  <1>1. \A i \in 1..m : Cardinality({j \in 1..m : j <= i}) = i
    <2> TAKE i \in 1..m
    <2>1. {j \in 1..m : j <= i} = 1..i
      OBVIOUS
    <2>2. Cardinality(1..i) = i
      BY FS_Interval
    <2> QED
      BY <2>1, <2>2
  <1>2. \A k \in 1..m : Place(1..m, k) = k
    BY <1>1 DEF Place
  <1> QED
    BY <1>2, FS_Interval

\* What RowsAt gives: some of the rows, each once and in their order.
\* e goes through the places I, each once and in order, as RowsAt does.
Places(e, rows, I) ==
    /\ e \in [1..Cardinality(I) -> I]
    /\ \A k, l \in 1..Cardinality(I) : k < l <=> e[k] < e[l]
    /\ \A k, l \in 1..Cardinality(I) : k = l <=> e[k] = e[l]
    /\ \A i \in I : \E k \in 1..Cardinality(I) : e[k] = i
    /\ \A k \in 1..Cardinality(I) : RowsAt(rows, I)[k] = rows[e[k]]

LEMMA RowsAtPlaces ==
  ASSUME NEW rows \in Seq(Quotes), NEW I \in SUBSET DOMAIN rows
  PROVE  /\ RowsAt(rows, I) \in Seq(Quotes)
         /\ Len(RowsAt(rows, I)) = Cardinality(I) /\ Cardinality(I) \in Nat
         /\ \E e : Places(e, rows, I)
  <1> DEFINE m == Cardinality(I)
             e == [k \in 1..m |-> Place(I, k)]
  <1>0. I \in SUBSET (1..Len(rows)) /\ Len(rows) \in Nat
    OBVIOUS
  <1>1. /\ m \in Nat
        /\ \A k \in 1..m : Place(I, k) \in I
        /\ \A k, l \in 1..m : k < l => Place(I, k) < Place(I, l)
        /\ \A i \in I : \E k \in 1..m : Place(I, k) = i
    BY <1>0, PlaceEnumerates
  <1>2. RowsAt(rows, I) = [k \in 1..m |-> rows[e[k]]]
    BY DEF RowsAt
  <1>3. e \in [1..m -> I]
    BY <1>1
  <1>4. \A k, l \in 1..m : k < l => e[k] < e[l]
    BY <1>1
  <1>5. \A i \in I : \E k \in 1..m : e[k] = i
    BY <1>1
  <1> HIDE DEF m, e
  <1>6. \A k \in 1..m : e[k] \in 1..Len(rows) /\ rows[e[k]] \in Quotes
    BY <1>0, <1>3
  <1>7. RowsAt(rows, I) \in Seq(Quotes) /\ Len(RowsAt(rows, I)) = m
    BY <1>1, <1>2, <1>6
  <1>8. \A k, l \in 1..m : (k < l <=> e[k] < e[l]) /\ (k = l <=> e[k] = e[l])
    <2> TAKE k, l \in 1..m
    <2>1. e[k] \in Int /\ e[l] \in Int /\ (k < l => e[k] < e[l]) /\ (l < k => e[l] < e[k])
      BY <1>4, <1>6
    <2> QED
      BY <2>1
  <1>8a. /\ \A k, l \in 1..m : k < l <=> e[k] < e[l]
         /\ \A k, l \in 1..m : k = l <=> e[k] = e[l]
    BY <1>8
  <1>9. \A k \in 1..m : RowsAt(rows, I)[k] = rows[e[k]]
    BY <1>2
  <1>10. Places(e, rows, I)
    BY <1>3, <1>5, <1>8a, <1>9, Zenon DEF Places, m
  <1> QED
    BY <1>1, <1>7, <1>10, Zenon DEF m

-----------------------------------------------------------------------------
(* The analysis: frames *)

\* The places of the rows no earlier than the listing and no later than now.
Within(rows, listing, now) ==
    {i \in DOMAIN rows : rows[i].ts >= listing /\ rows[i].ts <= now}

InTime(f) == \A k, l \in 1..Len(f) : k <= l => f[k].ts <= f[l].ts

\* q leads from the places of f to the places I of rows, each once.
Leads(q, f, rows, I) ==
    /\ q \in [1..Len(f) -> I]
    /\ \A k, l \in 1..Len(f) : q[k] = q[l] => k = l
    /\ \A i \in I : \E k \in 1..Len(f) : q[k] = i
    /\ \A k \in 1..Len(f) : f[k] = rows[q[k]]

\* f is the rows at the places I, by time.
Arranges(f, rows, I) ==
    /\ f \in Seq(Quotes) /\ InTime(f)
    /\ \E q : Leads(q, f, rows, I)

LEMMA RowIsTyped ==
  ASSUME NEW rows \in Seq(Quotes), NEW i \in DOMAIN rows
  PROVE  /\ rows[i] \in PriceSnapshot /\ rows[i].ts \in Nat /\ rows[i].price \in Nat
         /\ rows[i].price \in Decimals
         /\ FloatPrice(rows[i]) \in Floats /\ FloatPrice(rows[i]) \in Nat
  <1>1. rows[i] \in PriceSnapshot /\ rows[i].price \in Decimals
    BY DEF Quotes
  <1>2. Float[rows[i].price] \in Floats /\ Float[rows[i].price] \in Nat
    BY <1>1, FloatAssumption DEF Floats
  <1>3. FloatPrice(rows[i]) = Float[rows[i].price]
    BY DEF FloatPrice
  <1> QED
    BY <1>1, <1>2, <1>3 DEF PriceSnapshot

\* What does not fall from one place to the next falls nowhere.
LEMMA StepwiseInTime ==
  ASSUME NEW f \in Seq(Quotes), \A i \in 2..Len(f) : f[i - 1].ts <= f[i].ts
  PROVE  InTime(f)
  <1> SUFFICES ASSUME NEW k \in 1..Len(f), NEW l \in 1..Len(f), k <= l
               PROVE  f[k].ts <= f[l].ts
    BY DEF InTime
  <1> DEFINE Falls == {d \in Nat : k + d \in 1..Len(f) /\ ~(f[k].ts <= f[k + d].ts)}
  <1>0. Len(f) \in Nat /\ \A i \in 1..Len(f) : f[i].ts \in Nat
    BY RowIsTyped
  <1>1. Falls = {}
    <2> SUFFICES ASSUME Falls # {} PROVE FALSE
      OBVIOUS
    <2>1. PICK d \in Falls : \A x \in Falls : d <= x
      BY NatLeast
    <2>2. d # 0
      BY <1>0, <2>1
    <2>3. d - 1 \in Nat /\ k + (d - 1) \in 1..Len(f) /\ k + d \in 2..Len(f) /\ ~(d <= d - 1)
      BY <1>0, <2>1, <2>2
    <2>4. f[k].ts <= f[k + (d - 1)].ts
      BY <2>1, <2>3
    <2>5. f[k + (d - 1)].ts <= f[k + d].ts
      <3>1. k + d - 1 = k + (d - 1)
        BY <2>1
      <3>2. f[k + d - 1].ts <= f[k + d].ts
        BY <2>3
      <3> QED
        BY <3>1, <3>2
    <2>6. k + d \in 1..Len(f) /\ ~(f[k].ts <= f[k + d].ts)
      BY <2>1
    <2>7. f[k].ts \in Nat /\ f[k + (d - 1)].ts \in Nat /\ f[k + d].ts \in Nat
      BY <1>0, <2>3, <2>6
    <2>8. \A x, y, z \in Nat : x <= y /\ y <= z => x <= z
      OBVIOUS
    <2> QED
      BY <2>4, <2>5, <2>6, <2>7, <2>8, Zenon
  <1>2. l - k \in Nat /\ k + (l - k) = l
    BY <1>0
  <1>3. l - k \notin Falls
    BY <1>1
  <1> QED
    BY <1>2, <1>3

LEMMA SortingsArrange ==
  ASSUME NEW rows \in Seq(Quotes), NEW s \in Sortings(rows)
  PROVE  Len(s) = Len(rows) /\ Arranges(s, rows, DOMAIN rows)
  <1> DEFINE n == Len(rows)
  <1>1. n \in Nat /\ DOMAIN rows = 1..n
    OBVIOUS
  <1>2. PICK p \in Injection(DOMAIN rows, DOMAIN rows) :
           /\ \A i \in 2..Len(rows) : rows[p[i - 1]].ts <= rows[p[i]].ts
           /\ s = [i \in DOMAIN rows |-> rows[p[i]]]
    BY DEF Sortings
  <1>3. p \in [1..n -> 1..n] /\ \A k, l \in 1..n : p[k] = p[l] => k = l
    BY <1>1, <1>2 DEF Injection, IsInjective
  <1>4. \A i \in 1..n : \E k \in 1..n : p[k] = i
    <2>1. IsFiniteSet(1..n)
      BY <1>1, FS_Interval
    <2>2. p \in Surjection(1..n, 1..n)
      BY <1>1, <1>2, <2>1, FS_Injection
    <2> QED
      BY <2>2 DEF Surjection
  <1>5. s = [i \in 1..n |-> rows[p[i]]]
    BY <1>1, <1>2
  <1> HIDE DEF n
  <1>6. s \in Seq(Quotes) /\ Len(s) = n
    <2>1. \A i \in 1..n : rows[p[i]] \in Quotes
      BY <1>1, <1>3
    <2> QED
      BY <1>1, <1>5, <2>1
  <1>7. \A k \in 1..n : s[k] = rows[p[k]]
    BY <1>5
  <1>8. InTime(s)
    <2>1. \A i \in 2..n : i \in 1..n /\ i - 1 \in 1..n
      BY <1>1
    <2>2. \A i \in 2..n : rows[p[i - 1]].ts <= rows[p[i]].ts
      BY <1>2 DEF n
    <2>3. \A i \in 2..Len(s) : s[i - 1].ts <= s[i].ts
      BY <1>6, <1>7, <2>1, <2>2
    <2> QED
      BY <1>6, <2>3, StepwiseInTime
  <1>9. Leads(p, s, rows, DOMAIN rows)
    BY <1>1, <1>3, <1>4, <1>6, <1>7 DEF Leads
  <1> QED
    BY <1>6, <1>8, <1>9 DEF Arranges, n

\* Selecting from what is in time what passes a test of its time.
LEMMA SelectionArranges ==
  ASSUME NEW rows \in Seq(Quotes), NEW A \in SUBSET DOMAIN rows,
         NEW s, Arranges(s, rows, A),
         NEW S \in SUBSET DOMAIN s, NEW I \in SUBSET A,
         NEW q, Leads(q, s, rows, A), \A k \in DOMAIN s : k \in S <=> q[k] \in I
  PROVE  Arranges(RowsAt(s, S), rows, I)
  <1> DEFINE f == RowsAt(s, S)
             m == Cardinality(S)
  <1>0. s \in Seq(Quotes) /\ DOMAIN s = 1..Len(s)
    BY DEF Arranges
  <1>1. f \in Seq(Quotes) /\ Len(f) = m /\ m \in Nat
    BY <1>0, RowsAtPlaces
  <1>2a. PICK e : Places(e, s, S)
    BY <1>0, RowsAtPlaces
  <1>2. /\ e \in [1..m -> S]
        /\ \A k, l \in 1..m : k < l <=> e[k] < e[l]
        /\ \A k, l \in 1..m : k = l <=> e[k] = e[l]
        /\ \A i \in S : \E k \in 1..m : e[k] = i
        /\ \A k \in 1..m : f[k] = s[e[k]]
    BY <1>2a DEF Places
  <1> HIDE DEF f, m
  <1>3. \A k \in 1..m : e[k] \in 1..Len(s) /\ e[k] \in Int
    BY <1>0, <1>2
  <1>4. InTime(f)
    <2> SUFFICES ASSUME NEW k \in 1..m, NEW l \in 1..m, k <= l
                 PROVE  f[k].ts <= f[l].ts
      BY <1>1 DEF InTime
    <2>1. e[k] <= e[l]
      BY <1>2, <1>3
    <2>2. s[e[k]].ts <= s[e[l]].ts
      BY <1>3, <2>1 DEF Arranges, InTime
    <2> QED
      BY <1>2, <2>2
  <1> DEFINE z == [k \in 1..m |-> q[e[k]]]
  <1>5. \A k \in 1..m : z[k] = q[e[k]] /\ z[k] \in I
    BY <1>0, <1>2, <1>3
  <1>6. \A k, l \in 1..m : z[k] = z[l] => k = l
    BY <1>2, <1>3, <1>5 DEF Leads
  <1>7. \A i \in I : \E k \in 1..m : z[k] = i
    <2> TAKE i \in I
    <2>1. PICK j \in 1..Len(s) : q[j] = i
      BY DEF Leads
    <2>2. PICK k \in 1..m : e[k] = j
      BY <1>0, <1>2, <2>1
    <2> QED
      BY <1>5, <2>1, <2>2
  <1>8. \A k \in 1..m : f[k] = rows[z[k]]
    BY <1>2, <1>3, <1>5 DEF Leads
  <1>9. z \in [1..m -> I]
    BY <1>5
  <1> HIDE DEF z
  <1>10. Leads(z, f, rows, I)
    BY <1>1, <1>6, <1>7, <1>8, <1>9 DEF Leads
  <1> QED
    BY <1>1, <1>4, <1>10 DEF Arranges, f

\* A frame is the rows in view, by time.
LEMMA FramesArrange ==
  ASSUME NEW rows \in Seq(Quotes), NEW listing \in Nat, NEW now \in Nat,
         NEW f \in Frames(rows, listing, now)
  PROVE  Arranges(f, rows, Within(rows, listing, now))
  <1> DEFINE A == {i \in DOMAIN rows : rows[i].ts <= now}
             a == AsOf(rows, now)
             n == Cardinality(A)
  <1>1. a \in Seq(Quotes) /\ Len(a) = n /\ n \in Nat /\ DOMAIN a = 1..n
    BY RowsAtPlaces DEF AsOf
  <1>2. PICK e \in [1..n -> A] :
           /\ \A k, l \in 1..n : k = l <=> e[k] = e[l]
           /\ \A i \in A : \E k \in 1..n : e[k] = i
           /\ \A k \in 1..n : a[k] = rows[e[k]]
    <2>1. A \in SUBSET DOMAIN rows /\ a = RowsAt(rows, A)
      BY DEF AsOf
    <2> HIDE DEF A, a
    <2>1a. PICK e : Places(e, rows, A)
      BY <2>1, RowsAtPlaces
    <2>2. /\ e \in [1..Cardinality(A) -> A]
          /\ \A k, l \in 1..Cardinality(A) : k = l <=> e[k] = e[l]
          /\ \A i \in A : \E k \in 1..Cardinality(A) : e[k] = i
          /\ \A k \in 1..Cardinality(A) : RowsAt(rows, A)[k] = rows[e[k]]
      BY <2>1a DEF Places
    <2>3. \A k \in 1..n : a[k] = rows[e[k]]
      BY <2>1, <2>2
    <2> QED
      BY <2>2, <2>3
  <1>3. PICK s \in Sortings(a) : f = SinceListing(s, listing)
    BY DEF Frames
  <1> HIDE DEF a, n
  <1>4. Len(s) = n /\ Arranges(s, a, 1..n)
    BY <1>1, SortingsArrange
  <1>5. PICK p : Leads(p, s, a, 1..n)
    BY <1>4 DEF Arranges
  <1> DEFINE q == [k \in 1..n |-> e[p[k]]]
  <1>6. \A k \in 1..n : p[k] \in 1..n /\ q[k] = e[p[k]] /\ q[k] \in A
    BY <1>2, <1>4, <1>5 DEF Leads
  <1>7. q \in [1..n -> A]
    BY <1>6
  <1> HIDE DEF q
  <1>8. Leads(q, s, rows, A)
    <2>1. \A k, l \in 1..n : q[k] = q[l] => k = l
      BY <1>2, <1>4, <1>5, <1>6, SMTT(20) DEF Leads
    <2>2. \A i \in A : \E k \in 1..n : q[k] = i
      <3> TAKE i \in A
      <3>1. PICK j \in 1..n : e[j] = i
        BY <1>2
      <3>2. PICK k \in 1..n : p[k] = j
        BY <1>4, <1>5 DEF Leads
      <3> QED
        BY <1>6, <3>1, <3>2
    <2>3. \A k \in 1..n : s[k] = rows[q[k]]
      <3> TAKE k \in 1..n
      <3>1. s[k] = a[p[k]]
        BY <1>4, <1>5 DEF Leads
      <3>2. a[p[k]] = rows[e[p[k]]]
        BY <1>2, <1>6
      <3> QED
        BY <1>6, <3>1, <3>2, Zenon
    <2> QED
      BY <1>4, <1>7, <2>1, <2>2, <2>3 DEF Leads
  <1>9. Arranges(s, rows, A)
    BY <1>4, <1>8 DEF Arranges
  <1> DEFINE S == {i \in DOMAIN s : s[i].ts >= listing}
             I == Within(rows, listing, now)
  <1>10. I \in SUBSET A /\ A \in SUBSET DOMAIN rows /\ S \in SUBSET DOMAIN s
    BY DEF Within
  <1>11. \A k \in DOMAIN s : k \in S <=> q[k] \in I
    <2>1. DOMAIN s = 1..n
      BY <1>4 DEF Arranges
    <2>2. \A k \in 1..n : s[k].ts = rows[q[k]].ts /\ q[k] \in A
      BY <1>4, <1>6, <1>8 DEF Leads
    <2> QED
      BY <2>1, <2>2 DEF Within
  <1> HIDE DEF A, S, I
  <1>12. Arranges(RowsAt(s, S), rows, I)
    BY <1>8, <1>9, <1>10, <1>11, SelectionArranges
  <1> QED
    BY <1>3, <1>12 DEF SinceListing, S, I

\* The first m rows.
LEMMA PrefixRows ==
  ASSUME NEW f \in Seq(Quotes), NEW m \in 0..Len(f)
  PROVE  /\ RowsAt(f, 1..m) = [k \in 1..m |-> f[k]]
         /\ RowsAt(f, 1..m) \in Seq(Quotes) /\ Len(RowsAt(f, 1..m)) = m
         /\ m = Len(f) => RowsAt(f, 1..m) = f
  <1>0. Len(f) \in Nat /\ m \in Nat /\ f = [k \in 1..Len(f) |-> f[k]]
        /\ \A k \in 1..m : f[k] \in Quotes
    OBVIOUS
  <1>1. Cardinality(1..m) = m /\ \A k \in 1..m : Place(1..m, k) = k
    BY <1>0, PlacesOfPrefix
  <1>2. RowsAt(f, 1..m) = [k \in 1..m |-> f[k]]
    BY <1>1 DEF RowsAt
  <1>3. RowsAt(f, 1..m) \in Seq(Quotes) /\ Len(RowsAt(f, 1..m)) = m
    BY <1>0, <1>2
  <1> QED
    BY <1>0, <1>2, <1>3

\* In what is in time, the rows up to a moment come first.
LEMMA UpToIsPrefix ==
  ASSUME NEW f \in Seq(Quotes), InTime(f), NEW t \in Nat
  PROVE  \E m \in 0..Len(f) : {i \in DOMAIN f : f[i].ts <= t} = 1..m
  <1> DEFINE S == {i \in DOMAIN f : f[i].ts <= t}
  <1>0. Len(f) \in Nat /\ DOMAIN f = 1..Len(f) /\ \A i \in 1..Len(f) : f[i].ts \in Nat
    BY RowIsTyped
  <1>1. CASE S = {}
    BY <1>0, <1>1
  <1>2. CASE S # {}
    <2>1. S \in SUBSET (0..Len(f))
      BY <1>0
    <2>2. PICK m \in S : \A y \in S : y <= m
      BY <1>0, <1>2, <2>1, Greatest
    <2>3. m \in 1..Len(f) /\ f[m].ts <= t
      BY <1>0, <2>2
    <2>4. \A i \in 1..m : i \in 1..Len(f) /\ f[i].ts <= f[m].ts
      BY <1>0, <2>3 DEF InTime
    <2>5. \A i \in 1..m : f[i].ts <= t
      <3> TAKE i \in 1..m
      <3>1. f[i].ts \in Nat /\ f[m].ts \in Nat /\ f[i].ts <= f[m].ts
        BY <1>0, <2>3, <2>4
      <3> QED
        BY <2>3, <3>1
    <2>6. S = 1..m
      BY <1>0, <2>2, <2>3, <2>4, <2>5
    <2> QED
      BY <1>0, <2>3, <2>6
  <1> QED
    BY <1>1, <1>2

\* Two sequences of the same rows are as long as each other, and a permutation
\* leads from one to the other.
LEMMA LeadsBack ==
  ASSUME NEW f \in Seq(Quotes), NEW g \in Seq(Quotes), NEW rows, NEW I,
         NEW q, Leads(q, f, rows, I), NEW e, Leads(e, g, rows, I)
  PROVE  /\ Len(f) = Len(g)
         /\ \E r \in Injection(1..Len(f), 1..Len(f)) : \A k \in 1..Len(f) : e[r[k]] = q[k]
  <1> DEFINE n == Len(f)
             m == Len(g)
  <1>0. /\ n \in Nat /\ m \in Nat
        /\ e \in [1..m -> I] /\ q \in [1..n -> I]
        /\ \A k, l \in 1..m : e[k] = e[l] => k = l
        /\ \A k, l \in 1..n : q[k] = q[l] => k = l
        /\ \A i \in I : \E k \in 1..m : e[k] = i
        /\ \A i \in I : \E k \in 1..n : q[k] = i
    BY DEF Leads
  <1> HIDE DEF n, m
  <1> DEFINE r == [k \in 1..n |-> CHOOSE l \in 1..m : e[l] = q[k]]
  <1>1. \A k \in 1..n : r[k] \in 1..m /\ e[r[k]] = q[k]
    <2> TAKE k \in 1..n
    <2>1. \E l \in 1..m : e[l] = q[k]
      BY <1>0
    <2> QED
      BY <2>1
  <1>2. r \in [1..n -> 1..m]
    BY <1>1
  <1> HIDE DEF r
  <1>3. \A k, l \in 1..n : r[k] = r[l] => k = l
    BY <1>0, <1>1
  <1>4. \A j \in 1..m : \E k \in 1..n : r[k] = j
    <2> TAKE j \in 1..m
    <2>1. PICK k \in 1..n : q[k] = e[j]
      BY <1>0
    <2>2. r[k] \in 1..m /\ e[r[k]] = e[j]
      BY <1>1, <2>1
    <2>3. \A i, l \in 1..m : e[i] = e[l] => i = l
      BY <1>0
    <2>4. r[k] = j
      BY <2>2, <2>3
    <2> QED
      BY <2>4
  <1>5. r \in Injection(1..n, 1..m) /\ r \in Surjection(1..n, 1..m)
    BY <1>2, <1>3, <1>4 DEF Injection, IsInjective, Surjection
  <1>6. /\ IsFiniteSet(1..n) /\ Cardinality(1..n) = n
        /\ IsFiniteSet(1..m) /\ Cardinality(1..m) = m
    BY <1>0, FS_Interval
  <1>7. n = m
    BY <1>5, <1>6, FS_Surjection
  <1> QED
    BY <1>1, <1>5, <1>7 DEF n, m

\* Rows outside the view have no influence on the frames.
LEMMA KeptFrames ==
  ASSUME NEW rows \in Seq(Quotes), NEW listing \in Nat, NEW now \in Nat,
         NEW f \in Frames(rows, listing, now)
  PROVE  f \in Frames(RowsAt(rows, Within(rows, listing, now)), listing, now)
  <1> DEFINE I == Within(rows, listing, now)
             kept == RowsAt(rows, I)
             n == Len(f)
             m == Cardinality(I)
  <1>0. I \in SUBSET DOMAIN rows
        /\ \A i \in I : rows[i].ts >= listing /\ rows[i].ts <= now
    BY DEF Within
  <1>1. Arranges(f, rows, I)
    BY FramesArrange
  <1> HIDE DEF I
  <1>2. kept \in Seq(Quotes) /\ Len(kept) = m /\ m \in Nat
    BY <1>0, RowsAtPlaces
  <1>3a. PICK e : Places(e, rows, I)
    BY <1>0, RowsAtPlaces
  <1>3. /\ e \in [1..m -> I]
        /\ \A k, l \in 1..m : k < l <=> e[k] < e[l]
        /\ \A k, l \in 1..m : k = l <=> e[k] = e[l]
        /\ \A i \in I : \E k \in 1..m : e[k] = i
        /\ \A k \in 1..m : kept[k] = rows[e[k]]
    BY <1>3a DEF Places
  <1> HIDE DEF kept, m
  <1>4. f \in Seq(Quotes) /\ n \in Nat
    BY <1>1 DEF Arranges
  <1>5. PICK q : Leads(q, f, rows, I)
    BY <1>1 DEF Arranges
  <1>6. /\ q \in [1..n -> I] /\ \A k, l \in 1..n : q[k] = q[l] => k = l
        /\ \A i \in I : \E k \in 1..n : q[k] = i
        /\ \A k \in 1..n : f[k] = rows[q[k]]
    BY <1>5 DEF Leads
  <1>6a. Leads(e, kept, rows, I)
    BY <1>2, <1>3 DEF Leads
  <1>7. n = m /\ \E r \in Injection(1..n, 1..n) : \A k \in 1..n : e[r[k]] = q[k]
    <2>1. /\ Len(f) = Len(kept)
          /\ \E r \in Injection(1..Len(f), 1..Len(f)) : \A k \in 1..Len(f) : e[r[k]] = q[k]
      BY <1>2, <1>4, <1>5, <1>6a, LeadsBack
    <2> QED
      BY <1>2, <2>1
  <1>8. PICK r \in Injection(1..n, 1..n) : \A k \in 1..n : e[r[k]] = q[k]
    BY <1>7
  <1>9. \A k \in 1..n : r[k] \in 1..n /\ f[k] = kept[r[k]]
    <2> TAKE k \in 1..n
    <2>1. r[k] \in 1..n
      BY <1>8 DEF Injection
    <2>2. kept[r[k]] = rows[e[r[k]]]
      BY <1>3, <1>7, <2>1
    <2> QED
      BY <1>6, <1>8, <2>1, <2>2
  <1>10. DOMAIN kept = 1..n /\ Len(kept) = n /\ DOMAIN f = 1..n
    BY <1>2, <1>4, <1>7
  <1>11. f \in Sortings(kept)
    <2>1. f = [i \in DOMAIN kept |-> kept[r[i]]]
      BY <1>4, <1>9, <1>10
    <2>2. \A i \in 2..Len(kept) : kept[r[i - 1]].ts <= kept[r[i]].ts
      <3> TAKE i \in 2..Len(kept)
      <3>1. i - 1 \in 1..n /\ i \in 1..n /\ i - 1 <= i
        BY <1>4, <1>10
      <3>2. f[i - 1].ts <= f[i].ts
        BY <1>1, <3>1 DEF Arranges, InTime
      <3> QED
        BY <1>9, <3>1, <3>2
    <2> QED
      BY <1>8, <1>10, <2>1, <2>2 DEF Sortings
  <1>12. AsOf(kept, now) = kept
    <2>1. \A i \in 1..n : kept[i].ts <= now
      BY <1>0, <1>3, <1>7
    <2>2. {i \in DOMAIN kept : kept[i].ts <= now} = 1..n
      BY <1>10, <2>1
    <2>3. n \in 0..Len(kept)
      BY <1>4, <1>10
    <2> QED
      BY <1>2, <1>10, <2>2, <2>3, PrefixRows DEF AsOf
  <1>13. SinceListing(f, listing) = f
    <2>1. \A i \in 1..n : f[i].ts >= listing
      BY <1>0, <1>6
    <2>2. {i \in DOMAIN f : f[i].ts >= listing} = 1..n
      BY <1>10, <2>1
    <2>3. n \in 0..Len(f)
      BY <1>4
    <2> QED
      BY <1>4, <2>2, <2>3, PrefixRows DEF SinceListing
  <1>14. f \in Frames(kept, listing, now)
    BY <1>11, <1>12, <1>13 DEF Frames
  <1> QED
    BY <1>14 DEF kept, I

\* Nor on the analysis.
LEMMA KeptAnalyses ==
  ASSUME NEW rows \in Seq(Quotes), NEW listing \in Nat, NEW now \in Nat,
         NEW a \in Analyses(rows, listing, now)
  PROVE  a \in Analyses(RowsAt(rows, Within(rows, listing, now)), listing, now)
  <1> DEFINE kept == RowsAt(rows, Within(rows, listing, now))
             F == Frames(rows, listing, now)
             K == Frames(kept, listing, now)
             WindowsOf(G) == {[w \in Windows |-> WindowStats(f, listing, w)] : f \in G}
             CandidatesOf(G) == {Candidates(f, listing) : f \in {g \in G : ~Refused(g)}}
  <1>1. F \subseteq K
    BY KeptFrames
  <1>2. a \in [windows : WindowsOf(F), candidates : CandidatesOf(F)]
    BY DEF Analyses
  <1> HIDE DEF F, K
  <1>3. WindowsOf(F) \subseteq WindowsOf(K) /\ CandidatesOf(F) \subseteq CandidatesOf(K)
    BY <1>1
  <1> HIDE DEF WindowsOf, CandidatesOf
  <1>4. a \in [windows : WindowsOf(K), candidates : CandidatesOf(K)]
    BY <1>2, <1>3
  <1> QED
    BY <1>4 DEF Analyses, WindowsOf, CandidatesOf, K

-----------------------------------------------------------------------------
(* The analysis: the first and the last row *)

\* sorted() leaves one of the rows as the first.
LEMMA EarliestExists ==
  ASSUME NEW f \in Seq(Quotes), NEW I \in SUBSET DOMAIN f, I # {}
  PROVE  \E i \in I : \A j \in I : Before(f, i, j)
  <1>0. \A i \in I : f[i].ts \in Nat /\ i \in Nat
    BY RowIsTyped
  <1> DEFINE T == {f[i].ts : i \in I}
  <1>1. T \in SUBSET Nat /\ T # {}
    BY <1>0
  <1>2. PICK t \in T : \A u \in T : t <= u
    BY <1>1, NatLeast
  <1> DEFINE J == {i \in I : f[i].ts = t}
  <1>3. J \in SUBSET Nat /\ J # {}
    BY <1>0, <1>2
  <1>4. PICK i \in J : \A j \in J : i <= j
    BY <1>3, NatLeast
  <1>5. \A j \in I : f[j].ts \in Nat /\ t <= f[j].ts /\ t \in Nat
    BY <1>0, <1>2
  <1>6. \A j \in I : Before(f, i, j)
    BY <1>4, <1>5 DEF Before
  <1> QED
    BY <1>4, <1>6

LEMMA BeforeIsOrder ==
  ASSUME NEW f \in Seq(Quotes), NEW i \in DOMAIN f, NEW j \in DOMAIN f,
         Before(f, i, j), Before(f, j, i)
  PROVE  i = j
  <1>1. f[i].ts \in Nat /\ f[j].ts \in Nat /\ i \in Nat /\ j \in Nat
    BY RowIsTyped
  <1> QED
    BY <1>1 DEF Before

\* The first and the last of some rows are the same rows after all others are
\* left out.
LEMMA KeptEnds ==
  ASSUME NEW rows \in Seq(Quotes), NEW now \in Nat,
         NEW I \in SUBSET DOMAIN rows, I # {}, \A i \in I : rows[i].ts <= now
  PROVE  LET kept == RowsAt(rows, I)
         IN  /\ Earliest(kept, DOMAIN kept) = Earliest(rows, I)
             /\ Latest(kept, DOMAIN kept) = Latest(rows, I)
  <1> DEFINE kept == RowsAt(rows, I)
             m == Cardinality(I)
  <1>1. kept \in Seq(Quotes) /\ Len(kept) = m /\ m \in Nat
    BY RowsAtPlaces
  <1>2a. PICK e : Places(e, rows, I)
    BY RowsAtPlaces
  <1>2. /\ e \in [1..m -> I]
        /\ \A k, l \in 1..m : k < l <=> e[k] < e[l]
        /\ \A k, l \in 1..m : k = l <=> e[k] = e[l]
        /\ \A i \in I : \E k \in 1..m : e[k] = i
        /\ \A k \in 1..m : kept[k] = rows[e[k]]
    BY <1>2a DEF Places
  <1> HIDE DEF kept, m
  <1>3. DOMAIN kept = 1..m
    BY <1>1
  <1>4. \A k, l \in 1..m : Before(kept, k, l) <=> Before(rows, e[k], e[l])
    <2> TAKE k, l \in 1..m
    <2>1. k <= l <=> e[k] <= e[l]
      <3>1. e[k] \in Int /\ e[l] \in Int
        BY <1>2
      <3> QED
        BY <1>2, <3>1
    <2>2. kept[k] = rows[e[k]] /\ kept[l] = rows[e[l]]
      BY <1>2
    <2> QED
      BY <2>1, <2>2 DEF Before
  <1>5. Earliest(kept, 1..m) = Earliest(rows, I)
    <2>1. PICK i \in I : /\ \A j \in I : Before(rows, i, j)
                         /\ Earliest(rows, I) = rows[i]
      <3>1. \E i \in I : \A j \in I : Before(rows, i, j)
        BY EarliestExists
      <3> QED
        BY <3>1 DEF Earliest
    <2>2. PICK k \in 1..m : e[k] = i
      BY <1>2
    <2>3. \A l \in 1..m : Before(kept, k, l)
      BY <1>2, <1>4, <2>1, <2>2
    <2>4. PICK l \in 1..m : /\ \A h \in 1..m : Before(kept, l, h)
                            /\ Earliest(kept, 1..m) = kept[l]
      BY <2>3 DEF Earliest
    <2>5. k = l
      BY <1>1, <1>3, <2>3, <2>4, BeforeIsOrder
    <2> QED
      BY <1>2, <2>1, <2>2, <2>4, <2>5
  <1>6. Latest(kept, 1..m) = Latest(rows, I)
    <2>1. PICK i \in I : /\ \A j \in I : Before(rows, j, i)
                         /\ Latest(rows, I) = rows[i]
      <3>1. \E i \in I : \A j \in I : Before(rows, j, i)
        BY LatestExists
      <3> QED
        BY <3>1 DEF Latest
    <2>2. PICK k \in 1..m : e[k] = i
      BY <1>2
    <2>3. \A l \in 1..m : Before(kept, l, k)
      BY <1>2, <1>4, <2>1, <2>2
    <2>4. PICK l \in 1..m : /\ \A h \in 1..m : Before(kept, h, l)
                            /\ Latest(kept, 1..m) = kept[l]
      BY <2>3 DEF Latest
    <2>5. k = l
      BY <1>1, <1>3, <2>3, <2>4, BeforeIsOrder
    <2> QED
      BY <1>2, <2>1, <2>2, <2>4, <2>5
  <1> QED
    BY <1>3, <1>5, <1>6 DEF kept

\* Nor have the rows outside the view any influence on the signal.
LEMMA KeptSignal ==
  ASSUME NEW rows \in Seq(Quotes), NEW listing \in Nat, NEW now \in Nat
  PROVE  SignalOf(RowsAt(rows, Within(rows, listing, now)), listing, now)
            = SignalOf(rows, listing, now)
  <1> DEFINE I == Within(rows, listing, now)
             kept == RowsAt(rows, I)
             m == Cardinality(I)
  <1>0. /\ I \in SUBSET DOMAIN rows /\ \A i \in I : rows[i].ts >= listing /\ rows[i].ts <= now
        /\ Seen(rows, listing, now) = I
    BY DEF Within, Seen
  <1> HIDE DEF I
  <1>1. kept \in Seq(Quotes) /\ Len(kept) = m /\ m \in Nat
    BY <1>0, RowsAtPlaces
  <1>2a. PICK e : Places(e, rows, I)
    BY <1>0, RowsAtPlaces
  <1>2. /\ e \in [1..m -> I]
        /\ \A k, l \in 1..m : k < l <=> e[k] < e[l]
        /\ \A k, l \in 1..m : k = l <=> e[k] = e[l]
        /\ \A i \in I : \E k \in 1..m : e[k] = i
        /\ \A k \in 1..m : kept[k] = rows[e[k]]
    BY <1>2a DEF Places
  <1>3. DOMAIN kept = 1..m /\ Seen(kept, listing, now) = 1..m
    <2>1. DOMAIN kept = 1..m
      BY <1>1
    <2>2. \A k \in 1..m : kept[k].ts <= now /\ kept[k].ts >= listing
      BY <1>0, <1>2
    <2> HIDE DEF kept, m
    <2> QED
      BY <2>1, <2>2 DEF Seen
  <1>4. (\A i, j \in 1..m : i = j) <=> (\A i, j \in I : i = j)
    BY <1>2
  <1>5. CASE I = {}
    <2>1. \A i, j \in I : i = j
      BY <1>5
    <2>2. \A i, j \in 1..m : i = j
      BY <1>4, <2>1
    <2>3. SignalOf(kept, listing, now) = None
      BY <1>3, <2>2 DEF SignalOf
    <2>4. SignalOf(rows, listing, now) = None
      BY <1>0, <2>1 DEF SignalOf
    <2> QED
      BY <2>3, <2>4 DEF kept, I
  <1>6. CASE I # {}
    <2>1. Earliest(kept, 1..m) = Earliest(rows, I) /\ Latest(kept, 1..m) = Latest(rows, I)
      BY <1>0, <1>3, <1>6, KeptEnds, SMTT(20)
    <2> HIDE DEF kept, m
    <2>2. SignalOf(kept, listing, now) = SignalOf(rows, listing, now)
      BY <1>0, <1>3, <1>4, <2>1, SMTT(20) DEF SignalOf
    <2> QED
      BY <2>2 DEF kept, I
  <1> QED
    BY <1>5, <1>6

-----------------------------------------------------------------------------
(* The analysis in the run *)

\* The analysis is one of this fixture, and so is the signal, if there is none
\* as well.
Analysed ==
    stage \notin {"idle", "failed", "loaded"} =>
        /\ analysis \in Analyses(snaps, Listing, Now.ts)
        /\ stage # "analysed" => signal = SignalOf(snaps, Listing, Now.ts)

\* The analysis and the signal stay those of the fixture to the end of the run.
THEOREM AnalysisInvariance == RunSpec => []Analysed
<1>1. RunInit => Analysed
  BY DEF RunInit, OrderInit, Analysed
<1>2. Analysed /\ [RunNext]_runVars => Analysed'
  <2> SUFFICES ASSUME Analysed, [RunNext]_runVars
               PROVE  Analysed'
    OBVIOUS
  <2>1. CASE stage' \in {"idle", "failed", "loaded"}
    BY <2>1 DEF Analysed
  <2>2. CASE Analyse
    <3>1. CASE stage' = "analysed"
      BY <2>2, <3>1 DEF Analyse, Analysed, Listing, Now
    <3> QED
      BY <2>1, <2>2, <3>1 DEF Analyse
  <2>3. CASE Generate
    <3>1. stage = "analysed" /\ UNCHANGED <<snaps, analysis>>
          /\ signal' = SignalOf(snaps, Listing, Now.ts)
      BY <2>3 DEF Generate
    <3>2. Listing' = Listing /\ Now' = Now
      BY <3>1 DEF Listing, Now
    <3> QED
      BY <3>1, <3>2 DEF Analysed
  <2>4. CASE /\ UNCHANGED <<snaps, signal, analysis>>
             /\ stage' = stage \/ (stage' # "analysed"
                                  /\ stage \notin {"idle", "failed", "loaded", "analysed"})
    <3>1. Listing' = Listing /\ Now' = Now
      BY <2>4 DEF Listing, Now
    <3> QED
      BY <2>4, <3>1 DEF Analysed
  <2>5. \/ stage' \in {"idle", "failed", "loaded"} \/ Analyse \/ Generate
        \/ /\ UNCHANGED <<snaps, signal, analysis>>
           /\ stage' = stage \/ (stage' # "analysed"
                                /\ stage \notin {"idle", "failed", "loaded", "analysed"})
    BY DEF RunNext, Load, DraftOrder, Check, Evaluate, SubmitPaper, Submit, BrokerFill,
           RefuseMarket, RefusePrice, Refuse, Fill, WriteReport, runVars, orderVars
  <2> QED
    BY <2>1, <2>2, <2>3, <2>4, <2>5
<1> QED
  BY <1>1, <1>2, PTL DEF RunSpec

\* What the proofs about the analysis start from.
LEMMA AnalysedRun ==
  ASSUME RunInv, Analysed, stage \notin {"idle", "failed", "loaded"}
  PROVE  /\ snaps \in Seq(Quotes) /\ Len(snaps) >= 4 /\ Len(snaps) \in Nat
         /\ Listing = snaps[1].ts /\ Now = snaps[4] /\ Listing \in Nat /\ Now.ts \in Nat
         /\ InView = Within(snaps, Listing, Now.ts)
         /\ analysis \in Analyses(snaps, Listing, Now.ts)
         /\ stage # "analysed" => signal = SignalOf(snaps, Listing, Now.ts)
  <1>1. snaps \in Seq(Quotes) /\ Len(snaps) >= 4
    BY DEF RunInv, OrderedRun, Progress
  <1>2. snaps[1].ts \in Nat /\ snaps[4].ts \in Nat /\ Len(snaps) \in Nat
    BY <1>1, RowIsTyped
  <1>3. InView = Within(snaps, Listing, Now.ts)
    BY DEF InView, Within, Listing, Now
  <1> QED
    BY <1>1, <1>2, <1>3 DEF Analysed, Listing, Now

\* For every fixture: the analysis is one of the fixture without the rows
\* after the evaluation time or before the listing, the signal is its signal,
\* and the order carries that time.
THEOREM NoLookahead == RunSpec => []FutureDoesNotMatter
<1>1. RunInv /\ Analysed => FutureDoesNotMatter
  <2> SUFFICES ASSUME RunInv, Analysed, stage \notin {"idle", "failed", "loaded"}
               PROVE  /\ analysis \in Analyses(RowsAt(snaps, InView), snaps[1].ts, snaps[4].ts)
                      /\ stage # "analysed" =>
                            signal = SignalOf(RowsAt(snaps, InView), snaps[1].ts, snaps[4].ts)
                      /\ order # None => order.ts = snaps[4].ts
    BY DEF FutureDoesNotMatter
  <2>1. analysis \in Analyses(RowsAt(snaps, InView), snaps[1].ts, snaps[4].ts)
    BY AnalysedRun, KeptAnalyses
  <2>2. ASSUME stage # "analysed"
        PROVE  signal = SignalOf(RowsAt(snaps, InView), snaps[1].ts, snaps[4].ts)
    BY <2>2, AnalysedRun, KeptSignal
  <2>3. ASSUME order # None
        PROVE  order.ts = snaps[4].ts
    <3>1. stage \in Drafted
      BY <2>3 DEF RunInv, OrderedRun, Progress
    <3>2. order.ts = signal.ts /\ signal # None /\ signal = SignalOf(snaps, Listing, Now.ts)
      BY <3>1 DEF RunInv, OrderedRun, Progress, FromSignal
    <3>3. signal.ts = Now.ts
      BY <3>2, AnalysedRun, SignalIsOfNow
    <3> QED
      BY <3>2, <3>3 DEF Now
  <2> QED
    BY <2>1, <2>2, <2>3
<1> QED
  BY <1>1, RunInvariance, AnalysisInvariance, PTL

-----------------------------------------------------------------------------
(* The analysis: a window, and the least of some returns *)

\* g is what f begins with, up to the time t.
Opens(g, f, t) ==
    /\ g \in Seq(Quotes) /\ Len(g) \in 0..Len(f)
    /\ g = [k \in 1..Len(g) |-> f[k]]
    /\ \A k \in 1..Len(f) : k \in 1..Len(g) <=> f[k].ts <= t

\* A window's rows are those of the view up to its end, by time; and they are
\* the first of the frame.
LEMMA WindowArranges ==
  ASSUME NEW rows \in Seq(Quotes), NEW I \in SUBSET DOMAIN rows,
         NEW listing \in Nat, \A i \in I : rows[i].ts >= listing,
         NEW f, Arranges(f, rows, I), NEW w \in Nat
  PROVE  LET window == WindowSlice(f, listing, w)
         IN  /\ Arranges(window, rows, {i \in I : rows[i].ts <= listing + w})
             /\ Opens(window, f, listing + w)
  <1> DEFINE S == {i \in DOMAIN f : f[i].ts <= listing + w}
             J == {i \in I : rows[i].ts <= listing + w}
             n == Len(f)
  <1>1. /\ f \in Seq(Quotes) /\ InTime(f) /\ n \in Nat /\ DOMAIN f = 1..n
        /\ listing + w \in Nat
    BY DEF Arranges
  <1>2. PICK q : Leads(q, f, rows, I)
    BY DEF Arranges
  <1>3. \A k \in 1..n : q[k] \in I /\ f[k] = rows[q[k]] /\ f[k].ts >= listing
    BY <1>2 DEF Leads
  <1>4. WindowSlice(f, listing, w) = RowsAt(f, S)
    <2>1. S = {i \in DOMAIN f : f[i].ts >= listing /\ f[i].ts <= listing + w}
      BY <1>1, <1>3
    <2> QED
      BY <2>1 DEF WindowSlice
  <1>5. PICK m \in 0..n : S = 1..m
    BY <1>1, UpToIsPrefix
  <1>6. /\ RowsAt(f, S) = [k \in 1..m |-> f[k]] /\ Len(RowsAt(f, S)) = m
    <2>1. RowsAt(f, 1..m) = [k \in 1..m |-> f[k]] /\ Len(RowsAt(f, 1..m)) = m
      BY <1>1, PrefixRows
    <2> HIDE DEF S
    <2> QED
      BY <1>5, <2>1
  <1>7. Arranges(RowsAt(f, S), rows, J)
    <2>1. S \in SUBSET DOMAIN f /\ J \in SUBSET I
      OBVIOUS
    <2>2. \A k \in DOMAIN f : k \in S <=> q[k] \in J
      BY <1>1, <1>3
    <2> HIDE DEF S, J
    <2> QED
      BY <1>2, <2>1, <2>2, SelectionArranges
  <1>8. \A k \in 1..n : k \in 1..m <=> f[k].ts <= listing + w
    BY <1>1, <1>5
  <1>9. RowsAt(f, S) \in Seq(Quotes)
    BY <1>7 DEF Arranges
  <1> HIDE DEF S
  <1>10. Opens(RowsAt(f, S), f, listing + w)
    BY <1>5, <1>6, <1>8, <1>9 DEF Opens
  <1> QED
    BY <1>4, <1>7, <1>10

\* Comparing fractions of positive denominators.
LEMMA CancelFactor ==
  ASSUME NEW d \in Nat \ {0}, NEW x \in Int, NEW y \in Int, d * x <= d * y
  PROVE  x <= y
  <1>1. y + 1 <= x => d * (y + 1) <= d * x
    BY ProductGrows
  <1>2. d * (y + 1) = d * y + d /\ d * y \in Int /\ d * x \in Int
    BY ProductIsInt
  <1> QED
    BY <1>1, <1>2

Fraction == Int \X (Nat \ {0})

LEMMA AtMostIsOrder ==
  /\ \A x, y \in Fraction : AtMost(x, y) \/ AtMost(y, x)
  /\ \A x, y, z \in Fraction : AtMost(x, y) /\ AtMost(y, z) => AtMost(x, z)
  <1>1. ASSUME NEW x \in Fraction, NEW y \in Fraction
        PROVE  AtMost(x, y) \/ AtMost(y, x)
    <2>1. x[1] * y[2] \in Int /\ y[1] * x[2] \in Int
      BY ProductIsInt DEF Fraction
    <2> QED
      BY <2>1 DEF AtMost
  <1>2. ASSUME NEW x \in Fraction, NEW y \in Fraction, NEW z \in Fraction,
               AtMost(x, y), AtMost(y, z)
        PROVE  AtMost(x, z)
    <2> DEFINE a == x[1]
               b == x[2]
               c == y[1]
               d == y[2]
               e == z[1]
               f == z[2]
    <2>1. /\ a \in Int /\ c \in Int /\ e \in Int
          /\ b \in Nat \ {0} /\ d \in Nat \ {0} /\ f \in Nat \ {0}
          /\ a * d <= c * b /\ c * f <= e * d
      BY <1>2 DEF Fraction, AtMost
    <2> HIDE DEF a, b, c, d, e, f
    <2>2. f * (a * d) <= f * (c * b)
      <3>1. a * d \in Int /\ c * b \in Int
        BY <2>1, ProductIsInt
      <3> QED
        BY <2>1, <3>1, ProductGrows
    <2>3. b * (c * f) <= b * (e * d)
      <3>1. c * f \in Int /\ e * d \in Int
        BY <2>1, ProductIsInt
      <3> QED
        BY <2>1, <3>1, ProductGrows
    <2>4. f * (a * d) = d * (a * f) /\ f * (c * b) = b * (c * f) /\ b * (e * d) = d * (e * b)
      BY <2>1
    <2>5. a * f \in Int /\ e * b \in Int /\ c * f \in Int
      BY <2>1, ProductIsInt
    <2>6. d * (a * f) \in Int /\ b * (c * f) \in Int /\ d * (e * b) \in Int
      BY <2>1, <2>5, ProductIsInt
    <2>7. d * (a * f) <= d * (e * b)
      BY <2>2, <2>3, <2>4, <2>6
    <2>8. a * f <= e * b
      BY <2>1, <2>5, <2>7, CancelFactor
    <2> QED
      BY <2>8 DEF AtMost, a, b, e, f
  <1> QED
    BY <1>1, <1>2

\* Of some fractions one is the least.
LEMMA LeastFraction ==
  ASSUME NEW n \in Nat, NEW J \in SUBSET (1..n), J # {}, NEW F \in [J -> Fraction]
  PROVE  \E i \in J : \A j \in J : AtMost(F[i], F[j])
  <1> DEFINE Upto(m) == {j \in J : j <= m}
             Without == {m \in Nat : Upto(m) # {}
                                     /\ ~ \E i \in Upto(m) : \A j \in Upto(m) : AtMost(F[i], F[j])}
  <1>0. \A j \in J : j \in Nat /\ j >= 1 /\ j <= n
    OBVIOUS
  <1>1. Without = {}
    <2> SUFFICES ASSUME Without # {} PROVE FALSE
      OBVIOUS
    <2>1. PICK m \in Without : \A k \in Without : m <= k
      BY NatLeast
    <2>2. m \in Nat /\ m # 0
      <3>1. m \in Nat /\ Upto(m) # {}
        BY <2>1
      <3>2. PICK j \in J : j <= m
        BY <3>1
      <3> QED
        BY <1>0, <3>1, <3>2
    <2>3. m - 1 \in Nat /\ m - 1 \notin Without
      BY <2>1, <2>2
    <2>4. m \in J
      <3> SUFFICES ASSUME m \notin J PROVE FALSE
        OBVIOUS
      <3>1. Upto(m) = Upto(m - 1)
        <4>1. \A j \in J : j <= m <=> j <= m - 1
          BY <1>0, <2>2
        <4> QED
          BY <4>1
      <3> QED
        BY <2>1, <2>3, <3>1
    <2>5. Upto(m) = Upto(m - 1) \cup {m}
      <3>1. \A j \in J : j <= m <=> j <= m - 1 \/ j = m
        BY <1>0, <2>2
      <3> QED
        BY <2>4, <3>1
    <2>6. AtMost(F[m], F[m])
      BY <2>4, AtMostIsOrder
    <2>7. CASE Upto(m - 1) = {}
      BY <2>1, <2>5, <2>6, <2>7
    <2>8. CASE Upto(m - 1) # {}
      <3>1. PICK i \in Upto(m - 1) : \A j \in Upto(m - 1) : AtMost(F[i], F[j])
        BY <2>3, <2>8
      <3>2. F[i] \in Fraction /\ F[m] \in Fraction /\ \A j \in Upto(m) : F[j] \in Fraction
        BY <2>4
      <3>3. CASE AtMost(F[i], F[m])
        BY <2>1, <2>5, <3>1, <3>3
      <3>4. CASE AtMost(F[m], F[i])
        <4>1. \A j \in Upto(m - 1) : AtMost(F[m], F[j])
          BY <2>5, <3>1, <3>2, <3>4, AtMostIsOrder
        <4> QED
          BY <2>1, <2>5, <2>6, <4>1
      <3> QED
        BY <3>2, <3>3, <3>4, AtMostIsOrder
    <2> QED
      BY <2>7, <2>8
  <1>2. Upto(n) = J
    BY <1>0
  <1> QED
    BY <1>1, <1>2

-----------------------------------------------------------------------------
(* The analysis: the drawdown of a series of prices *)

LEMMA HighWaterIs ==
  ASSUME NEW p \in Seq(Nat), NEW i \in DOMAIN p
  PROVE  \E k \in 1..i : HighWater(p, i) = p[k] /\ \A j \in 1..i : p[j] <= p[k]
  <1> DEFINE F == [j \in 1..i |-> <<-p[j], 1>>]
             T == {p[j] : j \in 1..i}
  <1>0. i \in Nat /\ i >= 1 /\ \A j \in 1..i : p[j] \in Nat
    OBVIOUS
  <1>1. F \in [1..i -> Fraction] /\ 1..i # {}
    <2>1. \A j \in 1..i : <<-p[j], 1>> \in Fraction
      <3> TAKE j \in 1..i
      <3>1. p[j] \in Nat
        BY <1>0
      <3> QED
        BY <3>1 DEF Fraction
    <2> QED
      BY <1>0, <2>1
  <1>2. \E k \in 1..i : \A j \in 1..i : AtMost(F[k], F[j])
    <2> HIDE DEF F
    <2>1. 1..i \in SUBSET (1..i)
      OBVIOUS
    <2> QED
      BY <1>0, <1>1, <2>1, LeastFraction
  <1>3. PICK k \in 1..i : \A j \in 1..i : AtMost(F[k], F[j])
    BY <1>2
  <1>4. \A j \in 1..i : p[j] <= p[k]
    <2> TAKE j \in 1..i
    <2>1. AtMost(<<-p[k], 1>>, <<-p[j], 1>>)
      BY <1>3
    <2>2. p[j] \in Nat /\ p[k] \in Nat
      BY <1>0
    <2>3. \A x, y \in Nat : AtMost(<<-x, 1>>, <<-y, 1>>) => y <= x
      BY DEF AtMost
    <2> HIDE DEF F, T
    <2> QED
      BY <2>1, <2>2, <2>3
  <1>5. HighWater(p, i) = p[k]
    <2>1. p[k] \in T /\ \A y \in T : y \in Nat /\ p[k] >= y
      BY <1>0, <1>4
    <2>2. HighWater(p, i) \in T /\ \A y \in T : HighWater(p, i) >= y
      <3> HIDE DEF T
      <3>1. Max(T) \in T /\ \A y \in T : Max(T) >= y
        BY <2>1 DEF Max
      <3> QED
        BY <3>1 DEF HighWater, T
    <2> HIDE DEF T
    <2>3. HighWater(p, i) \in Nat /\ p[k] \in Nat
          /\ HighWater(p, i) >= p[k] /\ p[k] >= HighWater(p, i)
      BY <2>1, <2>2
    <2> QED
      BY <2>3
  <1> QED
    BY <1>4, <1>5

\* From a higher price the fall to the same one is the deeper.
LEMMA DeeperFromHigher ==
  ASSUME NEW g \in Nat \ {0}, NEW h \in Nat, NEW x \in Nat, g <= h
  PROVE  /\ Change(h, x) \in Fraction /\ Change(g, x) \in Fraction
         /\ AtMost(Change(h, x), Change(g, x))
  <1>1. x * g <= x * h
    BY ProductGrows
  <1>2. /\ (x - h) * g = x * g - h * g /\ (x - g) * h = x * h - g * h /\ g * h = h * g
        /\ x * g \in Int /\ x * h \in Int /\ h * g \in Int
    BY ProductIsInt
  <1>3. (x - h) * g <= (x - g) * h
    BY <1>1, <1>2
  <1>4. Change(h, x) = <<x - h, h>> /\ Change(g, x) = <<x - g, g>>
    BY DEF Change
  <1>5. h \in Nat \ {0}
    OBVIOUS
  <1> QED
    BY <1>3, <1>4, <1>5 DEF AtMost, Fraction

LEMMA FractionIsSome == None \notin Fraction
  BY NoneAssumption DEF Fraction

\* What the drawdown of a series is: the least of all its falls, and one of
\* them; and none only for want of a price that could fall.
LEMMA WorstFall ==
  ASSUME NEW p \in Seq(Nat)
  PROVE  LET d == WorstDrawdown(p)
         IN  /\ d = None <=> Len(p) < 2 \/ \A i \in DOMAIN p : p[i] = 0
             /\ d # None =>
                  /\ d \in Fraction
                  /\ \E i, j \in DOMAIN p : i <= j /\ p[i] > 0 /\ d = Change(p[i], p[j])
                  /\ \A i, j \in DOMAIN p : i <= j /\ p[i] > 0 => AtMost(d, Change(p[i], p[j]))
  <1> DEFINE d == WorstDrawdown(p)
             n == Len(p)
             J == {j \in DOMAIN p : HighWater(p, j) > 0}
             F == [i \in J |-> Change(HighWater(p, i), p[i])]
             falls == {Change(HighWater(p, i), p[i]) : i \in J}
  <1>0. n \in Nat /\ DOMAIN p = 1..n /\ \A j \in 1..n : p[j] \in Nat /\ 1..j \subseteq 1..n
    OBVIOUS
  <1>1. \A i \in 1..n : \E k \in 1..i : HighWater(p, i) = p[k] /\ \A j \in 1..i : p[j] <= p[k]
    BY <1>0, HighWaterIs
  <1>2. \A i \in J : F[i] = Change(HighWater(p, i), p[i]) /\ F[i] \in Fraction
    <2> TAKE i \in J
    <2>1. HighWater(p, i) \in Nat /\ HighWater(p, i) > 0 /\ i \in 1..n
      BY <1>0, <1>1
    <2>2. Change(HighWater(p, i), p[i]) = <<p[i] - HighWater(p, i), HighWater(p, i)>>
      BY DEF Change
    <2> QED
      BY <1>0, <2>1, <2>2 DEF Fraction
  <1>3. \A i, j \in 1..n : i <= j /\ p[i] > 0 =>
           j \in J /\ AtMost(F[j], Change(p[i], p[j])) /\ Change(p[i], p[j]) \in Fraction
    <2> SUFFICES ASSUME NEW i \in 1..n, NEW j \in 1..n, i <= j, p[i] > 0
                 PROVE  j \in J /\ AtMost(F[j], Change(p[i], p[j]))
                        /\ Change(p[i], p[j]) \in Fraction
      OBVIOUS
    <2>1. p[i] <= HighWater(p, j) /\ HighWater(p, j) \in Nat
      <3>1. PICK k \in 1..j : HighWater(p, j) = p[k] /\ \A l \in 1..j : p[l] <= p[k]
        BY <1>1
      <3>2. i \in 1..j
        OBVIOUS
      <3> QED
        BY <1>0, <3>1, <3>2
    <2>2. p[i] \in Nat \ {0} /\ p[j] \in Nat
      BY <1>0
    <2>3. j \in J
      BY <1>0, <2>1, <2>2
    <2>4. AtMost(Change(HighWater(p, j), p[j]), Change(p[i], p[j]))
          /\ Change(p[i], p[j]) \in Fraction
      BY <2>1, <2>2, DeeperFromHigher
    <2> QED
      BY <1>2, <2>3, <2>4
  <1>4. J = {} <=> \A i \in 1..n : p[i] = 0
    <2>1. ASSUME NEW i \in 1..n, p[i] # 0
          PROVE  J # {}
      <3>1. p[i] > 0 /\ i <= i
        BY <1>0, <2>1
      <3> QED
        BY <1>3, <3>1
    <2>2. ASSUME NEW j \in J
          PROVE  \E i \in 1..n : p[i] # 0
      BY <1>0, <1>1
    <2> QED
      BY <2>1, <2>2
  <1>5. d = IF n < 2 \/ falls = {} THEN None
            ELSE CHOOSE f \in falls : \A g \in falls : AtMost(f, g)
    BY DEF WorstDrawdown
  <1>6. falls = {} <=> J = {}
    OBVIOUS
  <1>7. F \in [J -> Fraction] /\ J \in SUBSET (1..n) /\ falls = {F[i] : i \in J}
    BY <1>0, <1>2
  <1>8. ASSUME n >= 2, J # {}
        PROVE  /\ d \in Fraction
               /\ \E i, j \in 1..n : i <= j /\ p[i] > 0 /\ d = Change(p[i], p[j])
               /\ \A i, j \in 1..n : i <= j /\ p[i] > 0 => AtMost(d, Change(p[i], p[j]))
    <2> HIDE DEF J, F, falls, d
    <2>1. PICK i \in J : \A j \in J : AtMost(F[i], F[j])
      BY <1>0, <1>7, <1>8, LeastFraction
    <2>2. F[i] \in falls /\ \A g \in falls : AtMost(F[i], g)
      BY <1>7, <2>1
    <2>3. d \in falls /\ \A g \in falls : AtMost(d, g)
      <3>1. d = CHOOSE f \in falls : \A g \in falls : AtMost(f, g)
        BY <1>0, <1>5, <1>6, <1>8
      <3> QED
        BY <2>2, <3>1
    <2>4. PICK j \in J : d = F[j]
      BY <1>7, <2>3
    <2>5. d \in Fraction
      BY <1>7, <2>4
    <2>6. \E k \in 1..n : k <= j /\ p[k] > 0 /\ d = Change(p[k], p[j])
      <3>1. j \in 1..n /\ HighWater(p, j) > 0 /\ d = Change(HighWater(p, j), p[j])
        BY <1>2, <1>7, <2>4 DEF J
      <3>2. PICK k \in 1..j : HighWater(p, j) = p[k]
        BY <1>1, <3>1
      <3> QED
        BY <1>0, <3>1, <3>2
    <2>7. ASSUME NEW k \in 1..n, NEW l \in 1..n, k <= l, p[k] > 0
          PROVE  AtMost(d, Change(p[k], p[l]))
      <3>1. l \in J /\ AtMost(F[l], Change(p[k], p[l])) /\ Change(p[k], p[l]) \in Fraction
        BY <1>3, <2>7
      <3>2. AtMost(d, F[l]) /\ F[l] \in Fraction
        BY <1>7, <2>3, <3>1
      <3> QED
        BY <2>5, <3>1, <3>2, AtMostIsOrder
    <2>8. j \in 1..n
      BY <1>7
    <2> QED
      BY <2>5, <2>6, <2>7, <2>8
  <1>9. ASSUME n < 2 \/ J = {}
        PROVE  d = None
    BY <1>5, <1>6, <1>9
  <1>10. n < 2 \/ n >= 2
    BY <1>0
  <1> HIDE DEF d, J, F, falls
  <1>11. d # None => n >= 2 /\ J # {}
    BY <1>9, <1>10
  <1>12. n >= 2 /\ J # {} => d # None
    BY <1>8, FractionIsSome
  <1>13. d = None <=> n < 2 \/ J = {}
    BY <1>9, <1>10, <1>12, <1>0
  <1> QED
    BY <1>0, <1>4, <1>8, <1>11, <1>13 DEF d

-----------------------------------------------------------------------------
(* The analysis of a run: its windows *)

\* The windows are statistics of one frame, the candidates of one that is not
\* refused; both are the rows in view, by time.
LEMMA AnalysisOfFrames ==
  ASSUME RunInv, Analysed, stage \notin {"idle", "failed", "loaded"}
  PROVE  /\ \E f : /\ Arranges(f, snaps, InView)
                   /\ \A w \in Windows : analysis.windows[w] = WindowStats(f, Listing, w)
         /\ \E f : /\ Arranges(f, snaps, InView) /\ ~Refused(f)
                   /\ analysis.candidates = Candidates(f, Listing)
  <1> DEFINE frames == Frames(snaps, Listing, Now.ts)
  <1>1. \A f \in frames : Arranges(f, snaps, InView)
    BY AnalysedRun, FramesArrange
  <1>2. analysis \in
          [windows : {[w \in Windows |-> WindowStats(f, Listing, w)] : f \in frames},
           candidates : {Candidates(f, Listing) : f \in {g \in frames : ~Refused(g)}}]
    BY AnalysedRun DEF Analyses
  <1> HIDE DEF frames
  <1>3. PICK f \in frames : analysis.windows = [w \in Windows |-> WindowStats(f, Listing, w)]
    BY <1>2
  <1>4. PICK g \in frames : ~Refused(g) /\ analysis.candidates = Candidates(g, Listing)
    BY <1>2
  <1>5. \A w \in Windows : analysis.windows[w] = WindowStats(f, Listing, w)
    BY <1>3
  <1> QED
    BY <1>1, <1>4, <1>5

LEMMA ArrangedLength ==
  ASSUME NEW rows \in Seq(Quotes), NEW I, NEW f, Arranges(f, rows, I)
  PROVE  f \in Seq(Quotes) /\ Len(f) \in Nat /\ DOMAIN f = 1..Len(f)
         /\ Cardinality(I) = Len(f)
  <1>1. f \in Seq(Quotes) /\ Len(f) \in Nat /\ DOMAIN f = 1..Len(f)
    BY DEF Arranges
  <1>2. PICK q : Leads(q, f, rows, I)
    BY DEF Arranges
  <1>3. q \in Bijection(1..Len(f), I)
    BY <1>2 DEF Leads, Bijection, Injection, IsInjective, Surjection
  <1>4. ExistsBijection(1..Len(f), I)
    BY <1>3 DEF ExistsBijection
  <1>5. Cardinality(I) = Len(f)
    BY <1>1, <1>4, FS_CountingElements
  <1> QED
    BY <1>1, <1>5

LEMMA PricesOf ==
  ASSUME NEW f \in Seq(Quotes)
  PROVE  /\ Prices(f) \in Seq(Nat) /\ Len(Prices(f)) = Len(f) /\ DOMAIN Prices(f) = 1..Len(f)
         /\ \A k \in 1..Len(f) : Prices(f)[k] = FloatPrice(f[k]) /\ Prices(f)[k] \in Floats
  <1>1. DOMAIN f = 1..Len(f) /\ Len(f) \in Nat
    OBVIOUS
  <1>2. \A k \in 1..Len(f) : FloatPrice(f[k]) \in Nat /\ FloatPrice(f[k]) \in Floats
    BY <1>1, RowIsTyped
  <1>3. Prices(f) = [k \in 1..Len(f) |-> FloatPrice(f[k])]
    BY <1>1 DEF Prices
  <1> QED
    BY <1>1, <1>2, <1>3

LEMMA StatsFields ==
  ASSUME NEW f, NEW listing, NEW w
  PROVE  LET rows == WindowSlice(f, listing, w)
             s == WindowStats(f, listing, w)
         IN  /\ s.simpleReturn = SimpleReturn(Prices(rows))
             /\ s.volatilityKnown = VolatilityKnown(Prices(rows))
             /\ s.maxDrawdown = WorstDrawdown(Prices(rows))
             /\ s.meanLiquidity = MeanLiquidity(rows)
             /\ s.observations = Len(rows)
  BY DEF WindowStats

\* d is the deepest fall among the rows at the places I, or None for want of one.
IsWorstFall(d, rows, I) ==
    /\ d = None => Cardinality(I) < 2 \/ \A i \in I : FloatPrice(rows[i]) = 0
    /\ d # None =>
         /\ \A i, j \in I : rows[i].ts < rows[j].ts /\ FloatPrice(rows[i]) > 0 =>
               AtMost(d, Change(FloatPrice(rows[i]), FloatPrice(rows[j])))
         /\ \E i, j \in I : rows[i].ts <= rows[j].ts /\ FloatPrice(rows[i]) > 0
                            /\ d = Change(FloatPrice(rows[i]), FloatPrice(rows[j]))

\* The drawdown of a window in terms of the fixture's rows.
LEMMA DrawdownOfRows ==
  ASSUME NEW rows \in Seq(Quotes), NEW I \in SUBSET DOMAIN rows,
         NEW f, Arranges(f, rows, I), NEW d, d = WorstDrawdown(Prices(f))
  PROVE  IsWorstFall(d, rows, I)
  <1> DEFINE p == Prices(f)
             n == Len(f)
  <1>1. f \in Seq(Quotes) /\ n \in Nat /\ Cardinality(I) = n
    BY ArrangedLength
  <1>2. PICK q : Leads(q, f, rows, I)
    BY DEF Arranges
  <1>3. /\ p \in Seq(Nat) /\ Len(p) = n /\ DOMAIN p = 1..n
        /\ \A k \in 1..n : p[k] = FloatPrice(f[k])
    BY <1>1, PricesOf
  <1>4. /\ d = None => n < 2 \/ \A i \in 1..n : p[i] = 0
        /\ d # None =>
             /\ \E i, j \in 1..n : i <= j /\ p[i] > 0 /\ d = Change(p[i], p[j])
             /\ \A i, j \in 1..n : i <= j /\ p[i] > 0 => AtMost(d, Change(p[i], p[j]))
    BY <1>3, WorstFall
  <1> HIDE DEF p, n
  <1>5. \A k \in 1..n : q[k] \in I /\ p[k] = FloatPrice(rows[q[k]]) /\ f[k].ts = rows[q[k]].ts
    BY <1>2, <1>3 DEF Leads, n
  <1>6. \A i \in I : \E k \in 1..n : q[k] = i
    BY <1>2 DEF Leads, n
  <1>7. \A k, l \in 1..n : k <= l => f[k].ts <= f[l].ts
    BY DEF Arranges, InTime, n
  <1>8. ASSUME d = None
        PROVE  Cardinality(I) < 2 \/ \A i \in I : FloatPrice(rows[i]) = 0
    BY <1>1, <1>4, <1>5, <1>6, <1>8
  <1>9. ASSUME d # None, NEW i \in I, NEW j \in I, rows[i].ts < rows[j].ts, FloatPrice(rows[i]) > 0
        PROVE  AtMost(d, Change(FloatPrice(rows[i]), FloatPrice(rows[j])))
    <2>1. PICK k \in 1..n : q[k] = i
      BY <1>6
    <2>2. PICK l \in 1..n : q[l] = j
      BY <1>6
    <2>3. k <= l
      <3>1. ~(rows[j].ts <= rows[i].ts)
        <4>1. rows[i].ts \in Nat /\ rows[j].ts \in Nat
          BY RowIsTyped
        <4> QED
          BY <1>9, <4>1
      <3>2. ~(l <= k)
        BY <1>5, <1>7, <2>1, <2>2, <3>1
      <3>3. k \in Nat /\ l \in Nat
        BY <1>1
      <3> QED
        BY <3>2, <3>3
    <2> QED
      BY <1>4, <1>5, <1>9, <2>1, <2>2, <2>3
  <1>10. ASSUME d # None
         PROVE  \E i, j \in I : rows[i].ts <= rows[j].ts /\ FloatPrice(rows[i]) > 0
                                /\ d = Change(FloatPrice(rows[i]), FloatPrice(rows[j]))
    <2>1. PICK k, l \in 1..n : k <= l /\ p[k] > 0 /\ d = Change(p[k], p[l])
      BY <1>4, <1>10
    <2>2. rows[q[k]].ts <= rows[q[l]].ts
      BY <1>5, <1>7, <2>1
    <2> QED
      BY <1>5, <2>1, <2>2
  <1> QED
    BY <1>8, <1>9, <1>10 DEF IsWorstFall

\* For every fixture and every set of windows: the drawdown of a window is the
\* deepest fall from a price to a later one, and is one of these falls.
THEOREM DrawdownCorrect == RunSpec => []DrawdownIsWorstFall
<1>1. RunInv /\ Analysed => DrawdownIsWorstFall
  <2> SUFFICES ASSUME RunInv, Analysed, stage = "analysed", NEW w \in Windows
               PROVE  LET I == {i \in InView : snaps[i].ts <= snaps[1].ts + w}
                          d == analysis.windows[w].maxDrawdown
                          Falls(Rel(_, _)) == {Change(FloatPrice(snaps[c[1]]), FloatPrice(snaps[c[2]])) :
                              c \in {x \in I \X I : Rel(snaps[x[1]].ts, snaps[x[2]].ts)
                                                   /\ FloatPrice(snaps[x[1]]) > 0}}
                      IN  IF d = None
                          THEN Cardinality(I) < 2 \/ \A i \in I : FloatPrice(snaps[i]) = 0
                          ELSE /\ \A f \in Falls(<) : AtMost(d, f)
                               /\ d[1] = 0 \/ d \in Falls(<=)
    BY DEF DrawdownIsWorstFall
  <2> DEFINE I == {i \in InView : snaps[i].ts <= snaps[1].ts + w}
             d == analysis.windows[w].maxDrawdown
  <2>1. /\ snaps \in Seq(Quotes) /\ Listing = snaps[1].ts /\ Listing \in Nat
        /\ InView = Within(snaps, Listing, Now.ts)
    BY AnalysedRun
  <2>2. InView \in SUBSET DOMAIN snaps /\ \A i \in InView : snaps[i].ts >= Listing
    BY <2>1 DEF Within
  <2>3. PICK f : /\ Arranges(f, snaps, InView)
                 /\ \A v \in Windows : analysis.windows[v] = WindowStats(f, Listing, v)
    BY AnalysisOfFrames
  <2> DEFINE window == WindowSlice(f, Listing, w)
  <2>4. w \in Nat
    BY FixturesAssumption
  <2>5. Arranges(window, snaps, I)
    BY <2>1, <2>2, <2>3, <2>4, WindowArranges
  <2>6. d = WorstDrawdown(Prices(window))
    BY <2>3, StatsFields
  <2>7. I \in SUBSET DOMAIN snaps
    BY <2>2
  <2> HIDE DEF I, d, window
  <2>8. IsWorstFall(d, snaps, I)
    BY <2>1, <2>5, <2>6, <2>7, DrawdownOfRows
  <2> DEFINE Later == {x \in I \X I : snaps[x[1]].ts < snaps[x[2]].ts /\ FloatPrice(snaps[x[1]]) > 0}
             NoSooner == {x \in I \X I : snaps[x[1]].ts <= snaps[x[2]].ts /\ FloatPrice(snaps[x[1]]) > 0}
  <2>9. ASSUME d # None
        PROVE  /\ \A c \in Later : AtMost(d, Change(FloatPrice(snaps[c[1]]), FloatPrice(snaps[c[2]])))
               /\ \E c \in NoSooner : d = Change(FloatPrice(snaps[c[1]]), FloatPrice(snaps[c[2]]))
    <3>1. \A c \in Later : AtMost(d, Change(FloatPrice(snaps[c[1]]), FloatPrice(snaps[c[2]])))
      BY <2>8, <2>9 DEF IsWorstFall
    <3>2. PICK i, j \in I : snaps[i].ts <= snaps[j].ts /\ FloatPrice(snaps[i]) > 0
                            /\ d = Change(FloatPrice(snaps[i]), FloatPrice(snaps[j]))
      BY <2>8, <2>9 DEF IsWorstFall
    <3>3. <<i, j>> \in NoSooner
      BY <3>2
    <3> QED
      BY <3>1, <3>2, <3>3
  <2> QED
    BY <2>8, <2>9 DEF I, d, IsWorstFall
<1> QED
  BY <1>1, RunInvariance, AnalysisInvariance, PTL

-----------------------------------------------------------------------------
(* The analysis of a run: what a wider window knows *)

LEMMA ReturnKnown ==
  ASSUME NEW p \in Seq(Nat)
  PROVE  /\ SimpleReturn(p) # None <=> Len(p) >= 2 /\ p[1] # 0
         /\ SimpleReturn(p) # None => SimpleReturn(p) = Change(p[1], p[Len(p)])
  <1>0. Len(p) \in Nat /\ DOMAIN p = 1..Len(p)
    OBVIOUS
  <1>1. CASE Len(p) < 2 \/ p[1] = 0
    BY <1>0, <1>1 DEF SimpleReturn
  <1>2. CASE Len(p) >= 2 /\ p[1] # 0
    <2>1. SimpleReturn(p) = Change(p[1], p[Len(p)])
      BY <1>0, <1>2 DEF SimpleReturn
    <2>2. p[1] \in Nat /\ p[Len(p)] \in Nat
      BY <1>0, <1>2
    <2>3. Change(p[1], p[Len(p)]) \in Int \X Int
      BY <2>2 DEF Change
    <2> QED
      BY <1>2, <2>1, <2>3, NoneAssumption
  <1> QED
    BY <1>0, <1>1, <1>2

\* A series that begins with a price of zero has an infinite return, or no two
\* at all.
LEMMA VolatileFromSome ==
  ASSUME NEW p \in Seq(Nat), VolatilityKnown(p)
  PROVE  Len(p) >= 3 /\ p[1] # 0
  <1> DEFINE steps == {i \in 2..Len(p) : p[i - 1] # 0 \/ p[i] # 0}
  <1>0. Len(p) \in Nat
    OBVIOUS
  <1>1. Len(p) >= 3 /\ Cardinality(steps) >= 2 /\ \A i \in steps : p[i - 1] # 0
    BY DEF VolatilityKnown
  <1>2. steps # {}
    <2>1. Cardinality({}) = 0
      BY FS_EmptySet
    <2>2. Cardinality(steps) # 0
      BY <1>1
    <2> HIDE DEF steps
    <2> QED
      BY <2>1, <2>2, Zenon
  <1>3. steps \in SUBSET Nat
    BY <1>0
  <1>4. PICK i \in steps : \A j \in steps : i <= j
    BY <1>2, <1>3, NatLeast
  <1>5. i \in 2..Len(p) /\ p[i - 1] # 0
    BY <1>1, <1>4
  <1>6. i - 1 \notin steps
    <2>1. i - 1 \in steps => i <= i - 1
      BY <1>4
    <2> QED
      BY <1>0, <1>5, <2>1
  <1>7. i - 1 = 1
    BY <1>0, <1>5, <1>6
  <1> QED
    BY <1>1, <1>5, <1>7

\* What the statistics of a series need, and that more rows at its end take
\* nothing away from them.
LEMMA StatisticsGrow ==
  ASSUME NEW g \in Seq(Quotes), NEW h \in Seq(Quotes),
         Len(g) <= Len(h), \A k \in 1..Len(g) : g[k] = h[k]
  PROVE  /\ SimpleReturn(Prices(g)) # None => SimpleReturn(Prices(h)) # None
         /\ MeanLiquidity(g)[2] <= MeanLiquidity(h)[2]
         /\ WorstDrawdown(Prices(g)) # None =>
               /\ WorstDrawdown(Prices(h)) # None
               /\ AtMost(WorstDrawdown(Prices(h)), WorstDrawdown(Prices(g)))
  <1> DEFINE p == Prices(g)
             r == Prices(h)
             n == Len(g)
             m == Len(h)
  <1>0. n \in Nat /\ m \in Nat /\ DOMAIN g = 1..n /\ DOMAIN h = 1..m /\ n <= m
        /\ 1..n \subseteq 1..m
    OBVIOUS
  <1>1. /\ p \in Seq(Nat) /\ Len(p) = n /\ DOMAIN p = 1..n
        /\ r \in Seq(Nat) /\ Len(r) = m /\ DOMAIN r = 1..m
        /\ \A k \in 1..n : p[k] = r[k]
    <2>1. /\ p \in Seq(Nat) /\ Len(p) = n /\ DOMAIN p = 1..n
          /\ \A k \in 1..n : p[k] = FloatPrice(g[k])
      BY PricesOf
    <2>2. /\ r \in Seq(Nat) /\ Len(r) = m /\ DOMAIN r = 1..m
          /\ \A k \in 1..m : r[k] = FloatPrice(h[k])
      BY PricesOf
    <2> QED
      BY <1>0, <2>1, <2>2
  <1>2. MeanLiquidity(g)[2] <= MeanLiquidity(h)[2]
    <2> DEFINE G == {i \in 1..n : g[i].liquidity # None}
               H == {i \in 1..m : h[i].liquidity # None}
    <2>1. MeanLiquidity(g)[2] = Cardinality(G) /\ MeanLiquidity(h)[2] = Cardinality(H)
      BY <1>0 DEF MeanLiquidity
    <2>2. G \subseteq H /\ H \subseteq 1..m
      BY <1>0
    <2> HIDE DEF G, H
    <2>3. IsFiniteSet(1..m)
      BY <1>0, FS_Interval
    <2>4. IsFiniteSet(H)
      BY <2>2, <2>3, FS_Subset
    <2>5. Cardinality(G) <= Cardinality(H)
      BY <2>2, <2>4, FS_Subset
    <2> QED
      BY <2>1, <2>5
  <1> HIDE DEF p, r, n, m
  <1>3. ASSUME SimpleReturn(p) # None
        PROVE  SimpleReturn(r) # None
    <2>1. n >= 2 /\ p[1] # 0
      BY <1>1, <1>3, ReturnKnown
    <2>2. m >= 2 /\ r[1] # 0
      BY <1>0, <1>1, <2>1
    <2> QED
      BY <1>1, <2>2, ReturnKnown
  <1>4. ASSUME WorstDrawdown(p) # None
        PROVE  WorstDrawdown(r) # None /\ AtMost(WorstDrawdown(r), WorstDrawdown(p))
    <2>1. PICK i, j \in 1..n : i <= j /\ p[i] > 0 /\ WorstDrawdown(p) = Change(p[i], p[j])
      BY <1>1, <1>4, WorstFall
    <2>2. ~(n < 2)
      BY <1>1, <1>4, WorstFall
    <2>3. r[i] > 0 /\ r[i] = p[i] /\ r[j] = p[j] /\ i \in 1..m /\ j \in 1..m
      BY <1>0, <1>1, <2>1
    <2>4. ~(m < 2) /\ r[i] # 0
      BY <1>0, <2>2, <2>3
    <2>5. WorstDrawdown(r) # None
      BY <1>1, <2>3, <2>4, WorstFall
    <2>6. \A k, l \in 1..m : k <= l /\ r[k] > 0 => AtMost(WorstDrawdown(r), Change(r[k], r[l]))
      BY <1>1, <2>5, WorstFall
    <2> QED
      BY <2>1, <2>3, <2>5, <2>6
  <1> QED
    BY <1>2, <1>3, <1>4 DEF p, r

LEMMA StatisticsNeed ==
  ASSUME NEW p \in Seq(Nat)
  PROVE  /\ VolatilityKnown(p) => SimpleReturn(p) # None
         /\ SimpleReturn(p) # None => WorstDrawdown(p) # None
  <1>1. VolatilityKnown(p) => SimpleReturn(p) # None
    <2>1. Len(p) >= 3 => Len(p) >= 2
      OBVIOUS
    <2> QED
      BY <2>1, VolatileFromSome, ReturnKnown
  <1>2. ASSUME SimpleReturn(p) # None
        PROVE  WorstDrawdown(p) # None
    <2>1. Len(p) >= 2 /\ p[1] # 0
      BY <1>2, ReturnKnown
    <2>2. Len(p) \in Nat /\ DOMAIN p = 1..Len(p)
      OBVIOUS
    <2>3. ~(Len(p) < 2) /\ 1 \in DOMAIN p
      BY <2>1, <2>2
    <2> QED
      BY <2>1, <2>3, WorstFall
  <1> QED
    BY <1>1, <1>2

\* For every fixture and every set of windows: a wider window has the rows of
\* the narrower one, keeps all its statistics and can only fall deeper; and
\* each statistic is known where those that need more of the prices are.
THEOREM StatisticsNested == RunSpec => []StatisticsNest
<1>1. RunInv /\ Analysed => StatisticsNest
  <2> SUFFICES ASSUME RunInv, Analysed, stage = "analysed", NEW v \in Windows, NEW w \in Windows
               PROVE  LET a == analysis.windows[v]
                          b == analysis.windows[w]
                      IN  /\ v <= w =>
                                /\ a.observations <= b.observations
                                /\ a.simpleReturn # None => b.simpleReturn # None
                                /\ a.meanLiquidity[2] <= b.meanLiquidity[2]
                                /\ a.maxDrawdown # None =>
                                      b.maxDrawdown # None /\ AtMost(b.maxDrawdown, a.maxDrawdown)
                          /\ a.volatilityKnown => a.simpleReturn # None
                          /\ a.simpleReturn # None => a.maxDrawdown # None
    BY DEF StatisticsNest
  <2>1. /\ snaps \in Seq(Quotes) /\ Listing \in Nat
        /\ InView = Within(snaps, Listing, Now.ts)
    BY AnalysedRun
  <2>2. InView \in SUBSET DOMAIN snaps /\ \A i \in InView : snaps[i].ts >= Listing
    BY <2>1 DEF Within
  <2>3. PICK f : /\ Arranges(f, snaps, InView)
                 /\ \A u \in Windows : analysis.windows[u] = WindowStats(f, Listing, u)
    BY AnalysisOfFrames
  <2> DEFINE g == WindowSlice(f, Listing, v)
             h == WindowSlice(f, Listing, w)
  <2>4. v \in Nat /\ w \in Nat
    BY FixturesAssumption
  <2>4a. Opens(g, f, Listing + v) /\ Opens(h, f, Listing + w)
    BY <2>1, <2>2, <2>3, <2>4, WindowArranges
  <2>5. /\ g \in Seq(Quotes) /\ Len(g) \in 0..Len(f)
        /\ g = [k \in 1..Len(g) |-> f[k]]
        /\ \A k \in 1..Len(f) : k \in 1..Len(g) <=> f[k].ts <= Listing + v
    BY <2>4a DEF Opens
  <2>6. /\ h \in Seq(Quotes) /\ Len(h) \in 0..Len(f)
        /\ h = [k \in 1..Len(h) |-> f[k]]
        /\ \A k \in 1..Len(f) : k \in 1..Len(h) <=> f[k].ts <= Listing + w
    BY <2>4a DEF Opens
  <2>7. f \in Seq(Quotes) /\ Len(f) \in Nat /\ \A k \in 1..Len(f) : f[k].ts \in Nat
    <3>1. f \in Seq(Quotes)
      BY <2>3 DEF Arranges
    <3> QED
      BY <3>1, RowIsTyped
  <2>8. /\ analysis.windows[v] = WindowStats(f, Listing, v)
        /\ analysis.windows[w] = WindowStats(f, Listing, w)
    BY <2>3
  <2> HIDE DEF g, h
  <2>9. ASSUME v <= w
        PROVE  Len(g) <= Len(h) /\ \A k \in 1..Len(g) : g[k] = h[k]
    <3>1. \A k \in 1..Len(g) : k \in 1..Len(f) /\ f[k].ts <= Listing + v
      BY <2>5, <2>7
    <3>2. \A k \in 1..Len(g) : f[k].ts <= Listing + w
      <4> TAKE k \in 1..Len(g)
      <4>1. f[k].ts \in Nat /\ f[k].ts <= Listing + v
        BY <2>7, <3>1
      <4> QED
        BY <2>1, <2>4, <2>9, <4>1
    <3>3. \A k \in 1..Len(g) : k \in 1..Len(h)
      BY <2>6, <3>1, <3>2
    <3>4. Len(g) <= Len(h)
      BY <2>5, <2>6, <2>7, <3>3
    <3> QED
      BY <2>5, <2>6, <3>3, <3>4
  <2>10. ASSUME v <= w
         PROVE  /\ SimpleReturn(Prices(g)) # None => SimpleReturn(Prices(h)) # None
                /\ MeanLiquidity(g)[2] <= MeanLiquidity(h)[2]
                /\ WorstDrawdown(Prices(g)) # None =>
                      /\ WorstDrawdown(Prices(h)) # None
                      /\ AtMost(WorstDrawdown(Prices(h)), WorstDrawdown(Prices(g)))
    BY <2>5, <2>6, <2>9, <2>10, StatisticsGrow
  <2>11. /\ VolatilityKnown(Prices(g)) => SimpleReturn(Prices(g)) # None
         /\ SimpleReturn(Prices(g)) # None => WorstDrawdown(Prices(g)) # None
    BY <2>5, PricesOf, StatisticsNeed
  <2> QED
    BY <2>8, <2>9, <2>10, <2>11, StatsFields DEF g, h
<1> QED
  BY <1>1, RunInvariance, AnalysisInvariance, PTL

-----------------------------------------------------------------------------
(* The analysis of a run: its candidate windows *)

LEMMA MinIsLeast ==
  ASSUME NEW S \in SUBSET Nat, S # {}
  PROVE  Min(S) \in S /\ \A y \in S : Min(S) <= y
  <1>1. \E x \in S : \A y \in S : x <= y
    BY NatLeast
  <1> QED
    BY <1>1 DEF Min

\* The float returns of a series from its first price.
LEMMA ReturnsOf ==
  ASSUME NEW p \in Seq(Nat), \A i \in 1..Len(p) : p[i] \in Floats,
         Len(p) >= 1, p[1] # 0
  PROVE  \A i \in 1..Len(p) :
            /\ CumReturn(p, i) \in Fraction
            /\ CumReturn(p, i)[1] > 0 <=> p[i] > p[1]
            /\ \A j \in 1..Len(p) : p[j] <= p[i] => AtMost(CumReturn(p, j), CumReturn(p, i))
  <1>1. p[1] \in Floats \ {0}
    OBVIOUS
  <1>2. Gain[p[1]] \in [Floats -> Fraction]
    BY <1>1, GainAssumption DEF Fraction
  <1> QED
    BY <1>1, <1>2, GainAssumption DEF CumReturn

\* The peak gains most, and a series that rises anywhere rises there.
LEMMA PeakIsGreatest ==
  ASSUME NEW p \in Seq(Nat), \A i \in 1..Len(p) : p[i] \in Floats,
         Len(p) >= 1, p[1] # 0
  PROVE  /\ Peak(p) \in 1..Len(p)
         /\ \A j \in 1..Len(p) : AtMost(CumReturn(p, j), CumReturn(p, Peak(p)))
  <1> DEFINE n == Len(p)
             S == {i \in DOMAIN p : \A j \in DOMAIN p : AtMost(CumReturn(p, j), CumReturn(p, i))}
  <1>1. n \in Nat /\ DOMAIN p = 1..n /\ n \in DOMAIN p
    OBVIOUS
  <1>2. PICK k \in 1..n : \A j \in 1..n : p[j] <= p[k]
    BY <1>1, HighWaterIs
  <1>3. S # {} /\ S \in SUBSET Nat
    <2>1. k \in DOMAIN p /\ \A j \in DOMAIN p : AtMost(CumReturn(p, j), CumReturn(p, k))
      BY <1>1, <1>2, ReturnsOf
    <2>2. k \in S
      BY <2>1
    <2>3. \A i \in S : i \in Nat
      BY <1>1
    <2> QED
      BY <2>2, <2>3
  <1>4. Peak(p) = Min(S)
    BY DEF Peak
  <1>5. Peak(p) \in S
    <2> HIDE DEF S
    <2> QED
      BY <1>3, <1>4, MinIsLeast
  <1> QED
    BY <1>1, <1>5

\* What gains no less than a gain is one.
LEMMA GainStays ==
  ASSUME NEW x \in Fraction, NEW y \in Fraction, AtMost(x, y), x[1] > 0
  PROVE  y[1] > 0
  <1>1. x[1] \in Nat /\ x[1] > 0 /\ y[1] \in Int /\ x[2] \in Nat /\ x[2] > 0
        /\ y[2] \in Nat /\ y[2] > 0
    BY DEF Fraction
  <1>2. x[1] * y[2] <= y[1] * x[2]
    BY DEF AtMost
  <1>3. x[1] * y[2] > 0
    BY <1>1, ProductIsNat
  <1>4. ASSUME y[1] <= 0
        PROVE  FALSE
    <2>1. x[2] * y[1] <= x[2] * 0
      BY <1>1, <1>4, ProductGrows
    <2>2. x[2] * y[1] = y[1] * x[2] /\ x[2] * 0 = 0 /\ x[1] * y[2] \in Int /\ y[1] * x[2] \in Int
      BY <1>1, ProductIsInt
    <2> QED
      BY <1>2, <1>3, <2>1, <2>2
  <1> QED
    BY <1>1, <1>4

\* The candidates of a frame, at its places.
Exit(f) == Candidate("exit", f[Peak(Prices(f))].ts, f[Peak(Prices(f))],
                     CumReturn(Prices(f), Peak(Prices(f))))

Holding(f, listing) == Candidate("holding", listing, f[Len(f)], SimpleReturn(Prices(f)))

FirstRise(f) == Min(Rises(Prices(f)))

Entry(f, listing) == Candidate("entry", listing, f[FirstRise(f)],
                               CumReturn(Prices(f), FirstRise(f)))

LEMMA CandidatesAre ==
  ASSUME NEW f \in Seq(Quotes), NEW listing
  PROVE  /\ Len(f) < 2 => Candidates(f, listing) = {}
         /\ ~(Len(f) < 2) => /\ Exit(f) \in Candidates(f, listing)
                             /\ Holding(f, listing) \in Candidates(f, listing)
                             /\ Rises(Prices(f)) # {} => Entry(f, listing) \in Candidates(f, listing)
                             /\ \A c \in Candidates(f, listing) :
                                   c \in {Exit(f), Holding(f, listing)}
                                   \/ (Rises(Prices(f)) # {} /\ c = Entry(f, listing))
  <1>1. Len(Prices(f)) = Len(f)
    BY PricesOf
  <1>2. ASSUME ~(Len(f) < 2)
        PROVE  Candidates(f, listing) =
                  {Exit(f), Holding(f, listing)}
                  \cup (IF Rises(Prices(f)) = {} THEN {} ELSE {Entry(f, listing)})
    BY <1>1, <1>2 DEF Candidates, Exit, Holding, Entry, FirstRise
  <1>3. ASSUME Len(f) < 2
        PROVE  Candidates(f, listing) = {}
    BY <1>3 DEF Candidates
  <1> QED
    BY <1>2, <1>3

\* What is known of each of them.
LEMMA CandidateFacts ==
  ASSUME NEW f \in Seq(Quotes), InTime(f), ~Refused(f), ~(Len(f) < 2), NEW listing
  PROVE  LET p == Prices(f)
             n == Len(f)
             k == Peak(p)
             r == FirstRise(f)
         IN  /\ n \in Nat /\ n >= 2 /\ \A i \in 1..n : p[i] \in Nat /\ f[i].ts \in Nat
             /\ p[1] > 0
             /\ k \in 1..n /\ \A i \in 1..n : CumReturn(p, i) \in Fraction
                                              /\ AtMost(CumReturn(p, i), CumReturn(p, k))
             /\ Rises(p) # {} => r \in 1..n /\ CumReturn(p, r)[1] > 0 /\ r <= k
             /\ Rises(p) # {} <=> CumReturn(p, k)[1] > 0
             /\ p[n] > p[1] => Rises(p) # {}
             /\ \A i, j \in 1..n : i <= j => f[i].ts <= f[j].ts
             /\ Exit(f) = [kind |-> "exit", start |-> f[k].ts, end |-> f[k].ts,
                           value |-> CumReturn(p, k)]
             /\ Holding(f, listing) = [kind |-> "holding", start |-> listing, end |-> f[n].ts,
                                       value |-> <<p[n] - p[1], p[1]>>]
             /\ Entry(f, listing) = [kind |-> "entry", start |-> listing, end |-> f[r].ts,
                                     value |-> CumReturn(p, r)]
  <1> DEFINE p == Prices(f)
             n == Len(f)
             k == Peak(p)
             r == FirstRise(f)
  <1>1. /\ p \in Seq(Nat) /\ Len(p) = n /\ DOMAIN p = 1..n
        /\ \A i \in 1..n : p[i] = FloatPrice(f[i]) /\ p[i] \in Floats
    BY PricesOf
  <1>2. n \in Nat /\ n >= 2 /\ \A i \in 1..n : p[i] \in Nat /\ f[i].ts \in Nat
    <2>1. n \in Nat /\ DOMAIN f = 1..n
      OBVIOUS
    <2>2. \A i \in 1..n : FloatPrice(f[i]) \in Nat /\ f[i].ts \in Nat
      BY <2>1, RowIsTyped
    <2> HIDE DEF p
    <2> QED
      BY <1>1, <2>1, <2>2
  <1>3. p[1] > 0
    <2>1. FloatPrice(f[1]) # 0
      BY <1>2 DEF Refused
    <2> HIDE DEF p, n
    <2>2. 1 \in 1..n
      BY <1>2
    <2>3. p[1] \in Nat /\ p[1] # 0
      BY <1>1, <1>2, <2>1, <2>2
    <2> QED
      BY <2>3
  <1>4. \A i \in 1..n : /\ CumReturn(p, i) \in Fraction
                        /\ CumReturn(p, i)[1] > 0 <=> p[i] > p[1]
    <2> HIDE DEF p, n
    <2>1. Len(p) >= 1 /\ p[1] # 0 /\ \A i \in 1..Len(p) : p[i] \in Floats
      BY <1>1, <1>2, <1>3
    <2> QED
      BY <1>1, <2>1, ReturnsOf
  <1>5. k \in 1..n /\ \A i \in 1..n : AtMost(CumReturn(p, i), CumReturn(p, k))
    <2> HIDE DEF p, n
    <2>1. Len(p) >= 1 /\ p[1] # 0 /\ \A i \in 1..Len(p) : p[i] \in Floats
      BY <1>1, <1>2, <1>3
    <2> QED
      BY <1>1, <2>1, PeakIsGreatest
  <1>6. Rises(p) = {i \in 1..n : CumReturn(p, i)[1] > 0}
    <2> HIDE DEF p, n
    <2> QED
      BY <1>1 DEF Rises
  <1>7. ASSUME Rises(p) # {}
        PROVE  r \in 1..n /\ CumReturn(p, r)[1] > 0 /\ r <= k /\ CumReturn(p, k)[1] > 0
    <2> HIDE DEF p, n, k
    <2>1. Rises(p) \in SUBSET Nat
      BY <1>2, <1>6
    <2>2. r \in Rises(p) /\ \A y \in Rises(p) : r <= y
      BY <1>7, <2>1, MinIsLeast DEF FirstRise, p
    <2> HIDE DEF r
    <2>3. r \in 1..n /\ CumReturn(p, r)[1] > 0
      BY <1>6, <2>2
    <2>4. CumReturn(p, k)[1] > 0
      BY <1>4, <1>5, <2>3, GainStays
    <2>5. k \in Rises(p)
      BY <1>5, <1>6, <2>4
    <2> QED
      BY <2>2, <2>3, <2>4, <2>5
  <1>8. CumReturn(p, k)[1] > 0 => Rises(p) # {}
    <2> HIDE DEF p, n, k
    <2> QED
      BY <1>5, <1>6
  <1>9. p[n] > p[1] => Rises(p) # {}
    <2> HIDE DEF p, n
    <2>1. n \in 1..n
      BY <1>2
    <2> QED
      BY <1>4, <1>6, <2>1
  <1>10. \A i, j \in 1..n : i <= j => f[i].ts <= f[j].ts
    BY DEF InTime
  <1>11. SimpleReturn(p) = <<p[n] - p[1], p[1]>>
    <2> HIDE DEF p, n
    <2>1. SimpleReturn(p) = Change(p[1], p[n])
      BY <1>1, <1>2, <1>3, ReturnKnown
    <2> QED
      BY <2>1 DEF Change
  <1>12. /\ Exit(f) = [kind |-> "exit", start |-> f[k].ts, end |-> f[k].ts,
                       value |-> CumReturn(p, k)]
         /\ Holding(f, listing) = [kind |-> "holding", start |-> listing, end |-> f[n].ts,
                                   value |-> SimpleReturn(p)]
         /\ Entry(f, listing) = [kind |-> "entry", start |-> listing, end |-> f[r].ts,
                                 value |-> CumReturn(p, r)]
    BY DEF Exit, Holding, Entry, Candidate
  <1> HIDE DEF p, n, k, r
  <1> QED
    BY <1>2, <1>3, <1>4, <1>5, <1>7, <1>8, <1>9, <1>10, <1>11, <1>12 DEF p, n, k, r

\* For every fixture, and every rounding that keeps the order of prices and of
\* returns: entry, exit and holding fit together.
THEOREM CandidatesCorrect == RunSpec => []CandidatesFit
<1>1. RunInv /\ Analysed => CandidatesFit
  <2> SUFFICES ASSUME RunInv, Analysed, stage = "analysed",
                      NEW c \in analysis.candidates, NEW d \in analysis.candidates
               PROVE  /\ d.kind = "exit" =>
                            /\ d.value[1] > 0 <=> \E e \in analysis.candidates : e.kind = "entry"
                            /\ c.kind = "entry" => /\ c.end <= d.end /\ c.value[1] > 0
                                                   /\ AtMost(c.value, d.value)
                            /\ c.kind = "holding" /\ c.value[1] > 0 => d.value[1] > 0
                      /\ c.start <= c.end /\ c.start >= snaps[1].ts /\ c.end <= snaps[4].ts
    BY DEF CandidatesFit
  <2>1. /\ snaps \in Seq(Quotes) /\ Listing = snaps[1].ts /\ Listing \in Nat
        /\ Now = snaps[4] /\ Now.ts \in Nat /\ InView = Within(snaps, Listing, Now.ts)
    BY AnalysedRun
  <2>2. PICK f : /\ Arranges(f, snaps, InView) /\ ~Refused(f)
                 /\ analysis.candidates = Candidates(f, Listing)
    BY AnalysisOfFrames
  <2>3. f \in Seq(Quotes) /\ InTime(f)
    BY <2>2 DEF Arranges
  <2>4. ~(Len(f) < 2)
    BY <2>2, <2>3, CandidatesAre
  <2> DEFINE p == Prices(f)
             n == Len(f)
             k == Peak(p)
             r == FirstRise(f)
             rises == Rises(p) # {}
             x == Exit(f)
             h == Holding(f, Listing)
             y == Entry(f, Listing)
  <2>5. /\ n \in Nat /\ n >= 2 /\ \A i \in 1..n : p[i] \in Nat /\ f[i].ts \in Nat
        /\ p[1] > 0
        /\ k \in 1..n /\ \A i \in 1..n : CumReturn(p, i) \in Fraction
                                         /\ AtMost(CumReturn(p, i), CumReturn(p, k))
        /\ rises => r \in 1..n /\ CumReturn(p, r)[1] > 0 /\ r <= k
        /\ rises <=> CumReturn(p, k)[1] > 0
        /\ p[n] > p[1] => rises
        /\ \A i, j \in 1..n : i <= j => f[i].ts <= f[j].ts
        /\ x = [kind |-> "exit", start |-> f[k].ts, end |-> f[k].ts, value |-> CumReturn(p, k)]
        /\ h = [kind |-> "holding", start |-> Listing, end |-> f[n].ts,
                value |-> <<p[n] - p[1], p[1]>>]
        /\ y = [kind |-> "entry", start |-> Listing, end |-> f[r].ts, value |-> CumReturn(p, r)]
    BY <2>2, <2>3, <2>4, CandidateFacts
  <2>6. /\ x \in analysis.candidates
        /\ rises => y \in analysis.candidates
        /\ \A e \in analysis.candidates : e \in {x, h} \/ (rises /\ e = y)
    BY <2>2, <2>3, <2>4, CandidatesAre
  <2>7. \A i \in 1..n : Listing <= f[i].ts /\ f[i].ts <= Now.ts
    <3>1. PICK q : Leads(q, f, snaps, InView)
      BY <2>2 DEF Arranges
    <3>2. \A i \in 1..n : q[i] \in InView /\ f[i] = snaps[q[i]]
      BY <3>1 DEF Leads
    <3>3. \A j \in InView : snaps[j].ts >= Listing /\ snaps[j].ts <= Now.ts /\ snaps[j].ts \in Nat
      BY <2>1, RowIsTyped DEF Within
    <3>4. \A i \in 1..n : f[i].ts >= Listing /\ f[i].ts <= Now.ts /\ f[i].ts \in Nat
      BY <3>2, <3>3
    <3> QED
      BY <2>1, <3>4
  <2> HIDE DEF p, n, k, r, rises, x, h, y
  <2>8. 1 \in 1..n /\ n \in 1..n
    BY <2>5
  <2>9. c \in {x, h} \/ (rises /\ c = y)
    BY <2>6
  <2>10. c.start <= c.end /\ c.start >= Listing /\ c.end <= Now.ts
    <3>1. CASE c = x
      BY <2>1, <2>5, <2>7, <3>1
    <3>2. CASE c = h
      BY <2>1, <2>5, <2>7, <2>8, <3>2
    <3>3. CASE rises /\ c = y
      BY <2>1, <2>5, <2>7, <3>3, SMTT(20)
    <3> QED
      BY <2>9, <3>1, <3>2, <3>3
  <2>11. ASSUME d.kind = "exit"
         PROVE  d = x
    BY <2>5, <2>6, <2>11
  <2>12. (\E e \in analysis.candidates : e.kind = "entry") <=> rises
    <3>1. x.kind = "exit" /\ h.kind = "holding" /\ y.kind = "entry"
      BY <2>5
    <3> QED
      BY <2>6, <3>1
  <2>13. x.value[1] > 0 <=> rises
    BY <2>5
  <2>14. ASSUME c.kind = "entry"
         PROVE  c.end <= x.end /\ c.value[1] > 0 /\ AtMost(c.value, x.value)
    <3>1. rises /\ c = y
      BY <2>5, <2>9, <2>14
    <3> QED
      BY <2>5, <3>1
  <2>15. ASSUME c.kind = "holding", c.value[1] > 0
         PROVE  rises
    <3>1. c = h
      BY <2>5, <2>9, <2>15
    <3>2. p[n] - p[1] > 0 /\ p[n] \in Nat /\ p[1] \in Nat
      BY <2>5, <2>8, <2>15, <3>1
    <3> QED
      BY <2>5, <3>2
  <2> QED
    BY <2>1, <2>10, <2>11, <2>12, <2>13, <2>14, <2>15
<1> QED
  BY <1>1, RunInvariance, AnalysisInvariance, PTL

-----------------------------------------------------------------------------
(* The analysis of a run: one number, computed three times *)

\* The earliest and the latest of some rows are the only ones of their instant.
Untied(rows, I) ==
    /\ \A i \in I : rows[i].ts = Latest(rows, I).ts => rows[i] = Latest(rows, I)
    /\ \A i \in I : rows[i].ts = Earliest(rows, I).ts => rows[i] = Earliest(rows, I)

\* The first of the rows in time is of the time of the earliest, the last of
\* that of the latest.
LEMMA EndsOfFrame ==
  ASSUME NEW rows \in Seq(Quotes), NEW listing \in Nat, NEW now \in Nat,
         Within(rows, listing, now) # {}, Untied(rows, Within(rows, listing, now)),
         NEW f, Arranges(f, rows, Within(rows, listing, now))
  PROVE  /\ f[1] = Earliest(rows, Within(rows, listing, now))
         /\ f[Len(f)] = Latest(rows, Within(rows, listing, now))
  <1> DEFINE n == Len(f)
             I == Within(rows, listing, now)
  <1>0. I \in SUBSET DOMAIN rows /\ I # {} /\ \A i \in I : rows[i].ts <= now
    BY DEF Within
  <1> HIDE DEF I
  <1>1. f \in Seq(Quotes) /\ n \in Nat
    BY DEF Arranges
  <1>2. PICK q : Leads(q, f, rows, I)
    BY DEF Arranges, I
  <1>3. /\ \A k \in 1..n : q[k] \in I /\ f[k] = rows[q[k]]
        /\ \A i \in I : \E k \in 1..n : q[k] = i
        /\ \A k, l \in 1..n : k <= l => f[k].ts <= f[l].ts
    BY <1>2 DEF Leads, Arranges, InTime
  <1>4. \A i \in I : rows[i].ts \in Nat
    BY <1>0, RowIsTyped
  <1>4a. \A i, j \in I : Before(rows, i, j) => rows[i].ts <= rows[j].ts
    <2> SUFFICES ASSUME NEW i \in I, NEW j \in I, Before(rows, i, j)
                 PROVE  rows[i].ts <= rows[j].ts
      OBVIOUS
    <2>1. rows[i].ts \in Nat /\ rows[j].ts \in Nat
      BY <1>4
    <2> QED
      BY <2>1 DEF Before
  <1>5. PICK i \in I : (\A j \in I : Before(rows, i, j)) /\ Earliest(rows, I) = rows[i]
    <2>1. \E i \in I : \A j \in I : Before(rows, i, j)
      BY <1>0, EarliestExists
    <2> QED
      BY <2>1 DEF Earliest
  <1>6. PICK l \in I : (\A j \in I : Before(rows, j, l)) /\ Latest(rows, I) = rows[l]
    <2>1. \E l \in I : \A j \in I : Before(rows, j, l)
      BY <1>0, LatestExists
    <2> QED
      BY <2>1 DEF Latest
  <1> HIDE DEF n
  <1>7. n >= 1
    BY <1>1, <1>3, <1>5
  <1>8. 1 \in 1..n /\ n \in 1..n /\ \A k \in 1..n : 1 <= k /\ k <= n
    BY <1>1, <1>7
  <1>9. f[1] = Earliest(rows, I)
    <2>1. PICK k \in 1..n : q[k] = i
      BY <1>3, <1>5
    <2>2. rows[q[1]].ts <= rows[i].ts
      BY <1>3, <1>8, <2>1
    <2>3. rows[i].ts <= rows[q[1]].ts
      BY <1>3, <1>4a, <1>5, <1>8
    <2>4. rows[q[1]].ts = rows[i].ts
      <3>1. rows[q[1]].ts \in Nat /\ rows[i].ts \in Nat
        BY <1>3, <1>4, <1>8
      <3> QED
        BY <2>2, <2>3, <3>1
    <2> QED
      BY <1>3, <1>5, <1>8, <2>4 DEF Untied, I
  <1>10. f[n] = Latest(rows, I)
    <2>1. PICK k \in 1..n : q[k] = l
      BY <1>3, <1>6
    <2>2. rows[l].ts <= rows[q[n]].ts
      BY <1>3, <1>8, <2>1
    <2>3. rows[q[n]].ts <= rows[l].ts
      BY <1>3, <1>4a, <1>6, <1>8
    <2>4. rows[q[n]].ts = rows[l].ts
      <3>1. rows[q[n]].ts \in Nat /\ rows[l].ts \in Nat
        BY <1>3, <1>4, <1>8
      <3> QED
        BY <2>2, <2>3, <3>1
    <2> QED
      BY <1>3, <1>6, <1>8, <2>4 DEF Untied, I
  <1> QED
    BY <1>9, <1>10 DEF n, I

\* The signal s is that of a first price a and a last price b.
SignalFits(s, a, b) ==
    /\ s # None /\ s.kind = "BUY" <=> 100 * (b - a) >= Rise * a
    /\ s # None /\ s.kind = "SELL" <=> -100 * (b - a) >= Fall * a /\ 100 * (b - a) < Rise * a

LEMMA SignalOfEnds ==
  ASSUME NEW rows \in Seq(Quotes), NEW listing \in Nat, NEW now \in Nat,
         Earliest(rows, Within(rows, listing, now)).price \in Nat \ {0},
         Latest(rows, Within(rows, listing, now)).price \in Nat,
         ~ \A i, j \in Within(rows, listing, now) : i = j
  PROVE  SignalFits(SignalOf(rows, listing, now),
                    Earliest(rows, Within(rows, listing, now)).price,
                    Latest(rows, Within(rows, listing, now)).price)
  <1> DEFINE I == Within(rows, listing, now)
             a == Earliest(rows, I).price
             b == Latest(rows, I).price
             At(kind) == [kind |-> kind, price |-> b, ts |-> now]
             s == SignalOf(rows, listing, now)
  <1>0. a \in Nat \ {0} /\ b \in Nat
    OBVIOUS
  <1>1. Seen(rows, listing, now) = I
    BY DEF Seen, Within
  <1>2. s = IF 100 * (b - a) >= Rise * a THEN At("BUY")
            ELSE IF 100 * (a - b) >= Fall * a THEN At("SELL") ELSE None
    <2>1. ~ \A i, j \in I : i = j
      OBVIOUS
    <2> HIDE DEF I
    <2> QED
      BY <1>0, <1>1, <2>1 DEF SignalOf
  <1> SUFFICES SignalFits(s, a, b)
    OBVIOUS
  <1> HIDE DEF I, a, b, s
  <1>3. \A kind \in {"BUY", "SELL"} : At(kind) # None /\ At(kind).kind = kind
    BY <1>0, NoneAssumption
  <1>4. -100 * (b - a) = 100 * (a - b)
    BY <1>0
  <1>5. Rise * a \in Int /\ Fall * a \in Int /\ 100 * (b - a) \in Int
    BY <1>0, FixturesAssumption, ProductIsInt
  <1> HIDE DEF At
  <1>6. CASE 100 * (b - a) >= Rise * a
    <2>1. s = At("BUY")
      BY <1>2, <1>6
    <2> QED
      BY <1>3, <1>5, <1>6, <2>1 DEF SignalFits
  <1>7. CASE ~(100 * (b - a) >= Rise * a) /\ 100 * (a - b) >= Fall * a
    <2>1. s = At("SELL")
      BY <1>2, <1>7
    <2> QED
      BY <1>3, <1>4, <1>5, <1>7, <2>1 DEF SignalFits
  <1>8. CASE ~(100 * (b - a) >= Rise * a) /\ ~(100 * (a - b) >= Fall * a)
    <2>1. s = None
      BY <1>2, <1>8
    <2> QED
      BY <1>4, <1>8, <2>1 DEF SignalFits
  <1> QED
    BY <1>6, <1>7, <1>8

\* For every fixture and thresholds, and every rounding of prices that keeps
\* their order: the holding candidate has the return of a window that reaches
\* the evaluation time, the signal is of that return if float() keeps the two
\* prices, and is never of the opposite direction.
THEOREM OneStory == RunSpec => []ReportsAgree
<1>1. RunInv /\ Analysed => ReportsAgree
  <2> SUFFICES ASSUME RunInv, Analysed, stage \in {"done", "signalled"}, Cardinality(InView) >= 2,
                      \A i \in InView : snaps[i].ts = Latest(snaps, InView).ts =>
                                           snaps[i] = Latest(snaps, InView),
                      \A i \in InView : snaps[i].ts = Listing =>
                                           snaps[i] = Earliest(snaps, InView)
               PROVE  \E c \in analysis.candidates :
                        /\ c.kind = "holding"
                        /\ \A w \in Windows :
                              snaps[1].ts + w >= snaps[4].ts =>
                                 analysis.windows[w].simpleReturn = c.value
                        /\ Representable(Earliest(snaps, InView)) /\ Representable(Latest(snaps, InView))
                           => Decides(c.value)
                        /\ signal # None =>
                              IF signal.kind = "BUY" THEN c.value[1] >= 0 ELSE c.value[1] <= 0
    BY DEF ReportsAgree
  <2>1. /\ snaps \in Seq(Quotes) /\ Len(snaps) >= 4 /\ Len(snaps) \in Nat
        /\ Listing = snaps[1].ts /\ Listing \in Nat /\ Now = snaps[4] /\ Now.ts \in Nat
        /\ InView = Within(snaps, Listing, Now.ts)
        /\ signal = SignalOf(snaps, Listing, Now.ts)
    BY AnalysedRun
  <2>2. InView \in SUBSET DOMAIN snaps
        /\ \A i \in InView : snaps[i].ts >= Listing /\ snaps[i].ts <= Now.ts /\ snaps[i].ts \in Nat
    BY <2>1, RowIsTyped DEF Within
  <2> DEFINE first == Earliest(snaps, InView)
             last == Latest(snaps, InView)
  <2>3. InView # {} /\ ~ \A i, j \in InView : i = j
    <3>1. Cardinality(InView) # 0 /\ Cardinality(InView) # 1
      OBVIOUS
    <3>2. InView # {}
      BY <3>1, FS_EmptySet
    <3>3. \A i : InView # {i}
      BY <3>1, FS_Singleton
    <3>4. PICK i : i \in InView
      BY <3>2
    <3>5. (\A x, y \in InView : x = y) => InView = {i}
      BY <3>4
    <3> QED
      BY <3>2, <3>3, <3>5
  <2>4. 1 \in InView
    <3>1. PICK i \in InView : TRUE
      BY <2>3
    <3>2. Listing <= Now.ts
      BY <2>1, <2>2
    <3>3. 1 \in DOMAIN snaps
      BY <2>1
    <3> QED
      BY <2>1, <3>2, <3>3 DEF Within
  <2>5. first.ts = Listing
    <3>1. snaps[1] = first
      BY <2>1, <2>4
    <3> QED
      BY <2>1, <3>1
  <2>6. ASSUME NEW f, Arranges(f, snaps, InView)
        PROVE  /\ f \in Seq(Quotes) /\ Len(f) \in Nat /\ ~(Len(f) < 2) /\ Len(f) >= 2
               /\ f[1] = first /\ f[Len(f)] = last
    <3>1. f \in Seq(Quotes) /\ Len(f) \in Nat /\ Cardinality(InView) = Len(f)
      BY <2>1, <2>6, ArrangedLength
    <3>2. Untied(snaps, InView)
      BY <2>5 DEF Untied
    <3>3. f[1] = first /\ f[Len(f)] = last
      <4> HIDE DEF first, last
      <4>1. /\ f[1] = Earliest(snaps, Within(snaps, Listing, Now.ts))
            /\ f[Len(f)] = Latest(snaps, Within(snaps, Listing, Now.ts))
        BY <2>1, <2>3, <2>6, <3>2, EndsOfFrame
      <4> QED
        BY <2>1, <4>1 DEF first, last
    <3> QED
      BY <3>1, <3>3
  <2>7. PICK f : /\ Arranges(f, snaps, InView)
                 /\ \A w \in Windows : analysis.windows[w] = WindowStats(f, Listing, w)
    BY AnalysisOfFrames
  <2>8. PICK g : /\ Arranges(g, snaps, InView) /\ ~Refused(g)
                 /\ analysis.candidates = Candidates(g, Listing)
    BY AnalysisOfFrames
  <2> HIDE DEF first, last
  <2> DEFINE a == FloatPrice(first)
             b == FloatPrice(last)
             c == Holding(g, Listing)
  <2>9. /\ a \in Nat \ {0} /\ b \in Nat
        /\ first.price \in Decimals /\ last.price \in Decimals
        /\ c = [kind |-> "holding", start |-> Listing, end |-> g[Len(g)].ts,
                value |-> <<b - a, a>>]
        /\ c \in analysis.candidates
    <3>1. g \in Seq(Quotes) /\ ~(Len(g) < 2) /\ g[1] = first /\ g[Len(g)] = last /\ InTime(g)
          /\ Len(g) \in Nat /\ Len(g) >= 2
      BY <2>6, <2>8 DEF Arranges
    <3>2. \A i \in 1..Len(g) : /\ Prices(g)[i] = FloatPrice(g[i]) /\ FloatPrice(g[i]) \in Nat
                               /\ g[i].price \in Decimals
      BY <3>1, PricesOf, RowIsTyped
    <3>2a. 1 \in 1..Len(g) /\ Len(g) \in 1..Len(g)
      BY <3>1
    <3>3. /\ Prices(g)[1] = a /\ Prices(g)[Len(g)] = b /\ a \in Nat /\ b \in Nat
          /\ first.price \in Decimals /\ last.price \in Decimals
      BY <3>1, <3>2, <3>2a
    <3>4. /\ Prices(g)[1] > 0
          /\ c = [kind |-> "holding", start |-> Listing, end |-> g[Len(g)].ts,
                  value |-> <<Prices(g)[Len(g)] - Prices(g)[1], Prices(g)[1]>>]
      BY <2>8, <3>1, CandidateFacts
    <3>5. c \in analysis.candidates
      BY <2>8, <3>1, CandidatesAre
    <3> QED
      BY <3>3, <3>4, <3>5
  <2>9a. /\ first.price \in Nat \ {0} /\ last.price \in Nat
         /\ a > b => first.price > last.price
         /\ a < b => first.price < last.price
    <3>1. /\ first.price \in Nat /\ last.price \in Nat
          /\ first.price <= last.price => a <= b
          /\ last.price <= first.price => b <= a
      BY <2>9, FloatAssumption DEF FloatPrice
    <3>2. first.price # 0
      BY <2>9, FloatAssumption DEF FloatPrice
    <3> HIDE DEF a, b
    <3> QED
      BY <2>9, <3>1, <3>2
  <2>10. SignalFits(signal, first.price, last.price)
    <3>1. /\ Earliest(snaps, Within(snaps, Listing, Now.ts)) = first
          /\ Latest(snaps, Within(snaps, Listing, Now.ts)) = last
          /\ ~ \A i, j \in Within(snaps, Listing, Now.ts) : i = j
      BY <2>1, <2>3 DEF first, last
    <3> QED
      BY <2>1, <2>9a, <3>1, SignalOfEnds, ZenonT(20)
  <2>11. ASSUME NEW w \in Windows, snaps[1].ts + w >= snaps[4].ts
         PROVE  analysis.windows[w].simpleReturn = <<b - a, a>>
    <3> DEFINE window == WindowSlice(f, Listing, w)
    <3>1. w \in Nat
      BY FixturesAssumption
    <3>2. f \in Seq(Quotes) /\ Len(f) \in Nat /\ Len(f) >= 2 /\ f[1] = first /\ f[Len(f)] = last
      BY <2>6, <2>7
    <3>3. Opens(window, f, Listing + w)
      BY <2>1, <2>2, <2>7, <3>1, WindowArranges
    <3>4. \A k \in 1..Len(f) : f[k].ts <= Listing + w
      <4>1. PICK q : Leads(q, f, snaps, InView)
        BY <2>7 DEF Arranges
      <4>2. \A k \in 1..Len(f) : q[k] \in InView /\ f[k] = snaps[q[k]]
        BY <4>1 DEF Leads
      <4>3. \A i \in InView : snaps[i].ts <= Listing + w
        BY <2>1, <2>2, <2>11, <3>1
      <4> QED
        BY <4>2, <4>3
    <3> HIDE DEF window
    <3>5. window \in Seq(Quotes) /\ Len(window) = Len(f)
          /\ \A k \in 1..Len(f) : window[k] = f[k]
      <4>1. /\ Len(window) \in 0..Len(f) /\ window = [k \in 1..Len(window) |-> f[k]]
            /\ \A k \in 1..Len(f) : k \in 1..Len(window)
            /\ window \in Seq(Quotes)
        BY <3>3, <3>4 DEF Opens
      <4>2. Len(f) \in 1..Len(window)
        BY <3>2, <4>1
      <4>3. Len(window) = Len(f)
        BY <3>2, <4>1, <4>2
      <4> QED
        BY <4>1, <4>3
    <3>6. /\ Prices(window) \in Seq(Nat) /\ Len(Prices(window)) = Len(f)
          /\ Prices(window)[1] = a /\ Prices(window)[Len(f)] = b
      <4>1. /\ Prices(window) \in Seq(Nat) /\ Len(Prices(window)) = Len(f)
            /\ \A k \in 1..Len(f) : Prices(window)[k] = FloatPrice(window[k])
        BY <3>5, PricesOf
      <4>2. 1 \in 1..Len(f) /\ Len(f) \in 1..Len(f)
        BY <3>2
      <4> QED
        BY <3>2, <3>5, <4>1, <4>2
    <3>7. SimpleReturn(Prices(window)) = Change(a, b)
      <4>1. SimpleReturn(Prices(window)) # None
        BY <2>9, <3>2, <3>6, ReturnKnown
      <4> QED
        BY <3>6, <4>1, ReturnKnown
    <3>8. analysis.windows[w].simpleReturn = SimpleReturn(Prices(window))
      BY <2>7, StatsFields DEF window
    <3> QED
      BY <3>7, <3>8 DEF Change
  <2> HIDE DEF a, b, c
  <2>12. c.kind = "holding" /\ c.value[1] = b - a /\ c.value[2] = a /\ c.value = <<b - a, a>>
    BY <2>9
  <2>13. ASSUME Representable(first), Representable(last)
         PROVE  Decides(c.value)
    <3>1. a = first.price /\ b = last.price
      BY <2>13 DEF Representable, a, b
    <3> QED
      BY <2>10, <2>12, <3>1 DEF SignalFits, Decides
  <2>14. ASSUME signal # None
         PROVE  IF signal.kind = "BUY" THEN c.value[1] >= 0 ELSE c.value[1] <= 0
    <3>1. signal.kind \in {"BUY", "SELL"}
      BY <2>1, <2>14, SignalIsOfNow
    <3>2. Rise * first.price \in Nat /\ Fall * first.price \in Nat
      BY <2>9a, FixturesAssumption, ProductIsNat
    <3>3. CASE signal.kind = "BUY"
      <4>1. 100 * (last.price - first.price) >= 0
        BY <2>9a, <2>10, <2>14, <3>2, <3>3 DEF SignalFits
      <4>2. last.price >= first.price
        BY <2>9a, <4>1
      <4>3. b >= a
        BY <2>9, <2>9a, <4>2
      <4> QED
        BY <2>9, <2>12, <3>3, <4>3
    <3>4. CASE signal.kind = "SELL"
      <4>1. -100 * (last.price - first.price) >= 0
        BY <2>9a, <2>10, <2>14, <3>2, <3>4 DEF SignalFits
      <4>2. last.price <= first.price
        BY <2>9a, <4>1
      <4>3. b <= a
        BY <2>9, <2>9a, <4>2
      <4> QED
        BY <2>9, <2>12, <3>4, <4>3
    <3> QED
      BY <3>1, <3>3, <3>4
  <2>15. Representable(Earliest(snaps, InView)) /\ Representable(Latest(snaps, InView))
         => Decides(c.value)
    BY <2>13 DEF first, last
  <2>16. \A w \in Windows :
            snaps[1].ts + w >= snaps[4].ts => analysis.windows[w].simpleReturn = c.value
    BY <2>11, <2>12
  <2>17. c \in analysis.candidates /\ c.kind = "holding"
    BY <2>9, <2>12
  <2>18. signal # None => IF signal.kind = "BUY" THEN c.value[1] >= 0 ELSE c.value[1] <= 0
    BY <2>14
  <2> QED
    BY <2>15, <2>16, <2>17, <2>18
<1> QED
  BY <1>1, RunInvariance, AnalysisInvariance, PTL

=============================================================================
