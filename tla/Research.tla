------------------------------ MODULE Research ------------------------------
(***************************************************************************)
(* research/windows.py, metrics.py, features.py and pipeline.py: the       *)
(* analysis of a listing, a pure function of its snapshots but for the     *)
(* order pandas gives to equal timestamps.  No state; OfflineRun calls it. *)
(*                                                                         *)
(* A frame is a sequence of snapshots by time.  Its prices are floats, and *)
(* a float stands for the decimal it is spelled as.  A return is a         *)
(* fraction, the pair of its numerator and its positive denominator: exact *)
(* where the code divides Decimals, rounded (Gain) for the candidates that *)
(* it computes in floats.  The rounding of a drawdown and of a mean is     *)
(* left out.  Of the volatility only whether it is known; a mean is the    *)
(* pair of a sum and a count, and unknown if the count is 0.               *)
(***************************************************************************)
EXTENDS Integers, Sequences, FiniteSetsExt

CONSTANTS
    Windows,    \* the values of DEFAULT_WINDOWS
    Float,      \* float() of a Decimal price
    Gain,       \* Gain[a][p] is p / a - 1.0, computed in floats
    None

-----------------------------------------------------------------------------
(* Frames *)

\* The place in I that has n - 1 places of I before it.
Place(I, n) == CHOOSE i \in I : Cardinality({j \in I : j <= i}) = n

\* The rows of a sequence at the places I, in their order.
RowsAt(rows, I) == [n \in 1..Cardinality(I) |-> rows[Place(I, n)]]

\* The frames snapshots_to_frame() may make of some snapshots: sort_values()
\* keeps no order among equal timestamps.
Sortings(rows) ==
    {[i \in DOMAIN rows |-> rows[p[i]]] :
        p \in {q \in Injection(DOMAIN rows, DOMAIN rows) :
                  \A i \in 2..Len(rows) : rows[q[i - 1]].ts <= rows[q[i]].ts}}

\* Mutant: the snapshot of the evaluation time itself is left out.
AsOfBefore(rows, now) == RowsAt(rows, {i \in DOMAIN rows : rows[i].ts < now})

AsOf(rows, now) == RowsAt(rows, {i \in DOMAIN rows : rows[i].ts <= now})

SinceListing(frame, listing) == RowsAt(frame, {i \in DOMAIN frame : frame[i].ts >= listing})

\* Mutant: the window ends with the frame, it does not begin with the listing.
WindowSliceTrailing(frame, listing, w) ==
    RowsAt(frame, {i \in DOMAIN frame : frame[i].ts >= frame[Len(frame)].ts - w})

\* A window takes in both of its ends.
WindowSlice(frame, listing, w) ==
    RowsAt(frame, {i \in DOMAIN frame :
                      frame[i].ts >= listing /\ frame[i].ts <= listing + w})

FloatPrice(row) == Float[row.price]

Prices(frame) == [i \in DOMAIN frame |-> FloatPrice(frame[i])]

-----------------------------------------------------------------------------
(* Metrics *)

AtMost(x, y) == x[1] * y[2] <= y[1] * x[2]

Change(p, q) == <<q - p, p>>

SimpleReturn(p) ==
    IF Len(p) < 2 \/ p[1] = 0 THEN None ELSE Change(p[1], p[Len(p)])

\* pct_change(): 0 / 0 is dropped, x / 0 is infinite, and the deviation of
\* fewer than two returns, or of an infinite one, is not a number.
VolatilityKnown(p) ==
    LET steps == {i \in 2..Len(p) : p[i - 1] # 0 \/ p[i] # 0}
    IN  /\ Len(p) >= 3 /\ Cardinality(steps) >= 2
        /\ \A i \in steps : p[i - 1] # 0

\* Mutant: the highest price of the whole series for the highest so far.
HighWaterOfAll(p, i) == Max({p[j] : j \in DOMAIN p})

HighWater(p, i) == Max({p[j] : j \in 1..i})

\* The least (p - cummax) / cummax; 0 / 0 is skipped.
WorstDrawdown(p) ==
    LET falls == {Change(HighWater(p, i), p[i]) : i \in {j \in DOMAIN p : HighWater(p, j) > 0}}
    IN  IF Len(p) < 2 \/ falls = {} THEN None
        ELSE CHOOSE f \in falls : \A g \in falls : AtMost(f, g)

\* mean_series() of the liquidity; the volume's is the same.
MeanLiquidity(frame) ==
    LET known == {i \in DOMAIN frame : frame[i].liquidity # None}
    IN  <<MapThenSumSet(LAMBDA i : frame[i].liquidity, known), Cardinality(known)>>

WindowStats(frame, listing, w) ==
    LET rows == WindowSlice(frame, listing, w)
        p == Prices(rows)
    IN  [simpleReturn |-> SimpleReturn(p), volatilityKnown |-> VolatilityKnown(p),
         maxDrawdown |-> WorstDrawdown(p), meanLiquidity |-> MeanLiquidity(rows),
         observations |-> Len(rows)]

-----------------------------------------------------------------------------
(* Candidate windows *)

\* cum_returns.
CumReturn(p, i) == Gain[p[1]][p[i]]

\* Mutant: a return of zero counts as positive.
RisesAtOnce(p) == {i \in DOMAIN p : CumReturn(p, i)[1] >= 0}

Rises(p) == {i \in DOMAIN p : CumReturn(p, i)[1] > 0}

\* idxmax(): the first of the greatest.  Prices that differ may round to one
\* return.
Peak(p) == Min({i \in DOMAIN p : \A j \in DOMAIN p : AtMost(CumReturn(p, j), CumReturn(p, i))})

Candidate(kind, start, row, value) ==
    [kind |-> kind, start |-> start, end |-> row.ts, value |-> value]

\* infer_candidate_windows() for a frame it accepts.  Entry and exit are given
\* by float returns, the holding by the return in Decimals.
Candidates(work, listing) ==
    LET p == Prices(work)
        exit == Peak(p)
        entry == Min(Rises(p))
    IN  IF Len(work) < 2 THEN {}
        ELSE {Candidate("exit", work[exit].ts, work[exit], CumReturn(p, exit)),
              Candidate("holding", listing, work[Len(p)], SimpleReturn(p))}
             \cup (IF Rises(p) = {} THEN {}
                   ELSE {Candidate("entry", listing, work[entry], CumReturn(p, entry))})

\* A first price of zero makes every return infinite or no number at all:
\* CandidateWindow refuses the one, int() of idxmax() the other.
Refused(work) == Len(work) >= 2 /\ FloatPrice(work[1]) = 0

-----------------------------------------------------------------------------

Frames(snapshots, listing, now) ==
    {SinceListing(s, listing) : s \in Sortings(AsOf(snapshots, now))}

\* What analyze_listing() may return.  The candidates' frame is sorted a
\* second time.
Analyses(snapshots, listing, now) ==
    LET frames == Frames(snapshots, listing, now)
    IN  [windows : {[w \in Windows |-> WindowStats(f, listing, w)] : f \in frames},
         candidates : {Candidates(f, listing) : f \in {g \in frames : ~Refused(g)}}]

\* It may raise instead.
MayFail(snapshots, listing, now) == \E f \in Frames(snapshots, listing, now) : Refused(f)

=============================================================================
