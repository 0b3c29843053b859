-------------------------- MODULE BacktestMetrics --------------------------
(***************************************************************************)
(* The five visitors of a backtest report. A ratio is kept as a pair of    *)
(* integers, <<over, under>>; None is a metric that is not defined.        *)
(***************************************************************************)
EXTENDS Integers, SequencesExt

CONSTANT None

SumOf(f, S) == MapThenSumSet(LAMBDA k : f[k], S)

TotalReturn(initial, final) == <<final - initial, initial>>

Winners(trades) == {k \in DOMAIN trades : trades[k].pnl > 0}
Losers(trades) == {k \in DOMAIN trades : trades[k].pnl < 0}
PnL(trades) == [k \in DOMAIN trades |-> trades[k].pnl]

WinRate(trades) == IF trades = <<>> THEN <<0, 1>>
                   ELSE <<Cardinality(Winners(trades)), Len(trades)>>

ProfitFactor(trades) ==
    IF Losers(trades) = {} THEN None
    ELSE <<SumOf(PnL(trades), Winners(trades)), -SumOf(PnL(trades), Losers(trades))>>

\* The deepest fall from an earlier peak, as a share of the peak, at most 1.
\* A peak of zero or less counts nothing.
PeakAt(curve, k) == Max({0} \union {curve[j] : j \in 1 .. k})
FallAt(curve, k) == IF PeakAt(curve, k) = 0 THEN <<0, 1>>
                    ELSE <<PeakAt(curve, k) - curve[k], PeakAt(curve, k)>>
NoMore(p, q) == p[1] * q[2] <= q[1] * p[2]

MaxDrawdown(curve) ==
    IF curve = <<>> THEN None
    ELSE LET deepest == CHOOSE d \in {FallAt(curve, k) : k \in DOMAIN curve} :
                            \A k \in DOMAIN curve : NoMore(FallAt(curve, k), d)
         IN  IF deepest[1] > deepest[2] THEN <<1, 1>> ELSE deepest

\* Sharpe's ratio is not defined with fewer than two returns, where a step
\* from zero equity is none, or when all the returns are the same.
Returns(curve) ==
    {<<curve[k + 1] - curve[k], curve[k]>> : k \in {j \in 1 .. Len(curve) - 1 : curve[j] # 0}}
Steps(curve) == Cardinality({j \in 1 .. Len(curve) - 1 : curve[j] # 0})
SharpeDefined(curve) ==
    /\ Steps(curve) >= 2
    /\ \E r, q \in Returns(curve) : r[1] * q[2] # q[1] * r[2]

Metrics(initial, final, trades, curve) ==
    [total_return |-> TotalReturn(initial, final),
     win_rate |-> WinRate(trades),
     profit_factor |-> ProfitFactor(trades),
     max_drawdown |-> MaxDrawdown(curve),
     sharpe_defined |-> SharpeDefined(curve)]
=============================================================================
