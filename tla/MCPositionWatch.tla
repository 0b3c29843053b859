-------------------------- MODULE MCPositionWatch --------------------------
(* Levels and trades for PositionWatch: one price per region the detector   *)
(* tells apart, one trade time on each side of the deadline.                *)
EXTENDS PositionWatch, TLC

\* Long, reward twice the risk: 30 is breakeven, 36 breakeven and near the take.
LongPrices == {10, 12, 20, 30, 36, 40}
\* Short, reward below the risk: breakeven lies beyond the take.
ShortPrices == {30, 28, 20, 16, 15}
TradeTimes == {1, 9}

\* The clients and the callers of stop are interchangeable.
Symmetry == Permutations(Readers) \cup Permutations(Stoppers)
=============================================================================
