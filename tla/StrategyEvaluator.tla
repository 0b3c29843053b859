------------------------- MODULE StrategyEvaluator -------------------------
(***************************************************************************)
(* The indicators of application/backtest/indicators and the evaluator     *)
(* that turns their series into entry and exit signals. A series has one   *)
(* value per bar, NaN while it warms up; the floats of numpy are integers  *)
(* in hundredths, with divisions rounded down.                             *)
(***************************************************************************)
EXTENDS Integers, SequencesExt

CONSTANTS
    NaN,
    FastPeriod          \* of MACD: 12 in the code

ASSUME EvaluatorAssumption == FastPeriod \in Nat \ {0}

Hundredths == 100

Bar == [open : Nat, high : Nat, low : Nat, close : Nat, volume : Nat]

Prices(bars, source) ==
    [i \in DOMAIN bars |->
        Hundredths * (IF source = "hlc3" THEN (bars[i].high + bars[i].low + bars[i].close) \div 3
                      ELSE bars[i][source])]

MeanOf(f, from, to) == MapThenSumSet(LAMBDA k : f[k], from .. to) \div (to - from + 1)

SMALooksAhead(f, period) ==       \* Mutant of SMA
    [i \in DOMAIN f |-> IF i < period THEN NaN
                        ELSE MeanOf(f, i - period + 1, IF i + 1 \in DOMAIN f THEN i + 1 ELSE i)]

SMA(f, period) ==
    [i \in DOMAIN f |-> IF i < period THEN NaN ELSE MeanOf(f, i - period + 1, i)]

EMA(f, period) ==
    LET ema[i \in DOMAIN f] ==
            IF i < period THEN NaN
            ELSE IF i = period THEN MeanOf(f, 1, period)
            ELSE (2 * f[i] + (period - 1) * ema[i - 1]) \div (period + 1)
    IN  ema

\* Wilder's smoothing: a mean of the first values, then one new share each bar.
Smoothed(f, period) ==
    LET s[i \in 1 .. Len(f)] ==
            IF i <= period THEN NaN
            ELSE IF i = period + 1 THEN MeanOf(f, 2, period + 1)
            ELSE ((period - 1) * s[i - 1] + f[i]) \div period
    IN  s

Positive(n) == IF n > 0 THEN n ELSE 0

\* 100 - 100 / (1 + gain / loss) is 100 * gain / (gain + loss).
RSI(f, period) ==
    LET gain == Smoothed([i \in 1 .. Len(f) |-> IF i = 1 THEN 0 ELSE Positive(f[i] - f[i - 1])], period)
        loss == Smoothed([i \in 1 .. Len(f) |-> IF i = 1 THEN 0 ELSE Positive(f[i - 1] - f[i])], period)
    IN  [i \in DOMAIN f |-> IF gain[i] = NaN THEN NaN
                            ELSE IF loss[i] = 0 THEN 100 * Hundredths
                            ELSE (100 * Hundredths * gain[i]) \div (gain[i] + loss[i])]

Abs(n) == IF n < 0 THEN -n ELSE n

ATR(bars, period) ==
    LET true[i \in 1 .. Len(bars)] ==
            IF i = 1 THEN 0
            ELSE Hundredths * Max({bars[i].high - bars[i].low,
                                   Abs(bars[i].high - bars[i - 1].close),
                                   Abs(bars[i].low - bars[i - 1].close)})
    IN  Smoothed(true, period)

MACD(f, slow) ==
    LET fast == EMA(f, FastPeriod)
        far == EMA(f, slow)
    IN  [i \in DOMAIN f |-> IF NaN \in {fast[i], far[i]} THEN NaN ELSE fast[i] - far[i]]

\* create_indicator: a reference is its kind, its period and its price source.
Series(ref, bars) ==
    LET f == Prices(bars, ref.source)
    IN  CASE ref.kind = "sma"    -> SMA(f, ref.period)
          [] ref.kind = "ema"    -> EMA(f, ref.period)
          [] ref.kind = "rsi"    -> RSI(f, ref.period)
          [] ref.kind = "macd"   -> MACD(f, ref.period)
          [] ref.kind = "atr"    -> ATR(bars, ref.period)
          [] ref.kind = "volume" -> [i \in DOMAIN bars |-> Hundredths * bars[i].volume]

\* A MACD whose slow period is not above the fast one cannot be built.
Buildable(ref) == ref.kind = "macd" => ref.period > FastPeriod

Conditions(spec) == ToSet(spec.entry) \union ToSet(spec.exit)
Refs(spec) == {r \in UNION {{c.lhs, c.rhs} : c \in Conditions(spec)} : r.kind # "number"}

-----------------------------------------------------------------------------
\* A condition compares an indicator with another one or with a constant.
SideAt(c, side, i, bars) ==
    IF c[side].kind = "number" THEN Hundredths * c[side].period
    ELSE IF i < 1 THEN NaN
    ELSE Series(c[side], bars)[i]

Warming == "warming"     \* the None of the code
Truth(p) == IF p THEN "true" ELSE "false"

Evaluated(c, i, bars) ==
    LET l == SideAt(c, "lhs", i, bars)
        r == SideAt(c, "rhs", i, bars)
        pl == SideAt(c, "lhs", i - 1, bars)
        pr == SideAt(c, "rhs", i - 1, bars)
    IN  CASE NaN \in {l, r} -> Warming
          [] c.op = "gt"  -> Truth(l > r)
          [] c.op = "gte" -> Truth(l >= r)
          [] c.op = "lt"  -> Truth(l < r)
          [] c.op = "lte" -> Truth(l <= r)
          [] NaN \in {pl, pr} -> Warming
          [] c.op = "crosses_above" -> Truth(pl <= pr /\ l > r)
          [] c.op = "crosses_below" -> Truth(pl >= pr /\ l < r)

FoldAnd(signals) == IF Warming \in signals THEN Warming ELSE Truth("false" \notin signals)
FoldOr(signals) == IF Warming \in signals THEN Warming ELSE Truth("true" \in signals)

EntrySignal(spec, i, bars) == FoldAnd({Evaluated(c, i, bars) : c \in ToSet(spec.entry)})
ExitSignal(spec, i, bars) == FoldOr({Evaluated(c, i, bars) : c \in ToSet(spec.exit)})
=============================================================================
