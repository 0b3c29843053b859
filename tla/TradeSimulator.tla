--------------------------- MODULE TradeSimulator ---------------------------
(***************************************************************************)
(* BacktestEngine.run over TradeSimulator, one bar a step: the position,   *)
(* the equity, the trades and the equity curve, and what the report's      *)
(* validators refuse. Rates are in hundredths, money is counted in          *)
(* hundredths of price times lots, and sizes are whole lots, a fraction of *)
(* which is dust: the accounts are exact.                                  *)
(***************************************************************************)
EXTENDS StrategyEvaluator, StrategySpecs

CONSTANTS
    Histories,       \* the candles a fetch can answer with
    InitialEquity,
    Slippage, Fee,   \* hundredths
    MinNotional      \* Null: none

SpecTyped(s) == /\ s.side \in STRING /\ s.size_pct \in Int
                /\ {s.take_profit, s.stop_loss} \subseteq Int \union {Null}
                /\ \A ref \in Refs(s) : ref.period \in Int

Positions == [side : STRING, entry : Int, size : Int, opened : Int, fee : Int,
              take : Int \union {Null}, stop : Int \union {Null}]

ASSUME SimAssumption ==
    /\ Histories \subseteq Seq(Bar)
    /\ {InitialEquity, Slippage, Fee} \subseteq Int
    /\ Null \notin Int /\ Null \notin Positions

VARIABLES
    spec, bars,      \* what is tested
    bar,             \* bars seen
    equity, position, trades, curve,
    phase            \* "idle", "running", "report", "failed"

simVars == <<spec, bars, bar, equity, position, trades, curve, phase>>

MinCandles == 2

Rate(amount, rate) == (amount * rate) \div 100

\* LONG buys to enter and sells to exit, SHORT the other way round.
Slipped(price, side, isEntry) ==
    IF (side = "long") = isEntry THEN price + Rate(price, Slippage) ELSE price - Rate(price, Slippage)

FeeOf(size, price) == Fee * size * price

Lots(fill) == IF equity >= 0 THEN Rate(equity, spec.size_pct) \div (100 * fill)
              ELSE -(Rate(-equity, spec.size_pct) \div (100 * fill))

Level(fill, pct, up) == IF pct = Null THEN Null
                        ELSE IF up THEN fill + Rate(fill, pct) ELSE fill - Rate(fill, pct)

Gross(side, size, from, to) == 100 * size * (IF side = "long" THEN to - from ELSE from - to)

-----------------------------------------------------------------------------
\* BacktestTrade and BacktestReport refuse what contradicts itself.
TradeAccepted(t) ==
    /\ t.closed >= t.opened
    /\ t.size > 0
    /\ t.entry > 0 /\ t.exit > 0
    /\ LET sign == Gross(t.side, 1, t.entry, t.exit)
       IN  ~(sign > 0 /\ t.pnl < 0) /\ ~(sign < 0 /\ t.pnl > 0)

ReportAccepted(final, ts, points) ==
    /\ InitialEquity > 0
    /\ \A k \in 1 .. Len(ts) - 1 : ts[k].opened <= ts[k + 1].opened
    /\ points # <<>> => /\ points[1] = InitialEquity
                        /\ Last(points) = final

-----------------------------------------------------------------------------
ClosingForgetsEntryFee(price, atBar) ==       \* Mutant of Closing
    LET p == position
        exitFee == FeeOf(p.size, price)
        gross == Gross(p.side, p.size, p.entry, price)
    IN  [side |-> p.side, entry |-> p.entry, exit |-> price, size |-> p.size,
         opened |-> p.opened, closed |-> atBar,
         pnl |-> gross - exitFee, credit |-> gross - exitFee]

Closing(price, atBar) ==
    LET p == position
        exitFee == FeeOf(p.size, price)
        gross == Gross(p.side, p.size, p.entry, price)
    IN  [side |-> p.side, entry |-> p.entry, exit |-> price, size |-> p.size,
         opened |-> p.opened, closed |-> atBar,
         pnl |-> gross - p.fee - exitFee, credit |-> gross - exitFee]

Mark(p, cash, close) == cash + Gross(p.side, p.size, p.entry, close)

Candle == bars[bar + 1]
Inside(level) == level # Null /\ Candle.low <= level /\ level <= Candle.high

ExitPriceOnSignalOnly ==        \* Mutant of ExitPrice
    IF ExitSignal(spec, bar + 1, bars) = "true" THEN Slipped(Candle.close, position.side, FALSE)
    ELSE Null

\* What an open position is closed at on this bar: a level that the bar
\* reaches, the stop first for LONG and the take first for SHORT, or the close
\* if the exit signal says so.
ExitPrice ==
    LET p == position
        first == IF p.side = "long" THEN p.stop ELSE p.take
        second == IF p.side = "long" THEN p.take ELSE p.stop
    IN  IF Inside(first) THEN first
        ELSE IF Inside(second) THEN second
        ELSE IF ExitSignal(spec, bar + 1, bars) = "true" THEN Slipped(Candle.close, p.side, FALSE)
        ELSE Null

Wants == EntrySignal(spec, bar + 1, bars) = "true"
Fill == Slipped(Candle.close, spec.side, TRUE)
Skipped == \/ Fill <= 0
           \/ Lots(Fill) = 0
           \/ MinNotional # Null /\ 100 * Lots(Fill) * Fill < MinNotional

Opened ==
    [side |-> spec.side, entry |-> Fill, size |-> Lots(Fill), opened |-> bar + 1,
     fee |-> FeeOf(Lots(Fill), Fill),
     take |-> Level(Fill, spec.take_profit, spec.side = "long"),
     stop |-> Level(Fill, spec.stop_loss, spec.side # "long")]

Running == phase = "running" /\ bar < Len(bars)
Seen(point) == /\ bar' = bar + 1
               /\ curve' = Append(curve, point)
               /\ UNCHANGED <<spec, bars>>

Starts(s, h) ==
    /\ phase = "idle"
    /\ spec' = s
    /\ bars' = h
    /\ bar' = 0
    /\ equity' = InitialEquity
    /\ position' = Null
    /\ trades' = <<>>
    /\ curve' = <<>>
    /\ phase' = IF Len(h) >= MinCandles /\ \A ref \in Refs(s) : Buildable(ref)
                THEN "running" ELSE "failed"

Enters == /\ Running /\ position = Null /\ Wants /\ ~Skipped
          /\ position' = Opened
          /\ equity' = equity - Opened.fee
          /\ Seen(Mark(Opened, equity - Opened.fee, Candle.close))
          /\ UNCHANGED <<trades, phase>>

Waits == /\ Running /\ position = Null /\ (Wants => Skipped)
         /\ Seen(equity)
         /\ UNCHANGED <<equity, position, trades, phase>>

Holds == /\ Running /\ position # Null /\ ExitPrice = Null
         /\ Seen(Mark(position, equity, Candle.close))
         /\ UNCHANGED <<equity, position, trades, phase>>

Closes(t) == /\ position' = Null
             /\ equity' = equity + t.credit
             /\ trades' = Append(trades, t)

Exits == /\ Running /\ position # Null /\ ExitPrice # Null
         /\ LET t == Closing(ExitPrice, bar + 1)
            IN  /\ Closes(t)
                /\ Seen(equity + t.credit)
                /\ phase' = IF TradeAccepted(t) THEN "running" ELSE "failed"

\* The series is over: what is open is closed at the last close, the last
\* point of the curve is replaced, and the report is built.
Finishes ==
    /\ phase = "running" /\ bar = Len(bars)
    /\ IF position = Null
       THEN /\ UNCHANGED <<equity, position, trades, curve>>
            /\ phase' = IF ReportAccepted(equity, trades, curve) THEN "report" ELSE "failed"
       ELSE LET t == Closing(Slipped(Last(bars).close, position.side, FALSE), Len(bars))
            IN  /\ Closes(t)
                /\ curve' = ReplaceAt(curve, Len(curve), equity + t.credit)
                /\ phase' = IF TradeAccepted(t) /\ ReportAccepted(equity', trades', curve')
                            THEN "report" ELSE "failed"
    /\ UNCHANGED <<spec, bars, bar>>

SimInit == /\ spec = Null /\ bars = <<>> /\ bar = 0
           /\ equity = 0 /\ position = Null /\ trades = <<>> /\ curve = <<>>
           /\ phase = "idle"

SimStep == Enters \/ Waits \/ Holds \/ Exits \/ Finishes
=============================================================================
