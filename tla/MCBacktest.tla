----------------------------- MODULE MCBacktest -----------------------------
(***************************************************************************)
(* Prices of 20 to 200 over four to six bars; slips of a tenth, fees of    *)
(* two hundredths, levels half a price away, a fast MACD of one bar.       *)
(***************************************************************************)
EXTENDS BacktestTools

Flat(c) == [open |-> c, high |-> c, low |-> c, close |-> c, volume |-> 10]
Wide(lo, hi, c) == [open |-> c, high |-> hi, low |-> lo, close |-> c, volume |-> 30]

MCScenarios == [bull |-> <<Flat(20), Flat(40), Flat(60), Flat(80), Flat(100)>>,
                bear |-> <<Flat(100), Flat(80), Wide(20, 100, 60), Flat(40), Flat(20)>>]

MCHistories ==
    {<<Flat(20), b, c, d>> : b, c, d \in {Flat(20), Flat(60), Flat(80), Flat(100), Wide(20, 100, 60), Wide(60, 100, 80)}}
      \union {<<Flat(20), Flat(60), Wide(60, 100, 80), Flat(20), Flat(60), Flat(60)>>,
              <<Flat(60), Flat(20), Flat(60), Flat(40), Flat(20)>>,
              <<Flat(40), Flat(60), Flat(200), Flat(60)>>,
              <<Flat(40)>>}

Close(kind, period) == Ref(kind, period, "close")
Price == Close("sma", 1)

Strategy(name, side, entry, exit, take, stop) ==
    [name |-> name, side |-> side, entry |-> entry, exit |-> exit, take_profit |-> take,
     stop_loss |-> stop, size_pct |-> 100, venue |-> "kucoin", symbol_venue |-> "kucoin"]

Above == Compares(Price, "gt", Number(50))
Breakout == Strategy("one", "long", <<Above>>, <<>>, 50, 50)
Fade == Strategy("two", "short", <<Above>>, <<>>, 50, 50)
Unstopped ==
    Strategy("three", "short", <<Above>>, <<Compares(Close("rsi", 1), "gt", Number(80))>>, Null, Null)
Cross == Strategy("one", "long", <<Compares(Price, "crosses_above", Close("sma", 2))>>,
                  <<Compares(Price, "crosses_below", Close("ema", 2))>>, Null, 50)
Moving ==
    Strategy("four", "long", <<Compares(Ref("atr", 1, "hlc3"), "gte", Number(20)), Compares(Close("volume", 1), "lte", Number(10))>>,
                   <<Compares(Close("macd", 2), "lt", Number(0))>>, Null, Null)
NoMacd == Strategy("five", "long", <<Compares(Close("macd", 1), "gt", Number(0))>>, <<>>, 50, Null)
NoWayOut == Strategy("six", "long", <<Above>>, <<>>, Null, Null)
Misplaced == [Breakout EXCEPT !.symbol_venue = "coingecko"]

Good == {Breakout, Fade, Unstopped, Cross, Moving, NoMacd}
Bad == {NoWayOut, Misplaced}

JobOf(s, scenario) == [spec |-> s, scenario |-> scenario]
RequestOf(tool, jobs, numbers) == [tool |-> tool, jobs |-> jobs, numbers |-> numbers]

MCRequests ==
    {RequestOf("backtest", <<JobOf(s, Null)>>, "good") : s \in Good \union Bad}
      \union {RequestOf("compare", <<JobOf(s, Null), JobOf(t, Null)>>, "good") :
                  s \in {Breakout, Fade}, t \in {Cross, NoWayOut}}
      \union {RequestOf("stress", <<JobOf(s, "bull"), JobOf(s, "bear"), JobOf(s, "crab"), JobOf(s, "bull")>>, "good") :
                  s \in Good \union Bad}
      \union {RequestOf("compare", <<JobOf(Fade, Null)>>, n) : n \in Numbers \ {"good"}}
=============================================================================
