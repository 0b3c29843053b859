--------------------------- MODULE BacktestTools ---------------------------
(***************************************************************************)
(* backtest_strategy, compare_strategies and stress_test: a request is a   *)
(* list of jobs, run one after the other over TradeSimulator, and what     *)
(* fails on the way becomes a line of the answer.                          *)
(***************************************************************************)
EXTENDS TradeSimulator, BacktestMetrics

CONSTANTS
    Requests,       \* [tool, jobs, numbers]: what clients ask
    Scenarios       \* the synthetic candles: name -> history

ASSUME ToolsAssumption ==
    /\ \A r \in Requests : /\ Len(r.jobs) \in Nat
                           /\ \A k \in 1 .. Len(r.jobs) :
                                 /\ SpecTyped(r.jobs[k].spec)
                                 /\ r.tool = "stress" => r.jobs[k].spec = r.jobs[1].spec
    /\ \A name \in DOMAIN Scenarios : Scenarios[name] \in Seq(Bar)

VARIABLES
    request, at,    \* the request and the jobs done; Null: no call
    results, errors,
    answer          \* "none", "given", "raised"

vars == <<simVars, request, at, results, errors, answer>>

Init == SimInit /\ request = Null /\ at = 0 /\ results = <<>> /\ errors = 0 /\ answer = "none"

\* The numbers of a request: "good"; "bad", which is an error of the answer;
\* "not a number", whose InvalidOperation no tool catches.
Numbers == {"good", "bad", "not a number"}

NamedBacktest(name, outcome, metrics) == [name |-> name, outcome |-> outcome, metrics |-> metrics]

Job == request.jobs[at + 1]
Working == request # Null /\ answer = "none" /\ phase = "idle"
HasJob == Working /\ at < Len(request.jobs)

\* A stress test keeps its results by scenario, the others in order.
Put(r) ==
    IF request.tool = "stress" /\ \E k \in DOMAIN results : results[k].name = r.name
    THEN [k \in DOMAIN results |-> IF results[k].name = r.name THEN r ELSE results[k]]
    ELSE Append(results, r)

\* The spec of a single backtest is parsed before its numbers are.
Requested(r) ==
    /\ request = Null
    /\ LET early == r.tool # "compare" /\ ~Parses(r.jobs[1].spec)
       IN  /\ errors' = IF early \/ r.numbers = "bad" THEN 1 ELSE 0
           /\ answer' = IF early \/ r.numbers = "bad" THEN "given"
                        ELSE IF r.numbers = "not a number" THEN "raised" ELSE "none"
    /\ request' = r
    /\ at' = 0
    /\ results' = <<>>
    /\ UNCHANGED simVars

NextJob == at' = at + 1 /\ UNCHANGED <<request, answer>>

\* A spec of compare_strategies that does not parse is named in the errors only.
Unparsed ==
    /\ HasJob
    /\ ~Parses(Job.spec)
    /\ errors' = errors + 1
    /\ NextJob
    /\ UNCHANGED <<simVars, results>>

\* A scenario nobody knows, or one that is no name at all.
UnknownScenario ==
    /\ HasJob /\ request.tool = "stress"
    /\ Job.scenario \notin DOMAIN Scenarios
    /\ errors' = errors + 1
    /\ NextJob
    /\ UNCHANGED <<simVars, results>>

FetchFails ==
    /\ HasJob /\ request.tool # "stress"
    /\ Parses(Job.spec)
    /\ errors' = errors + 1
    /\ results' = IF request.tool = "compare"
                  THEN Put(NamedBacktest(Job.spec.name, "error", None)) ELSE results
    /\ NextJob
    /\ UNCHANGED simVars

\* Every job of a comparison fetches for itself: the market may have moved.
Fetched(h) ==
    /\ HasJob /\ request.tool # "stress"
    /\ Parses(Job.spec)
    /\ Starts(Job.spec, h)
    /\ UNCHANGED <<request, at, results, errors, answer>>

Stressed ==
    /\ HasJob /\ request.tool = "stress"
    /\ Job.scenario \in DOMAIN Scenarios
    /\ Starts(Job.spec, Scenarios[Job.scenario])
    /\ UNCHANGED <<request, at, results, errors, answer>>

Named == IF request.tool = "stress" THEN Job.scenario ELSE Job.spec.name

SimReset == /\ spec' = Null /\ bars' = <<>> /\ bar' = 0
            /\ equity' = 0 /\ position' = Null /\ trades' = <<>> /\ curve' = <<>>
            /\ phase' = "idle"

Reported ==
    /\ phase = "report"
    /\ results' = Put(NamedBacktest(Named, "report", Metrics(InitialEquity, equity, trades, curve)))
    /\ NextJob
    /\ SimReset
    /\ UNCHANGED errors

EngineFailed ==
    /\ phase = "failed"
    /\ results' = IF request.tool = "backtest" THEN results
                  ELSE Put(NamedBacktest(Named, "error", None))
    /\ errors' = errors + 1
    /\ NextJob
    /\ SimReset

\* Without a report the answer of a single backtest is its error.
Answers ==
    /\ Working
    /\ at = Len(request.jobs)
    /\ answer' = "given"
    /\ UNCHANGED <<simVars, request, at, results, errors>>

Delivered ==
    /\ answer # "none"
    /\ request' = Null /\ at' = 0 /\ results' = <<>> /\ errors' = 0 /\ answer' = "none"
    /\ UNCHANGED simVars

Simulates == SimStep /\ UNCHANGED <<request, at, results, errors, answer>>

Next == \/ \E r \in Requests : Requested(r)
        \/ \E h \in Histories : Fetched(h)
        \/ Unparsed \/ UnknownScenario \/ FetchFails \/ Stressed
        \/ Simulates \/ Reported \/ EngineFailed \/ Answers \/ Delivered

Spec == Init /\ [][Next]_vars

\* Metric by metric, the last result of a name that has a report.
Comparison ==
    LET done == {k \in DOMAIN results : results[k].outcome = "report"}
    IN  [n \in {results[k].name : k \in done} |->
            results[Max({k \in done : results[k].name = n})].metrics]

-----------------------------------------------------------------------------
\* (BooksBalance) The equity is the initial one with the pnl of every closed
\* trade and without the entry fee of the open one: equity and trades are two
\* accounts of the same money, kept by different lines, with the entry fee
\* taken at the entry and told at the exit. When a report is made the curve,
\* the trades and the metrics therefore agree on who won.
BooksBalance ==
    /\ phase \in {"running", "report"} =>
          equity = InitialEquity + SumOf(PnL(trades), DOMAIN trades)
                     - (IF position = Null THEN 0 ELSE position.fee)
    /\ phase = "report" =>
          LET m == Metrics(InitialEquity, equity, trades, curve)
          IN  /\ m.profit_factor # None =>
                    (m.profit_factor[1] > m.profit_factor[2] <=> m.total_return[1] > 0)
              /\ m.win_rate[1] = m.win_rate[2] => m.total_return[1] > 0
              /\ m.max_drawdown[1] = 0 => m.total_return[1] >= 0 /\ ~\E t \in Losers(trades) : TRUE

\* (NoLookAhead) What the evaluator says of a bar is what it would say if the
\* series ended with that bar, although every indicator is computed over the
\* whole series before the first bar is seen.
NoLookAhead ==
    bar > 0 => LET seen == SubSeq(bars, 1, bar)
               IN  /\ EntrySignal(spec, bar, bars) = EntrySignal(spec, bar, seen)
                   /\ ExitSignal(spec, bar, bars) = ExitSignal(spec, bar, seen)

TakeOf(t) == Level(t.entry, spec.take_profit, t.side = "long")
StopOf(t) == Level(t.entry, spec.stop_loss, t.side # "long")
Reaches(k, level) == level # Null /\ bars[k].low <= level /\ level <= bars[k].high

\* (ExitsInTime) A trade is closed on the first bar after its entry that holds
\* one of its levels or tells it to exit, at that level or at the slipped
\* close, and else with the last bar; and no trade begins before the one
\* before it is closed.
ExitsInTime ==
    \A k \in DOMAIN trades :
        LET t == trades[k]
            held == {TakeOf(t), StopOf(t)}
            told(i) == \/ \E level \in held : Reaches(i, level)
                       \/ ExitSignal(spec, i, bars) = "true"
        IN  /\ \A i \in t.opened + 1 .. t.closed - 1 : ~told(i)
            /\ t.closed < Len(bars) => t.closed > t.opened /\ told(t.closed)
            /\ t.exit \in held \/ t.exit = Slipped(bars[t.closed].close, t.side, FALSE)
            /\ k > 1 => t.opened > trades[k - 1].closed
=============================================================================
