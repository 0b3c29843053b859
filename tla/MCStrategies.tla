---------------------------- MODULE MCStrategies ----------------------------
(***************************************************************************)
(* Five payloads that differ in a leaf, in the number of conditions and in *)
(* the kind of a right hand side; two of them are refused.                 *)
(***************************************************************************)
EXTENDS StrategyDiff

Sma(n) == Ref("sma", n, "close")
Strategy(name, entry, exit, take, stop) ==
    [name |-> name, side |-> "long", entry |-> entry, exit |-> exit, take_profit |-> take,
     stop_loss |-> stop, size_pct |-> 50, venue |-> "kucoin", symbol_venue |-> "kucoin"]

Above(r) == Compares(Sma(1), "gt", r)

MCPayloads ==
    {Strategy("one", <<Above(Number(5))>>, <<>>, 5, Null),
     Strategy("one", <<Above(Sma(2))>>, <<Above(Sma(3))>>, 5, Null),
     Strategy("one", <<Above(Number(5)), Above(Sma(2))>>, <<>>, 5, 3),
     Strategy("one", <<Above(Number(5))>>, <<>>, Null, Null),
     [Strategy("one", <<Above(Number(5))>>, <<>>, 5, Null) EXCEPT !.size_pct = 0]}
=============================================================================
