--------------------------- MODULE StrategySpecs ---------------------------
(***************************************************************************)
(* A strategy specification as it travels: the payload a client sends, the *)
(* domain object made of it, and the two places that refuse it. Names,     *)
(* symbols and texts are model values; a percentage is in hundredths.      *)
(***************************************************************************)
EXTENDS Integers, SequencesExt

CONSTANT Null

Ref(kind, period, source) == [kind |-> kind, period |-> period, source |-> source]
Number(n) == Ref("number", n, Null)      \* a Decimal on the right hand side
Compares(lhs, op, rhs) == [lhs |-> lhs, op |-> op, rhs |-> rhs]

Kinds == {"sma", "ema", "rsi", "macd", "atr", "volume"}
Comparators == {"gt", "gte", "lt", "lte", "crosses_above", "crosses_below"}
Sides == {"long", "short"}

RefAccepted(r) == r.kind \in Kinds /\ r.period > 0
ConditionAccepted(c) == /\ c.op \in Comparators
                        /\ RefAccepted(c.lhs)
                        /\ c.rhs.kind # "number" => RefAccepted(c.rhs)

\* What a JSON object can spell: these fields, and a number is only a number.
RefShaped(r) == r = Ref(r.kind, r.period, r.source) /\ (r.kind = "number" => r.source = Null)
ConditionShaped(c) == c = Compares(c.lhs, c.op, c.rhs) /\ RefShaped(c.lhs) /\ RefShaped(c.rhs)
ConditionsShaped(cs) == /\ Len(cs) \in Nat /\ cs = [k \in 1 .. Len(cs) |-> cs[k]]
                        /\ \A k \in 1 .. Len(cs) : ConditionShaped(cs[k])
PayloadShaped(s) ==
    /\ s = [name |-> s.name, side |-> s.side, entry |-> s.entry, exit |-> s.exit,
            take_profit |-> s.take_profit, stop_loss |-> s.stop_loss, size_pct |-> s.size_pct,
            venue |-> s.venue, symbol_venue |-> s.symbol_venue]
    /\ ConditionsShaped(s.entry) /\ ConditionsShaped(s.exit)

\* StrategySpecPayload.model_validate: shapes, and the venue said twice.
PayloadAccepts(s) ==
    /\ s.side \in Sides
    /\ s.entry # <<>>
    /\ \A c \in ToSet(s.entry) \union ToSet(s.exit) : ConditionAccepted(c)
    /\ s.size_pct \in 1 .. 100
    /\ s.venue = s.symbol_venue

\* StrategyExit: a way out, and thresholds above zero. Only to_domain asks.
DomainAccepts(s) ==
    /\ s.exit # <<>> \/ s.take_profit # Null \/ s.stop_loss # Null
    /\ s.take_profit # Null => s.take_profit > 0
    /\ s.stop_loss # Null => s.stop_loss > 0

\* validate_strategy, and what backtests and saves ask first.
Parses(s) == PayloadAccepts(s) /\ DomainAccepts(s)
=============================================================================
