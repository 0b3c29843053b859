--------------------------- MODULE MCOhlcvHistory ---------------------------
(***************************************************************************)
(* Two histories over a venue that keeps candles from 2 on and begins one  *)
(* more: one window starts before the retention, goes candle by candle and *)
(* takes what the caches have; the other is forced, takes two candles at a *)
(* time and asks for more than the venue will have.                        *)
(***************************************************************************)
EXTENDS OhlcvHistory

Asked(since, until, chunk, forced) ==
    [since |-> since, until |-> until, chunk |-> chunk, forced |-> forced]

MCWindows == {Asked(1, 4, 1, FALSE), Asked(2, 5, 2, TRUE)}
=============================================================================
