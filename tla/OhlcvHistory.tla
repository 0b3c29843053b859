---------------------------- MODULE OhlcvHistory ----------------------------
(***************************************************************************)
(* fetch_ohlcv_history: a paginator that asks for one chunk of candles     *)
(* after the other, each through the chain of handlers: the state of the   *)
(* venue, the table ohlcv_candles, the L0 cache, the venue itself and the  *)
(* write-through. A candle is the number of its interval.                  *)
(***************************************************************************)
EXTENDS VenueHealth

CONSTANTS
    Calls,
    Windows,       \* what is asked: [since, until, chunk, forced]
    First,         \* the oldest candle the venue keeps
    MaxLatest,     \* bound: the last candle that begins
    None

\* HistoryInput's window, and a chunk of at least one candle.
ASSUME HistoryAssumption ==
    /\ First \in Int /\ MaxLatest \in Int /\ First <= MaxLatest
    /\ Windows \subseteq [since : Int, until : Int, chunk : Nat \ {0}, forced : BOOLEAN]

VARIABLES
    latest,        \* the newest candle of the venue
    rows,          \* candles in the table
    l0,            \* the L0 cache: <<since, chunk>> -> candles
    call           \* call[c], and (history) whether a chunk skipped candles

vars == <<healthVars, latest, rows, l0, call>>

Idle == [pc |-> "idle", window |-> None, cursor |-> 0, got |-> <<>>, chunk |-> {}, skipped |-> FALSE]

Init ==
    /\ HealthInit
    /\ latest = First
    /\ rows = {}
    /\ l0 = [k \in {} |-> {}]
    /\ call = [c \in Calls |-> Idle]

CallAt(c, pc) == call[c].pc = pc
Window(c) == call[c].window
Key(c) == <<call[c].cursor, Window(c).chunk>>
Goes(c, pc) == call' = [call EXCEPT ![c].pc = pc]
Ends(c, pc) == call' = [call EXCEPT ![c] = [Idle EXCEPT !.pc = pc]]

Oldest(n, S) == {x \in S : Cardinality({y \in S : y < x}) < n}
Newest(n, S) == {x \in S : Cardinality({y \in S : y > x}) < n}

\* Up to the first await of a fetch: the gate, and the bypass of the table.
FetchFrom(w) == IF ~Operational THEN "failed" ELSE IF w.forced THEN "asking" ELSE "loading"

Begins(c, w) ==
    /\ CallAt(c, "idle")
    /\ call' = [call EXCEPT ![c] = [Idle EXCEPT !.pc = FetchFrom(w), !.window = w, !.cursor = w.since]]
    /\ UNCHANGED <<healthVars, latest, rows, l0>>

\* The set in ascending order: the element with k elements up to it is the k-th.
InOrder(S) ==
    [k \in 1 .. Cardinality(S) |-> CHOOSE x \in S : Cardinality({y \in S : y <= x}) = k]

\* The paginator takes a chunk: what lies in the window is kept, and the next
\* fetch starts after the last candle of the chunk.
Clip(w, S) == {x \in S : w.since <= x /\ x < w.until}

NextCursorByChunk(c, S) == call[c].cursor + Window(c).chunk     \* Mutant of NextCursor

NextCursor(c, S) == Max(S) + 1

Takes(c, S, skips) ==
    LET w == Window(c)
        next == NextCursor(c, S)
        over == next <= call[c].cursor \/ next >= w.until
    IN  call' = [call EXCEPT ![c] =
            [@ EXCEPT !.got = call[c].got \o InOrder(Clip(w, S)),
                      !.cursor = next,
                      !.chunk = {},
                      !.skipped = call[c].skipped \/ skips,
                      !.pc = IF over THEN "done" ELSE FetchFrom(w)]]

Found(c) == Newest(Window(c).chunk, {r \in rows : r >= call[c].cursor})

\* The newest rows, in ascending order: those before them are skipped.
LoadHits(c) ==
    /\ CallAt(c, "loading")
    /\ Found(c) # {}
    /\ Takes(c, Found(c), TRUE)
    /\ UNCHANGED <<healthVars, latest, rows, l0>>

\* No row, or an error of the database.
LoadMisses(c) ==
    /\ CallAt(c, "loading")
    /\ Goes(c, "asking")
    /\ UNCHANGED <<healthVars, latest, rows, l0>>

\* force_refresh does not bypass the L0 cache; its entry is written through.
L0Hits(c) ==
    /\ CallAt(c, "asking")
    /\ Key(c) \in DOMAIN l0
    /\ call' = [call EXCEPT ![c].pc = "writing", ![c].chunk = l0[Key(c)]]
    /\ UNCHANGED <<healthVars, latest, rows, l0>>

\* The provider asks the state of the venue once more.
Asks(c) ==
    /\ CallAt(c, "asking")
    /\ Key(c) \notin DOMAIN l0
    /\ Goes(c, IF Operational THEN "calling" ELSE "failed")
    /\ UNCHANGED <<healthVars, latest, rows, l0>>

\* A venue asked for candles older than it keeps may answer with recent ones.
Answers(cursor, n) ==
    {Oldest(n, {x \in First .. latest : x >= cursor})}
      \union (IF cursor < First THEN {Newest(n, First .. latest)} ELSE {})

Answered(c, S) ==
    /\ CallAt(c, "calling")
    /\ S \in Answers(call[c].cursor, Window(c).chunk)
    /\ S # {}
    /\ call' = [call EXCEPT ![c].pc = "writing", ![c].chunk = S]
    /\ l0' = [k \in DOMAIN l0 \union {Key(c)} |-> IF k = Key(c) THEN S ELSE l0[k]]
    /\ loaded' = TRUE
    /\ UNCHANGED <<kind, errorCount, successStreak, probe, recent, latest, rows>>

\* No candles: ohlcv_to_series raises ValueError, which nobody translates.
AnsweredEmpty(c) ==
    /\ CallAt(c, "calling")
    /\ {} \in Answers(call[c].cursor, Window(c).chunk)
    /\ Ends(c, "crashed")
    /\ loaded' = TRUE
    /\ UNCHANGED <<kind, errorCount, successStreak, probe, recent, latest, rows, l0>>

\* Every attempt failed, the markets loaded or not: a ToolError.
CallFails(c) ==
    /\ CallAt(c, "calling")
    /\ Ends(c, "failed")
    /\ loaded' \in {loaded, TRUE}
    /\ UNCHANGED <<kind, errorCount, successStreak, probe, recent, latest, rows, l0>>

\* A write that fails is a reason code. A chunk of recent candles skips some.
WriteThrough(c) ==
    /\ CallAt(c, "writing")
    /\ rows' \in {rows, rows \union call[c].chunk}
    /\ Takes(c, call[c].chunk, call[c].cursor < First /\ First \notin call[c].chunk)
    /\ UNCHANGED <<healthVars, latest, l0>>

Delivered(c) ==
    /\ call[c].pc \in {"done", "failed", "crashed"}
    /\ Ends(c, "idle")
    /\ UNCHANGED <<healthVars, latest, rows, l0>>

Expires(k) ==
    /\ k \in DOMAIN l0
    /\ l0' = [x \in DOMAIN l0 \ {k} |-> l0[x]]
    /\ UNCHANGED <<healthVars, latest, rows, call>>

CandleBegins ==
    /\ latest < MaxLatest
    /\ latest' = latest + 1
    /\ UNCHANGED <<healthVars, rows, l0, call>>

Next ==
    \/ \E c \in Calls :
          \/ \E w \in Windows : Begins(c, w)
          \/ LoadHits(c) \/ LoadMisses(c) \/ L0Hits(c) \/ Asks(c)
          \/ \E S \in SUBSET (First .. latest) : Answered(c, S)
          \/ AnsweredEmpty(c) \/ CallFails(c) \/ WriteThrough(c) \/ Delivered(c)
    \/ \E k \in DOMAIN l0 : Expires(k)
    \/ CandleBegins
    \/ HealthStep /\ UNCHANGED <<latest, rows, l0, call>>

Spec == Init /\ [][Next]_vars

-----------------------------------------------------------------------------
\* (HistoryIsTheWindow) What a history has gathered lies in its window, in
\* order and without repetition, whatever its chunks came from, however short
\* they were and although the market moves and other calls write meanwhile;
\* and one that ends with chunks of which none skipped candles has them all.
HistoryIsTheWindow ==
    \A c \in Calls :
        LET w == Window(c)
            got == call[c].got
        IN  /\ \A k \in DOMAIN got : w.since <= got[k] /\ got[k] < w.until /\ got[k] \in First .. latest
            /\ \A k \in 2 .. Len(got) : got[k - 1] < got[k]
            /\ CallAt(c, "done") /\ ~call[c].skipped =>
                  ToSet(got) = {x \in First .. latest : w.since <= x /\ x < w.until}

\* (StreaksDecide) A venue turns degraded at the third failing probe in a row
\* and healthy at the fifth success in a row, with no memory of the probes
\* before the streak, while requests load the markets and the monitor is
\* stopped in the middle of a probe; and a probe that begins with the markets
\* loaded sees nothing: it never makes the venue worse.
StreaksDecide ==
    [][/\ kind' # kind =>
             \/ /\ kind = "healthy" /\ kind' = "degraded"
                /\ Len(recent') >= ErrorsBeforeDegraded
                /\ \A k \in 1 .. ErrorsBeforeDegraded : recent'[k] = "error"
             \/ /\ kind = "degraded" /\ kind' = "healthy"
                /\ Len(recent') >= SuccessesBeforeHealthy
                /\ \A k \in 1 .. SuccessesBeforeHealthy : recent'[k] = "ok"
       /\ probe = "blind" => kind' = kind \/ kind' = "healthy"]_healthVars

\* (ExhaustedEnds) A history that asks for more than the venue has ends with
\* what there is: the paginator "short-circuits on empty chunks (provider
\* exhausted the venue's history)", as ohlcv_paginator.py:8 says.
ExhaustedEnds == \A c \in Calls : ~CallAt(c, "crashed")
=============================================================================
