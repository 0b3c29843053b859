--------------------------- MODULE PositionWatch ---------------------------
(***************************************************************************)
(* One position watch: the pure EventDetector, the background task that     *)
(* feeds it with exchange trades, the callers of PositionWatcher.stop and   *)
(* the clients that long-poll the watch with wait_for_event/check_watch.    *)
(*                                                                         *)
(* Everything runs on one asyncio loop, so an action is one segment between *)
(* two suspension points.  notify_change never suspends (no coroutine keeps *)
(* the condition's lock across a suspension) and belongs to the segment     *)
(* that calls it; what it wakes runs later, as a step of its own.           *)
(***************************************************************************)
EXTENDS Integers, Sequences, FiniteSets

CONSTANTS
    Side,           \* "long" or "short"
    Entry,          \* entry price; prices are integers, in ticks of the venue
    StopPrice,      \* stop-loss level
    TakePrice,      \* take-profit level
    Prices,         \* the trade prices the exchange may report
    Times,          \* the trade timestamps the exchange may report
    Deadline,       \* started_at_ms + max_duration_sec * 1000
    EventBufferCap, \* _EVENT_BUFFER_CAP, 200 in the code
    Readers,        \* clients that long-poll the watch
    Stoppers        \* callers of PositionWatcher.stop

\* What WatchState.__post_init__ accepts, and the buffer's capacity.
ASSUME LevelsAssumption ==
    /\ Side \in {"long", "short"}
    /\ Entry \in Nat \ {0} /\ StopPrice \in Nat \ {0} /\ TakePrice \in Nat \ {0}
    /\ Side = "long" => StopPrice < Entry /\ Entry < TakePrice
    /\ Side = "short" => TakePrice < Entry /\ Entry < StopPrice
    /\ Prices \subseteq Nat /\ Times \subseteq Nat /\ Deadline \in Nat
ASSUME BufferAssumption == EventBufferCap \in Nat /\ EventBufferCap >= 4

VARIABLES
    status,     \* WatchState.status
    events,     \* WatchState.events
    fired,      \* WatchState._fired_non_terminal
    lastTick,   \* current_price and last_tick_at_ms (pnl follows from them)
    task,       \* where WatchState._task stands
    cancelling, \* Task.cancel was called and CancelledError is not yet thrown
    hasHandler, \* start was given an on_terminal callback
    reader,     \* reader -> "idle", "waiting" (in the condition) or "woken"
    cursor,     \* reader -> the next_event_index it was last given
    told,       \* reader -> the status in its last response
    delivered,  \* reader -> every event it was ever sent, in order (history)
    stopper     \* caller of stop -> "idle", "awaiting" the task, "returned"

watchVars == <<status, events, fired, lastTick, task, cancelling, hasHandler>>
readerVars == <<cursor, told, delivered>>
vars == <<status, events, fired, lastTick, task, cancelling, hasHandler,
          reader, cursor, told, delivered, stopper>>

TerminalType == {"stop_hit", "take_hit", "timeout"}
MilestoneType == {"price_approaches_stop", "price_approaches_take",
                  "breakeven_reached"}
EventType == TerminalType \cup MilestoneType
Status == {"running", "cancelled", "error"} \cup TerminalType
TaskState == {"absent", "scheduled", "iterating", "in_handler", "done"}

Event == [type : EventType, ts : Times, price : Prices]
NoTick == [price |-> -1, ts |-> -1]
Tick == [price : Prices, ts : Times]

----------------------------------------------------------------------------
(* EventDetector *)

Dist(a, b) == IF a >= b THEN a - b ELSE b - a

IsStopHit(p) == IF Side = "long" THEN p <= StopPrice ELSE p >= StopPrice
IsTakeHit(p) == IF Side = "long" THEN p >= TakePrice ELSE p <= TakePrice

\* Mutant of IsNearStop: the band ratio is forgotten.
IsNearStopNoBand(p) ==
    IF Side = "long" THEN StopPrice < p /\ p - StopPrice <= Dist(Entry, StopPrice)
                     ELSE p < StopPrice /\ StopPrice - p <= Dist(Entry, StopPrice)

\* _APPROACH_BAND_RATIO is 1/5: "within the band of a level" is
\* 5 * (distance to the level) <= distance from the entry to the level.
IsNearStop(p) ==
    /\ IF Side = "long" THEN StopPrice < p ELSE p < StopPrice
    /\ IF Side = "long" THEN 5 * (p - StopPrice) <= Dist(Entry, StopPrice)
                        ELSE 5 * (StopPrice - p) <= Dist(Entry, StopPrice)

IsNearTake(p) ==
    /\ IF Side = "long" THEN p < TakePrice ELSE TakePrice < p
    /\ IF Side = "long" THEN 5 * (TakePrice - p) <= Dist(TakePrice, Entry)
                        ELSE 5 * (p - TakePrice) <= Dist(TakePrice, Entry)

IsBreakeven(p) ==
    (IF Side = "long" THEN p - Entry ELSE Entry - p) >= Dist(Entry, StopPrice)

\* The terminal event a tick raises, "none" if it raises none.
TerminalOf(p, ts) ==
    IF IsStopHit(p) THEN "stop_hit"
    ELSE IF IsTakeHit(p) THEN "take_hit"
    ELSE IF ts >= Deadline THEN "timeout"
    ELSE "none"

\* The milestones a tick reaches for the first time.
Fresh(p) ==
    {t \in MilestoneType \ fired :
        \/ t = "price_approaches_stop" /\ IsNearStop(p)
        \/ t = "price_approaches_take" /\ IsNearTake(p)
        \/ t = "breakeven_reached" /\ IsBreakeven(p)}

\* WatchState.append_event: the buffer drops its oldest events beyond the cap.
AppendEvent(s, e) ==
    IF Len(s) < EventBufferCap THEN Append(s, e)
    ELSE SubSeq(Append(s, e), Len(s) + 2 - EventBufferCap, Len(s) + 1)

AppendIf(cond, s, e) == IF cond THEN AppendEvent(s, e) ELSE s

NewEvent(t, p, ts) == [type |-> t, ts |-> ts, price |-> p]

\* The events of one tick, in the order detect lists them.
AppendMilestones(s, new, p, ts) ==
    LET add(t, q) == AppendIf(t \in new, q, NewEvent(t, p, ts))
    IN  add("breakeven_reached",
          add("price_approaches_take",
            add("price_approaches_stop", s)))

----------------------------------------------------------------------------
(* The watch task *)

\* Condition.notify_all: every blocked waiter becomes runnable.
Notified == [r \in Readers |-> IF reader[r] = "waiting" THEN "woken" ELSE reader[r]]

Init ==
    /\ status = "running" /\ events = <<>> /\ fired = {} /\ lastTick = NoTick
    /\ task = "absent" /\ cancelling = FALSE /\ hasHandler = FALSE
    /\ reader = [r \in Readers |-> "idle"]
    /\ cursor = [r \in Readers |-> 0]
    /\ told = [r \in Readers |-> "running"]
    /\ delivered = [r \in Readers |-> <<>>]
    /\ stopper = [s \in Stoppers |-> "idle"]

\* PositionWatcher.start: register the state and schedule its task.
Start ==
    /\ task = "absent"
    /\ task' = "scheduled"
    /\ hasHandler' \in BOOLEAN
    /\ UNCHANGED <<status, events, fired, lastTick, cancelling, reader, stopper>>
    /\ UNCHANGED readerVars

\* The loop runs _run for the first time, up to its first `async for`.
TaskBegins ==
    /\ task = "scheduled" /\ ~cancelling
    /\ task' = "iterating"
    /\ UNCHANGED <<status, events, fired, lastTick, cancelling, hasHandler,
                   reader, stopper>>
    /\ UNCHANGED readerVars

TickArrives(p, ts) ==
    /\ task = "iterating" /\ ~cancelling
    /\ lastTick' = [price |-> p, ts |-> ts]
    /\ UNCHANGED <<cancelling, hasHandler, stopper>>
    /\ UNCHANGED readerVars

\* Mutant of TerminalTick: the loop goes on after the terminal event.
TerminalTickGoesOn(p, ts) ==
    /\ TerminalOf(p, ts) # "none"
    /\ TickArrives(p, ts)
    /\ events' = AppendEvent(events, NewEvent(TerminalOf(p, ts), p, ts))
    /\ status' = TerminalOf(p, ts)
    /\ reader' = Notified
    /\ UNCHANGED <<fired, task>>

\* A tick that ends the watch; the task goes on to await on_terminal.
TerminalTick(p, ts) ==
    /\ TerminalOf(p, ts) # "none"
    /\ TickArrives(p, ts)
    /\ events' = AppendEvent(events, NewEvent(TerminalOf(p, ts), p, ts))
    /\ status' = TerminalOf(p, ts)
    /\ reader' = Notified
    /\ task' = IF hasHandler THEN "in_handler" ELSE "done"
    /\ UNCHANGED fired

\* Mutants of MilestoneTick: the types are not recorded as fired; every event,
\* not only a terminal one, becomes the status.
MilestoneTickForgets(p, ts) ==
    /\ TerminalOf(p, ts) = "none"
    /\ TickArrives(p, ts)
    /\ events' = AppendMilestones(events, Fresh(p), p, ts)
    /\ reader' = IF Fresh(p) # {} THEN Notified ELSE reader
    /\ UNCHANGED <<status, fired, task>>

MilestoneTickEndsWatch(p, ts) ==
    /\ TerminalOf(p, ts) = "none"
    /\ TickArrives(p, ts)
    /\ events' = AppendMilestones(events, Fresh(p), p, ts)
    /\ fired' = fired \cup Fresh(p)
    /\ status' \in IF Fresh(p) = {} THEN {status} ELSE Fresh(p)
    /\ reader' = Notified
    /\ UNCHANGED task

\* A tick that raises the milestones it reaches first, possibly none.
MilestoneTick(p, ts) ==
    /\ TerminalOf(p, ts) = "none"
    /\ TickArrives(p, ts)
    /\ events' = AppendMilestones(events, Fresh(p), p, ts)
    /\ fired' = fired \cup Fresh(p)
    /\ reader' = IF Fresh(p) # {} THEN Notified ELSE reader
    /\ UNCHANGED <<status, task>>

\* on_terminal returned, or raised an Exception that _run logs.
HandlerEnds ==
    /\ task = "in_handler" /\ ~cancelling
    /\ task' = "done"
    /\ UNCHANGED <<status, events, fired, lastTick, cancelling, hasHandler,
                   reader, stopper>>
    /\ UNCHANGED readerVars

\* Mutant of FeedFails: the waiters are not notified of the error.
FeedFailsQuietly ==
    /\ task = "iterating" /\ ~cancelling
    /\ task' = "done"
    /\ status' = "error"
    /\ UNCHANGED <<events, fired, lastTick, cancelling, hasHandler, reader, stopper>>
    /\ UNCHANGED readerVars

\* watch_ticker raises (BadSymbol, or anything but a NetworkError).
FeedFails ==
    /\ task = "iterating" /\ ~cancelling
    /\ task' = "done"
    /\ status' = "error"
    /\ reader' = Notified
    /\ UNCHANGED <<events, fired, lastTick, cancelling, hasHandler, stopper>>
    /\ UNCHANGED readerVars

\* Mutants of CancelDelivered: the status is overwritten whatever it is; a
\* handler that is running swallows the cancellation.
CancelOverwrites ==
    /\ cancelling
    /\ cancelling' = FALSE
    /\ task' = "done"
    /\ status' = "cancelled"
    /\ reader' = Notified
    /\ UNCHANGED <<events, fired, lastTick, hasHandler, stopper>>
    /\ UNCHANGED readerVars

CancelSwallowed ==
    /\ cancelling
    /\ cancelling' = FALSE
    /\ task' = IF task = "in_handler" THEN task ELSE "done"
    /\ status' = IF status = "running" THEN "cancelled" ELSE status
    /\ reader' = Notified
    /\ UNCHANGED <<events, fired, lastTick, hasHandler, stopper>>
    /\ UNCHANGED readerVars

\* CancelledError is thrown into the task: at its suspension point inside the
\* try block, or, when it never ran, before the block is entered.
CancelDelivered ==
    /\ cancelling
    /\ cancelling' = FALSE
    /\ task' = "done"
    /\ IF task = "scheduled"
         THEN UNCHANGED <<status, reader>>
         ELSE /\ status' = IF status = "running" THEN "cancelled" ELSE status
              /\ reader' = Notified
    /\ UNCHANGED <<events, fired, lastTick, hasHandler, stopper>>
    /\ UNCHANGED readerVars

----------------------------------------------------------------------------
(* PositionWatcher.stop, and the shutdown of the server *)

\* Mutant of StopCancels: the cancelled task is not awaited.
StopDoesNotWait(s) ==
    /\ stopper[s] # "awaiting" /\ task \notin {"absent", "done"}
    /\ cancelling' = TRUE
    /\ stopper' = [stopper EXCEPT ![s] = "returned"]
    /\ UNCHANGED <<status, events, fired, lastTick, task, hasHandler, reader>>
    /\ UNCHANGED readerVars

\* stop, up to its await of a task that is not done.
StopCancels(s) ==
    /\ stopper[s] # "awaiting" /\ task \notin {"absent", "done"}
    /\ cancelling' = TRUE
    /\ stopper' = [stopper EXCEPT ![s] = "awaiting"]
    /\ UNCHANGED <<status, events, fired, lastTick, task, hasHandler, reader>>
    /\ UNCHANGED readerVars

\* Mutant of StopReturns: the last notify_change is missing.
StopReturnsQuietly(s) ==
    /\ task = "done"
    /\ stopper' = [stopper EXCEPT ![s] = "returned"]
    /\ status' = IF status = "running" THEN "cancelled" ELSE status
    /\ UNCHANGED <<events, fired, lastTick, task, cancelling, hasHandler, reader>>
    /\ UNCHANGED readerVars

\* The rest of stop once the task is done (at once if it was done already).
StopReturns(s) ==
    /\ task = "done"
    /\ stopper' = [stopper EXCEPT ![s] = "returned"]
    /\ status' = IF status = "running" THEN "cancelled" ELSE status
    /\ reader' = Notified
    /\ UNCHANGED <<events, fired, lastTick, task, cancelling, hasHandler>>
    /\ UNCHANGED readerVars

\* bootstrap._shutdown cancels the task without going through stop.
ShutdownCancels ==
    /\ task \notin {"absent", "done"}
    /\ cancelling' = TRUE
    /\ UNCHANGED <<status, events, fired, lastTick, task, hasHandler, reader,
                   stopper>>
    /\ UNCHANGED readerVars

----------------------------------------------------------------------------
(* The clients *)

\* _ready of wait_for_event, with the client's cursor as since_event_index.
Ready(r) == Len(events) > cursor[r] \/ status # "running"

\* Mutant of Respond: next_event_index echoes since_event_index.
RespondEchoesCursor(r) ==
    /\ reader' = [reader EXCEPT ![r] = "idle"]
    /\ delivered' = [delivered EXCEPT
           ![r] = @ \o SubSeq(events, cursor[r] + 1, Len(events))]
    /\ told' = [told EXCEPT ![r] = status]
    /\ UNCHANGED <<watchVars, cursor, stopper>>

\* WatchStateDTO.from_domain: events[since:], the status and the next cursor.
Respond(r) ==
    /\ reader' = [reader EXCEPT ![r] = "idle"]
    /\ delivered' = [delivered EXCEPT
           ![r] = @ \o SubSeq(events, cursor[r] + 1, Len(events))]
    /\ cursor' = [cursor EXCEPT ![r] = Len(events)]
    /\ told' = [told EXCEPT ![r] = status]
    /\ UNCHANGED <<watchVars, stopper>>

\* check_watch, and wait_for_event when _ready holds at once.
CheckWatch(r) ==
    /\ task # "absent" /\ reader[r] = "idle"
    /\ Respond(r)

\* wait_for_event blocks in cond.wait_for(_ready).
WaitBlocks(r) ==
    /\ task # "absent" /\ reader[r] = "idle" /\ ~Ready(r)
    /\ reader' = [reader EXCEPT ![r] = "waiting"]
    /\ UNCHANGED <<watchVars, readerVars, stopper>>

\* A notified waiter gets the lock again and re-evaluates _ready.
WaiterRuns(r) ==
    /\ reader[r] = "woken"
    /\ IF Ready(r)
         THEN Respond(r)
         ELSE /\ reader' = [reader EXCEPT ![r] = "waiting"]
              /\ UNCHANGED <<watchVars, readerVars, stopper>>

\* asyncio.wait_for gives up after timeout_sec: the snapshot is returned anyway.
WaitTimesOut(r) ==
    /\ reader[r] \in {"waiting", "woken"}
    /\ Respond(r)

----------------------------------------------------------------------------
TaskNext ==
    \/ Start \/ TaskBegins \/ HandlerEnds \/ FeedFails \/ CancelDelivered
    \/ \E p \in Prices, ts \in Times : TerminalTick(p, ts) \/ MilestoneTick(p, ts)

StopNext == ShutdownCancels \/ \E s \in Stoppers : StopCancels(s) \/ StopReturns(s)

ReaderNext ==
    \E r \in Readers :
        CheckWatch(r) \/ WaitBlocks(r) \/ WaiterRuns(r) \/ WaitTimesOut(r)

Next == TaskNext \/ StopNext \/ ReaderNext

Spec == Init /\ [][Next]_vars

\* asyncio runs every runnable coroutine: a cancelled task, a stop whose task
\* is done, a notified waiter.  Clients loop on wait_for_event while they are
\* told "running", as the tool's description asks.  Nothing is assumed of the
\* exchange's trades, of the callback, or of the waiters' own timeouts.
Fairness ==
    /\ WF_vars(CancelDelivered)
    /\ \A s \in Stoppers : WF_vars(stopper[s] = "awaiting" /\ StopReturns(s))
    /\ \A r \in Readers :
          /\ WF_vars(WaiterRuns(r))
          /\ WF_vars(told[r] = "running" /\ Ready(r) /\ CheckWatch(r))

FairSpec == Spec /\ Fairness

----------------------------------------------------------------------------
(* Properties *)

\* Every variable has its type.
TypeOK ==
    /\ status \in Status
    /\ events \in Seq(Event)
    /\ fired \subseteq MilestoneType
    /\ lastTick \in Tick \cup {NoTick}
    /\ task \in TaskState
    /\ cancelling \in BOOLEAN /\ hasHandler \in BOOLEAN
    /\ reader \in [Readers -> {"idle", "waiting", "woken"}]
    /\ cursor \in [Readers -> Nat]
    /\ told \in [Readers -> Status]
    /\ delivered \in [Readers -> Seq(Event)]
    /\ stopper \in [Stoppers -> {"idle", "awaiting", "returned"}]

\* A watch raises every event type at most once over its whole life, however
\* long the price oscillates around a level, so the buffer never trims.
OneShotEvents ==
    /\ Len(events) <= 4
    /\ \A i, j \in 1..Len(events) : events[i].type = events[j].type => i = j

\* The watch has a terminal event exactly when its status is that event's
\* type; the event is the last one and carries the last price and time shown.
StatusMatchesEvents ==
    /\ status \in TerminalType =>
          events # <<>> /\ events[Len(events)].type = status
    /\ \A i \in 1..Len(events) :
          events[i].type \in TerminalType =>
              /\ i = Len(events) /\ status = events[i].type
              /\ lastTick = [price |-> events[i].price, ts |-> events[i].ts]

\* No client sleeps in wait_for_event on news that is already there: whatever
\* appends an event or ends the watch also wakes the waiters.
NoLostWakeup == \A r \in Readers : reader[r] = "waiting" => ~Ready(r)

\* A client that passes the previous next_event_index receives every event
\* once and in order: the cursor never skips and never repeats one.
ReadersMissNothing ==
    \A r \in Readers :
        /\ cursor[r] <= Len(events)
        /\ delivered[r] = SubSeq(events, 1, cursor[r])

\* A client told that the watch ended was told the truth and has every event:
\* no later step changes the status or adds an event.
ToldIsFinal ==
    \A r \in Readers :
        told[r] # "running" => told[r] = status /\ delivered[r] = events

\* When stop returns the watch is over: its task has ended and its status is
\* no longer "running".
StoppedForGood ==
    \A s \in Stoppers :
        stopper[s] = "returned" => task = "done" /\ status # "running"

\* The approach to the stop is reported on the losing side of the entry, the
\* approach to the take and breakeven on the winning side, so no price can
\* announce both, whatever the spacing of the levels.
Losing(p) == IF Side = "long" THEN p < Entry ELSE Entry < p
Winning(p) == IF Side = "long" THEN Entry < p ELSE p < Entry

MilestonesOnTheRightSide ==
    \A i \in 1..Len(events) :
        /\ events[i].type \in {"price_approaches_stop", "stop_hit"} =>
               Losing(events[i].price)
        /\ events[i].type \in MilestoneType \ {"price_approaches_stop"} =>
               Winning(events[i].price)

\* The watch keeps the contract that the paper ledger builds on.
Stage ==
    CASE task = "absent" -> "unused"
      [] task \in {"scheduled", "iterating"} -> "watching"
      [] task = "in_handler" -> "handling"
      [] task = "done" -> "done"

Verdict == IF status \in TerminalType THEN "hit" ELSE status

Contract == INSTANCE WatchLifecycle WITH stage <- Stage, verdict <- Verdict

KeepsContract == Contract!WatchSpec

\* Every stop returns: the task it cancels always unwinds.
StopCompletes ==
    \A s \in Stoppers : stopper[s] = "awaiting" ~> stopper[s] = "returned"

\* Once a watch has ended, every client that loops on wait_for_event as it is
\* told to hears of it, without the help of its own timeout.
LoopersLearn ==
    \A r \in Readers : status # "running" ~> told[r] # "running"
=============================================================================
