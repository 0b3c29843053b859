------------------------ MODULE PositionWatchProofs ------------------------
(* What holds of a position watch for all levels, trades, clients and stop   *)
(* callers: typing, then the log of events, then what the clients see.       *)
EXTENDS PositionWatch, SequenceTheorems, TLAPS

USE DEF TerminalType, MilestoneType, EventType, Status, TaskState, NoTick

----------------------------------------------------------------------------
(* The event buffer *)

\* Appending an event keeps the buffer a sequence of events.
LEMMA AppendEventType ==
    ASSUME NEW s \in Seq(Event), NEW e \in Event
    PROVE  AppendEvent(s, e) \in Seq(Event)
<1>1. Append(s, e) \in Seq(Event)
  OBVIOUS
<1>2. CASE Len(s) < EventBufferCap
  BY <1>1, <1>2 DEF AppendEvent
<1>3. CASE ~(Len(s) < EventBufferCap)
  <2>1. Len(Append(s, e)) = Len(s) + 1
    OBVIOUS
  <2>2. SubSeq(Append(s, e), Len(s) + 2 - EventBufferCap, Len(s) + 1) \in Seq(Event)
    BY <1>1, <1>3, <2>1, BufferAssumption, SubSeqProperties
  <2> QED
    BY <1>3, <2>2 DEF AppendEvent
<1> QED
  BY <1>2, <1>3

\* Below the capacity nothing is dropped.
LEMMA AppendEventBelowCap ==
    ASSUME NEW s \in Seq(Event), NEW e \in Event, Len(s) < EventBufferCap
    PROVE  AppendEvent(s, e) = Append(s, e)
BY DEF AppendEvent

LEMMA NewEventType ==
    ASSUME NEW t \in EventType, NEW p \in Prices, NEW ts \in Times
    PROVE  NewEvent(t, p, ts) \in Event
BY DEF NewEvent, Event

LEMMA TerminalOfType ==
    ASSUME NEW p \in Prices, NEW ts \in Times, TerminalOf(p, ts) # "none"
    PROVE  TerminalOf(p, ts) \in TerminalType
BY DEF TerminalOf

LEMMA AppendMilestonesType ==
    ASSUME NEW s \in Seq(Event), NEW F \in SUBSET MilestoneType,
           NEW p \in Prices, NEW ts \in Times
    PROVE  AppendMilestones(s, F, p, ts) \in Seq(Event)
<1> DEFINE add(t, q) == AppendIf(t \in F, q, NewEvent(t, p, ts))
<1>1. ASSUME NEW t \in MilestoneType, NEW q \in Seq(Event)
      PROVE  add(t, q) \in Seq(Event)
  BY NewEventType, AppendEventType DEF AppendIf
<1>2. AppendMilestones(s, F, p, ts) =
        add("breakeven_reached",
          add("price_approaches_take", add("price_approaches_stop", s)))
  BY DEF AppendMilestones
<1> HIDE DEF add
<1> QED
  BY <1>1, <1>2

----------------------------------------------------------------------------
(* Typing *)

LEMMA TypeInit == Init => TypeOK
<1> SUFFICES ASSUME Init PROVE TypeOK
  OBVIOUS
<1>1. <<>> \in Seq(Event)
  OBVIOUS
<1>2. delivered \in [Readers -> Seq(Event)]
  BY <1>1 DEF Init
<1>3. events \in Seq(Event)
  BY <1>1 DEF Init
<1> QED
  BY <1>2, <1>3 DEF Init, TypeOK

LEMMA TypeStep == TypeOK /\ [Next]_vars => TypeOK'
<1> SUFFICES ASSUME TypeOK, [Next]_vars PROVE TypeOK'
  OBVIOUS
<1> USE DEF TypeOK
<1>n. Notified \in [Readers -> {"idle", "waiting", "woken"}]
  BY DEF Notified
<1>r. ASSUME NEW r \in Readers, Respond(r) PROVE TypeOK'
  <2>1. Len(events) \in Nat /\ cursor[r] + 1 \in Nat \ {0}
    OBVIOUS
  <2>2. SubSeq(events, cursor[r] + 1, Len(events)) \in Seq(Event)
    BY <2>1, SubSeqProperties
  <2>3. delivered[r] \o SubSeq(events, cursor[r] + 1, Len(events)) \in Seq(Event)
    BY <2>2
  <2> QED
    BY <1>r, <2>1, <2>3 DEF Respond, watchVars
<1>1. CASE TaskNext
  <2>1. CASE Start \/ TaskBegins \/ HandlerEnds
    BY <2>1 DEF Start, TaskBegins, HandlerEnds, readerVars
  <2>2. CASE FeedFails \/ CancelDelivered
    BY <2>2, <1>n DEF FeedFails, CancelDelivered, readerVars
  <2>3. ASSUME NEW p \in Prices, NEW ts \in Times, TerminalTick(p, ts)
        PROVE  TypeOK'
    <3>1. TerminalOf(p, ts) \in TerminalType
      BY <2>3, TerminalOfType DEF TerminalTick
    <3>2. events' \in Seq(Event)
      BY <2>3, <3>1, NewEventType, AppendEventType DEF TerminalTick
    <3> QED
      BY <2>3, <3>1, <3>2, <1>n DEF TerminalTick, TickArrives, readerVars, Tick
  <2>4. ASSUME NEW p \in Prices, NEW ts \in Times, MilestoneTick(p, ts)
        PROVE  TypeOK'
    <3>1. Fresh(p) \in SUBSET MilestoneType
      BY DEF Fresh
    <3>2. events' \in Seq(Event)
      BY <2>4, <3>1, AppendMilestonesType DEF MilestoneTick
    <3> QED
      BY <2>4, <3>1, <3>2, <1>n DEF MilestoneTick, TickArrives, readerVars, Tick
  <2> QED
    BY <1>1, <2>1, <2>2, <2>3, <2>4 DEF TaskNext
<1>2. CASE StopNext
  BY <1>2, <1>n DEF StopNext, ShutdownCancels, StopCancels, StopReturns, readerVars
<1>3. CASE ReaderNext
  <2> PICK r \in Readers :
        CheckWatch(r) \/ WaitBlocks(r) \/ WaiterRuns(r) \/ WaitTimesOut(r)
    BY <1>3 DEF ReaderNext
  <2>1. CASE Respond(r)
    BY <2>1, <1>r
  <2>2. CASE /\ reader' = [reader EXCEPT ![r] = "waiting"]
             /\ UNCHANGED <<watchVars, readerVars, stopper>>
    BY <2>2 DEF watchVars, readerVars
  <2> QED
    BY <2>1, <2>2 DEF CheckWatch, WaitBlocks, WaiterRuns, WaitTimesOut
<1>4. CASE UNCHANGED vars
  BY <1>4 DEF vars
<1> QED
  BY <1>1, <1>2, <1>3, <1>4 DEF Next

\* Every variable keeps its type.
THEOREM TypeCorrect == Spec => []TypeOK
BY TypeInit, TypeStep, PTL DEF Spec

----------------------------------------------------------------------------
(* Control: where the task stands determines what the status can be *)

ControlInv ==
    /\ task \in {"absent", "scheduled", "iterating"} => status = "running"
    /\ task = "in_handler" => status # "running"
    /\ cancelling => task \notin {"absent", "done"}
    /\ \A s \in Stoppers :
          stopper[s] = "returned" => task = "done" /\ status # "running"

\* Reading responses and blocking changes nothing of the watch.
LEMMA ReaderNextFrame ==
    ReaderNext => UNCHANGED watchVars /\ UNCHANGED stopper
BY DEF ReaderNext, CheckWatch, WaitBlocks, WaiterRuns, WaitTimesOut, Respond

\* The status follows the task, and a stop returns only when both are final.
LEMMA ControlStep ==
    ASSUME TypeOK, ControlInv, [Next]_vars
    PROVE  ControlInv'
<1> USE DEF TypeOK, ControlInv
<1>1. CASE TaskNext
  <2>1. CASE Start \/ TaskBegins \/ HandlerEnds \/ FeedFails
    BY <2>1 DEF Start, TaskBegins, HandlerEnds, FeedFails
  <2>2. CASE CancelDelivered
    BY <2>2 DEF CancelDelivered
  <2>3. ASSUME NEW p \in Prices, NEW ts \in Times, TerminalTick(p, ts)
        PROVE  ControlInv'
    BY <2>3, TerminalOfType DEF TerminalTick, TickArrives
  <2>4. ASSUME NEW p \in Prices, NEW ts \in Times, MilestoneTick(p, ts)
        PROVE  ControlInv'
    BY <2>4 DEF MilestoneTick, TickArrives
  <2> QED
    BY <1>1, <2>1, <2>2, <2>3, <2>4 DEF TaskNext
<1>2. CASE StopNext
  BY <1>2 DEF StopNext, ShutdownCancels, StopCancels, StopReturns
<1>3. CASE ReaderNext \/ UNCHANGED vars
  BY <1>3, ReaderNextFrame DEF watchVars, vars
<1> QED
  BY <1>1, <1>2, <1>3 DEF Next

----------------------------------------------------------------------------
(* The log of events *)

One(b) == IF b THEN 1 ELSE 0

\* How many milestones have fired.
Count(F) ==
    One("price_approaches_stop" \in F) + One("price_approaches_take" \in F)
      + One("breakeven_reached" \in F)

OnRightSide(e) ==
    /\ e.type \in {"price_approaches_stop", "stop_hit"} => Losing(e.price)
    /\ e.type \in MilestoneType \ {"price_approaches_stop"} => Winning(e.price)

\* The log of a watch that has raised exactly the milestones F, once each.
GoodLog(s, F) ==
    /\ s \in Seq(Event)
    /\ F \in SUBSET MilestoneType
    /\ Len(s) = Count(F)
    /\ \A i \in 1..Len(s) : s[i].type \in F /\ OnRightSide(s[i])
    /\ \A i, j \in 1..Len(s) : s[i].type = s[j].type => i = j

\* q is s with events added at its end.
Extends(q, s) ==
    /\ Len(s) <= Len(q)
    /\ \A i \in 1..Len(s) : q[i] = s[i]

LEMMA CountBound ==
    ASSUME NEW F PROVE Count(F) \in 0..3
BY DEF Count, One

LEMMA GoodLogRoom ==
    ASSUME NEW s, NEW F, GoodLog(s, F)
    PROVE  Len(s) \in 0..3 /\ Len(s) < EventBufferCap
<1>1. Len(s) \in 0..3
  BY CountBound DEF GoodLog
<1> QED
  BY <1>1, BufferAssumption DEF GoodLog

\* Raising a milestone for the first time keeps the log good.
LEMMA GoodLogAppend ==
    ASSUME NEW s, NEW F, GoodLog(s, F),
           NEW t \in MilestoneType \ F, NEW p \in Prices, NEW ts \in Times,
           OnRightSide(NewEvent(t, p, ts))
    PROVE  /\ GoodLog(AppendEvent(s, NewEvent(t, p, ts)), F \cup {t})
           /\ Extends(AppendEvent(s, NewEvent(t, p, ts)), s)
<1> DEFINE e == NewEvent(t, p, ts)
           q == Append(s, e)
<1>1. Len(s) \in 0..3
  BY CountBound DEF GoodLog
<1>2. e \in Event /\ e.type = t
  BY NewEventType DEF NewEvent
<1>3. AppendEvent(s, e) = q
  BY <1>1, <1>2, BufferAssumption, AppendEventBelowCap DEF GoodLog
<1>4. /\ q \in Seq(Event)
      /\ Len(q) = Len(s) + 1
      /\ \A i \in 1..Len(q) : q[i] = IF i = Len(s) + 1 THEN e ELSE s[i]
  BY <1>2 DEF GoodLog
<1>5. Count(F \cup {t}) = Count(F) + 1
  BY DEF Count, One
<1> HIDE DEF q, e
<1>6. \A i \in 1..Len(q) : q[i].type \in F \cup {t} /\ OnRightSide(q[i])
  BY <1>1, <1>2, <1>4 DEF GoodLog, e
<1>7. \A i, j \in 1..Len(q) : q[i].type = q[j].type => i = j
  BY <1>1, <1>2, <1>4 DEF GoodLog
<1>8. F \cup {t} \in SUBSET MilestoneType
  BY DEF GoodLog
<1>9. GoodLog(q, F \cup {t})
  BY <1>1, <1>4, <1>5, <1>6, <1>7, <1>8 DEF GoodLog
<1>10. Extends(q, s)
  BY <1>1, <1>4 DEF Extends
<1> QED
  BY <1>3, <1>9, <1>10 DEF e

\* The milestones of a tick lie on the right side of the entry.
LEMMA FreshOnRightSide ==
    ASSUME NEW p \in Prices, NEW ts \in Times, NEW t \in Fresh(p)
    PROVE  OnRightSide(NewEvent(t, p, ts))
<1> USE LevelsAssumption DEF Dist, Losing, Winning, NewEvent, OnRightSide
<1>1. CASE t = "price_approaches_stop"
  BY <1>1 DEF Fresh, IsNearStop
<1>2. CASE t = "price_approaches_take"
  BY <1>2 DEF Fresh, IsNearTake
<1>3. CASE t = "breakeven_reached"
  BY <1>3 DEF Fresh, IsBreakeven
<1> QED
  BY <1>1, <1>2, <1>3 DEF Fresh

\* So does a stop hit.
LEMMA TerminalOnRightSide ==
    ASSUME NEW p \in Prices, NEW ts \in Times, TerminalOf(p, ts) # "none"
    PROVE  OnRightSide(NewEvent(TerminalOf(p, ts), p, ts))
BY LevelsAssumption, TerminalOfType
   DEF TerminalOf, IsStopHit, Losing, Winning, NewEvent, OnRightSide

EventInv ==
    /\ status \notin TerminalType => GoodLog(events, fired)
    /\ OneShotEvents
    /\ StatusMatchesEvents
    /\ MilestonesOnTheRightSide

\* A good log satisfies what is promised of a watch that has not ended.
LEMMA GoodLogSuffices ==
    ASSUME GoodLog(events, fired), status \notin TerminalType
    PROVE  EventInv
BY CountBound
   DEF EventInv, GoodLog, OneShotEvents, StatusMatchesEvents,
       MilestonesOnTheRightSide, OnRightSide

LEMMA TerminalTickLog ==
    ASSUME TypeOK, ControlInv, EventInv,
           NEW p \in Prices, NEW ts \in Times, TerminalTick(p, ts)
    PROVE  EventInv'
<1> DEFINE t == TerminalOf(p, ts)
           e == NewEvent(t, p, ts)
<1>1. status = "running" /\ GoodLog(events, fired)
  BY DEF TerminalTick, TickArrives, ControlInv, EventInv
<1>2. t \in TerminalType /\ e \in Event /\ OnRightSide(e)
  BY TerminalOfType, NewEventType, TerminalOnRightSide DEF TerminalTick
<1>3. /\ e.type = t /\ e.price = p /\ e.ts = ts
      /\ status' = t
      /\ lastTick' = [price |-> p, ts |-> ts]
  BY DEF NewEvent, TerminalTick, TickArrives
<1>4. Len(events) \in 0..3
  BY <1>1, GoodLogRoom
<1>5. events' = Append(events, e)
  <2>1. events' = AppendEvent(events, e)
    BY DEF TerminalTick
  <2>2. Len(events) < EventBufferCap
    BY <1>1, GoodLogRoom
  <2> HIDE DEF e
  <2> QED
    BY <1>2, <2>1, <2>2 DEF AppendEvent
<1>6. /\ events' \in Seq(Event)
      /\ Len(events') = Len(events) + 1
      /\ \A i \in 1..Len(events') :
            events'[i] = IF i = Len(events) + 1 THEN e ELSE events[i]
  BY <1>2, <1>5 DEF TypeOK
<1> HIDE DEF e, t
<1>7. \A i \in 1..Len(events) : events[i].type \in MilestoneType
  BY <1>1 DEF GoodLog
<1>8. OneShotEvents'
  BY <1>1, <1>2, <1>3, <1>4, <1>6, <1>7 DEF OneShotEvents, GoodLog
<1>9. StatusMatchesEvents'
  BY <1>2, <1>3, <1>4, <1>6, <1>7 DEF StatusMatchesEvents
<1>10. MilestonesOnTheRightSide'
  BY <1>1, <1>2, <1>4, <1>6
     DEF MilestonesOnTheRightSide, GoodLog, OnRightSide, Losing, Winning
<1> QED
  BY <1>2, <1>3, <1>8, <1>9, <1>10 DEF EventInv

\* The three conditional appends of a tick, one after the other.
LEMMA AppendMilestonesGood ==
    ASSUME NEW p \in Prices, NEW ts \in Times, GoodLog(events, fired)
    PROVE  /\ GoodLog(AppendMilestones(events, Fresh(p), p, ts), fired \cup Fresh(p))
           /\ Extends(AppendMilestones(events, Fresh(p), p, ts), events)
<1> DEFINE add(t, q) == AppendIf(t \in Fresh(p), q, NewEvent(t, p, ts))
           plus(t, F) == IF t \in Fresh(p) THEN F \cup {t} ELSE F
           s1 == add("price_approaches_stop", events)
           s2 == add("price_approaches_take", s1)
           s3 == add("breakeven_reached", s2)
           F1 == plus("price_approaches_stop", fired)
           F2 == plus("price_approaches_take", F1)
           F3 == plus("breakeven_reached", F2)
<1>1. ASSUME NEW t \in MilestoneType, NEW q, NEW F, GoodLog(q, F),
             t \in Fresh(p) => t \notin F
      PROVE  GoodLog(add(t, q), plus(t, F)) /\ Extends(add(t, q), q)
  <2>1. CASE t \in Fresh(p)
    BY <1>1, <2>1, FreshOnRightSide, GoodLogAppend DEF AppendIf
  <2>2. CASE t \notin Fresh(p)
    BY <1>1, <2>2 DEF AppendIf, Extends, GoodLog
  <2> QED
    BY <2>1, <2>2
<1>2. \A t \in Fresh(p) : t \in MilestoneType /\ t \notin fired
  BY DEF Fresh
<1>3. /\ "price_approaches_take" \in Fresh(p) => "price_approaches_take" \notin F1
      /\ "breakeven_reached" \in Fresh(p) => "breakeven_reached" \notin F2
  BY <1>2
<1>4. AppendMilestones(events, Fresh(p), p, ts) = s3
  BY DEF AppendMilestones
<1>5. F3 = fired \cup Fresh(p)
  BY <1>2
<1> HIDE DEF add, plus
<1>6. GoodLog(s1, F1) /\ Extends(s1, events)
  BY <1>1, <1>2
<1>7. GoodLog(s2, F2) /\ Extends(s2, s1)
  BY <1>1, <1>3, <1>6
<1>8. GoodLog(s3, F3) /\ Extends(s3, s2)
  BY <1>1, <1>3, <1>7
<1>9. Extends(s3, events)
  <2> HIDE DEF s1, s2, s3
  <2> QED
    BY <1>6, <1>7, <1>8 DEF Extends, GoodLog
<1> QED
  BY <1>4, <1>5, <1>8, <1>9

LEMMA MilestoneTickLog ==
    ASSUME ControlInv, EventInv,
           NEW p \in Prices, NEW ts \in Times, MilestoneTick(p, ts)
    PROVE  EventInv'
<1>1. status = "running" /\ GoodLog(events, fired)
  BY DEF MilestoneTick, TickArrives, ControlInv, EventInv
<1>2. GoodLog(events', fired')
  BY <1>1, AppendMilestonesGood DEF MilestoneTick
<1>3. status' \notin TerminalType
  BY <1>1 DEF MilestoneTick
<1>4. GoodLog(events, fired)'
  BY <1>2 DEF GoodLog, OnRightSide, Losing, Winning, Event, Count, One
<1> QED
  BY <1>3, <1>4, CountBound
     DEF EventInv, GoodLog, OneShotEvents, StatusMatchesEvents,
         MilestonesOnTheRightSide, OnRightSide, Losing, Winning

\* A step that leaves the log alone and at most ends a running watch without
\* a terminal event keeps what is promised of the log.
LEMMA QuietStepLog ==
    ASSUME EventInv, UNCHANGED <<events, fired, lastTick>>,
           status' = status \/ (status = "running" /\ status' \notin TerminalType)
    PROVE  EventInv'
<1> USE DEF Losing, Winning, OnRightSide, Event, Count, One
<1>1. status' \notin TerminalType => GoodLog(events, fired)'
  BY DEF EventInv, GoodLog
<1>2. OneShotEvents'
  BY DEF EventInv, OneShotEvents
<1>3. StatusMatchesEvents'
  BY DEF EventInv, StatusMatchesEvents, GoodLog
<1>4. MilestonesOnTheRightSide'
  BY DEF EventInv, MilestonesOnTheRightSide
<1> QED
  BY <1>1, <1>2, <1>3, <1>4 DEF EventInv

\* The log keeps its promises at every step.
LEMMA EventStep ==
    ASSUME TypeOK, ControlInv, EventInv, [Next]_vars
    PROVE  EventInv'
<1>1. CASE TaskNext
  <2>1. CASE Start \/ TaskBegins \/ HandlerEnds \/ FeedFails \/ CancelDelivered
    <3>1. /\ UNCHANGED <<events, fired, lastTick>>
          /\ status' = status \/ (status = "running" /\ status' \notin TerminalType)
      BY <2>1
         DEF Start, TaskBegins, HandlerEnds, FeedFails, CancelDelivered, ControlInv
    <3> QED
      BY <3>1, QuietStepLog
  <2> QED
    BY <1>1, <2>1, TerminalTickLog, MilestoneTickLog DEF TaskNext
<1>2. CASE StopNext \/ ReaderNext \/ UNCHANGED vars
  <2>1. /\ UNCHANGED <<events, fired, lastTick>>
        /\ status' = status \/ (status = "running" /\ status' \notin TerminalType)
    BY <1>2, ReaderNextFrame
       DEF StopNext, ShutdownCancels, StopCancels, StopReturns, watchVars, vars
  <2> QED
    BY <2>1, QuietStepLog
<1> QED
  BY <1>1, <1>2 DEF Next

----------------------------------------------------------------------------
(* What the clients see *)

ReaderInv == NoLostWakeup /\ ReadersMissNothing /\ ToldIsFinal

\* A client that had the first n events and is sent the rest has them all.
LEMMA SplitLog ==
    ASSUME NEW s \in Seq(Event), NEW n \in 0..Len(s)
    PROVE  SubSeq(s, 1, n) \o SubSeq(s, n + 1, Len(s)) = s
<1> DEFINE a == SubSeq(s, 1, n)
           b == SubSeq(s, n + 1, Len(s))
<1>1. a \in Seq(Event) /\ Len(a) = n /\ \A i \in 1..n : a[i] = s[i]
  BY SubSeqProperties
<1>2. /\ b \in Seq(Event) /\ Len(b) = Len(s) - n
      /\ \A i \in 1..(Len(s) - n) : b[i] = s[n + i]
  BY SubSeqProperties
<1> HIDE DEF a, b
<1>3. /\ a \o b \in Seq(Event)
      /\ Len(a \o b) = Len(s)
      /\ \A i \in 1..Len(s) : (a \o b)[i] = s[i]
  <2>1. Len(s) \in Nat /\ n \in Nat /\ n <= Len(s)
    OBVIOUS
  <2>2. /\ a \o b \in Seq(Event)
        /\ Len(a \o b) = Len(a) + Len(b)
        /\ \A i \in 1..(Len(a) + Len(b)) :
              (a \o b)[i] = IF i <= Len(a) THEN a[i] ELSE b[i - Len(a)]
    BY <1>1, <1>2, ConcatProperties
  <2>3. Len(a) + Len(b) = Len(s)
    BY <1>1, <1>2, <2>1
  <2>4. ASSUME NEW i \in 1..Len(s) PROVE (a \o b)[i] = s[i]
    <3>1. CASE i <= n
      BY <1>1, <2>1, <2>2, <2>3, <3>1
    <3>2. CASE ~(i <= n)
      <4>1. (a \o b)[i] = b[i - n] /\ i - n \in 1..(Len(s) - n)
        BY <1>1, <2>1, <2>2, <2>3, <3>2
      <4>2. b[i - n] = s[n + (i - n)]
        BY <1>2, <4>1
      <4> QED
        BY <2>1, <4>1, <4>2
    <3> QED
      BY <3>1, <3>2
  <2> QED
    BY <2>2, <2>3, <2>4
<1>4. a \o b = s
  BY <1>3, SeqEqual
<1> QED
  BY <1>4 DEF a, b

\* Adding events does not change the ones a client has already had.
LEMMA ExtendsPrefix ==
    ASSUME NEW s \in Seq(Event), NEW q \in Seq(Event), Extends(q, s),
           NEW n \in 0..Len(s)
    PROVE  SubSeq(q, 1, n) = SubSeq(s, 1, n)
<1>1. \A i \in 1..n : q[i] = s[i] /\ s[i] \in Event /\ q[i] \in Event
  BY DEF Extends
<1>2. /\ SubSeq(s, 1, n) \in Seq(Event) /\ SubSeq(q, 1, n) \in Seq(Event)
      /\ Len(SubSeq(s, 1, n)) = n /\ Len(SubSeq(q, 1, n)) = n
      /\ \A i \in 1..n : SubSeq(s, 1, n)[i] = s[i] /\ SubSeq(q, 1, n)[i] = q[i]
  BY <1>1, SubSeqProperties
<1> QED
  BY <1>1, <1>2, SeqEqual

LEMMA ExtendsReflexive ==
    ASSUME NEW s \in Seq(Event) PROVE Extends(s, s)
BY DEF Extends

\* A step of the task or of stop adds events at the end, never to a watch that
\* has ended, and wakes the waiters whenever it makes them ready.
WatchStep ==
    /\ events' \in Seq(Event)
    /\ Extends(events', events)
    /\ status # "running" => UNCHANGED <<status, events>>
    /\ reader' = Notified \/ (reader' = reader /\ UNCHANGED <<status, events>>)
    /\ UNCHANGED readerVars

LEMMA TaskAndStopAreWatchSteps ==
    ASSUME TypeOK, ControlInv, EventInv, TaskNext \/ StopNext
    PROVE  WatchStep
<1> USE DEF TypeOK, ControlInv
<1>1. ASSUME NEW p \in Prices, NEW ts \in Times, TerminalTick(p, ts)
      PROVE  WatchStep
  <2>1. status = "running" /\ GoodLog(events, fired)
    BY <1>1 DEF TerminalTick, TickArrives, EventInv
  <2>2. NewEvent(TerminalOf(p, ts), p, ts) \in Event
    BY <1>1, TerminalOfType, NewEventType DEF TerminalTick
  <2>3. Len(events) < EventBufferCap
    BY <2>1, GoodLogRoom
  <2>4. events' = Append(events, NewEvent(TerminalOf(p, ts), p, ts))
    BY <1>1, <2>3 DEF TerminalTick, AppendEvent
  <2>5. events' \in Seq(Event) /\ Extends(events', events)
    BY <2>2, <2>4 DEF Extends
  <2> QED
    BY <1>1, <2>1, <2>5 DEF WatchStep, TerminalTick, TickArrives
<1>2. ASSUME NEW p \in Prices, NEW ts \in Times, MilestoneTick(p, ts)
      PROVE  WatchStep
  <2>1. status = "running" /\ GoodLog(events, fired)
    BY <1>2 DEF MilestoneTick, TickArrives, EventInv
  <2>2. events' \in Seq(Event) /\ Extends(events', events)
    BY <1>2, <2>1, AppendMilestonesGood DEF MilestoneTick, GoodLog
  <2>3. Fresh(p) = {} => events' = events
    BY <1>2 DEF MilestoneTick, AppendMilestones, AppendIf
  <2> QED
    BY <1>2, <2>1, <2>2, <2>3 DEF WatchStep, MilestoneTick, TickArrives
<1>3. CASE Start \/ TaskBegins \/ HandlerEnds \/ FeedFails \/ CancelDelivered
  BY <1>3, ExtendsReflexive
     DEF WatchStep, Start, TaskBegins, HandlerEnds, FeedFails, CancelDelivered
<1>4. CASE StopNext
  BY <1>4, ExtendsReflexive
     DEF WatchStep, StopNext, ShutdownCancels, StopCancels, StopReturns
<1> QED
  BY <1>1, <1>2, <1>3, <1>4 DEF TaskNext

LEMMA WatchStepKeepsReaders ==
    ASSUME TypeOK, ReaderInv, WatchStep
    PROVE  ReaderInv'
<1> USE DEF TypeOK
<1> SUFFICES ASSUME NEW r \in Readers
             PROVE  /\ reader'[r] = "waiting" => ~Ready(r)'
                    /\ cursor'[r] <= Len(events')
                    /\ delivered'[r] = SubSeq(events', 1, cursor'[r])
                    /\ told'[r] # "running" =>
                          told'[r] = status' /\ delivered'[r] = events'
  BY DEF ReaderInv, NoLostWakeup, ReadersMissNothing, ToldIsFinal
<1>0. /\ reader[r] = "waiting" => ~Ready(r)
      /\ cursor[r] <= Len(events)
      /\ delivered[r] = SubSeq(events, 1, cursor[r])
      /\ told[r] # "running" => told[r] = status /\ delivered[r] = events
  BY DEF ReaderInv, NoLostWakeup, ReadersMissNothing, ToldIsFinal
<1>1. /\ cursor'[r] = cursor[r] /\ delivered'[r] = delivered[r]
      /\ told'[r] = told[r]
  BY DEF WatchStep, readerVars
<1>2. reader'[r] = "waiting" => ~Ready(r)'
  <2>1. CASE reader' = Notified
    BY <2>1 DEF Notified
  <2>2. CASE reader' = reader /\ UNCHANGED <<status, events>>
    BY <1>0, <1>1, <2>2 DEF Ready
  <2> QED
    BY <2>1, <2>2 DEF WatchStep
<1>3. cursor'[r] <= Len(events')
  BY <1>0, <1>1 DEF WatchStep, Extends
<1>4. delivered'[r] = SubSeq(events', 1, cursor'[r])
  BY <1>0, <1>1, ExtendsPrefix DEF WatchStep
<1>5. told'[r] # "running" => told'[r] = status' /\ delivered'[r] = events'
  BY <1>0, <1>1 DEF WatchStep
<1> QED
  BY <1>2, <1>3, <1>4, <1>5

\* A response brings the client up to date with the log and the status.
LEMMA RespondKeepsReaders ==
    ASSUME TypeOK, ReaderInv, NEW c \in Readers, Respond(c)
    PROVE  ReaderInv'
<1> USE DEF TypeOK
<1>0. \A r \in Readers :
        /\ reader[r] = "waiting" => ~Ready(r)
        /\ cursor[r] <= Len(events)
        /\ delivered[r] = SubSeq(events, 1, cursor[r])
        /\ told[r] # "running" => told[r] = status /\ delivered[r] = events
  BY DEF ReaderInv, NoLostWakeup, ReadersMissNothing, ToldIsFinal
<1>1. UNCHANGED <<events, status>> /\ Len(events) \in Nat
  BY DEF Respond, watchVars
<1>2. /\ delivered'[c] = events /\ cursor'[c] = Len(events)
      /\ told'[c] = status /\ reader'[c] = "idle"
  <2>1. cursor[c] \in 0..Len(events)
    BY <1>0, <1>1
  <2>2. SubSeq(events, 1, cursor[c]) \o SubSeq(events, cursor[c] + 1, Len(events))
          = events
    BY <2>1, SplitLog
  <2>3. delivered[c] = SubSeq(events, 1, cursor[c])
    BY <1>0
  <2>4. delivered'[c] = delivered[c] \o SubSeq(events, cursor[c] + 1, Len(events))
    BY DEF Respond
  <2>5. cursor'[c] = Len(events) /\ told'[c] = status /\ reader'[c] = "idle"
    BY DEF Respond
  <2> QED
    BY <2>2, <2>3, <2>4, <2>5
<1>3. SubSeq(events, 1, Len(events)) = events
  BY SubSeqFull
<1>4. \A r \in Readers \ {c} :
        /\ delivered'[r] = delivered[r] /\ cursor'[r] = cursor[r]
        /\ told'[r] = told[r] /\ reader'[r] = reader[r]
  BY DEF Respond
<1>5. NoLostWakeup'
  BY <1>0, <1>1, <1>2, <1>4 DEF NoLostWakeup, Ready
<1>6. ReadersMissNothing'
  <2>1. ASSUME NEW r \in Readers, r # c
        PROVE  cursor'[r] <= Len(events') /\ delivered'[r] = SubSeq(events', 1, cursor'[r])
    BY <1>0, <1>1, <1>4, <2>1
  <2>2. cursor'[c] <= Len(events') /\ delivered'[c] = SubSeq(events', 1, cursor'[c])
    BY <1>1, <1>2, <1>3
  <2> QED
    BY <2>1, <2>2 DEF ReadersMissNothing
<1>7. ToldIsFinal'
  BY <1>0, <1>1, <1>2, <1>4 DEF ToldIsFinal
<1> QED
  BY <1>5, <1>6, <1>7 DEF ReaderInv

LEMMA ReaderStep ==
    ASSUME TypeOK, ControlInv, EventInv, ReaderInv, [Next]_vars
    PROVE  ReaderInv'
<1>1. CASE TaskNext \/ StopNext
  BY <1>1, TaskAndStopAreWatchSteps, WatchStepKeepsReaders
<1>2. CASE ReaderNext
  <2> PICK r \in Readers :
        CheckWatch(r) \/ WaitBlocks(r) \/ WaiterRuns(r) \/ WaitTimesOut(r)
    BY <1>2 DEF ReaderNext
  <2>1. CASE Respond(r)
    BY <2>1, RespondKeepsReaders
  <2>2. CASE /\ ~Ready(r)
             /\ reader' = [reader EXCEPT ![r] = "waiting"]
             /\ UNCHANGED <<watchVars, readerVars, stopper>>
    BY <2>2
       DEF TypeOK, ReaderInv, NoLostWakeup, ReadersMissNothing, ToldIsFinal,
           Ready, watchVars, readerVars
  <2> QED
    BY <2>1, <2>2 DEF CheckWatch, WaitBlocks, WaiterRuns, WaitTimesOut
<1>3. CASE UNCHANGED vars
  BY <1>3
     DEF ReaderInv, NoLostWakeup, ReadersMissNothing, ToldIsFinal, Ready, vars
<1> QED
  BY <1>1, <1>2, <1>3 DEF Next

----------------------------------------------------------------------------
(* The theorems *)

\* The inductive invariant: none of its parts is inductive without the ones
\* before it.
IInv == TypeOK /\ ControlInv /\ EventInv /\ ReaderInv

LEMMA InitIInv == Init => IInv
<1> SUFFICES ASSUME Init PROVE IInv
  OBVIOUS
<1>1. TypeOK
  BY TypeInit
<1>2. ControlInv
  BY DEF Init, ControlInv
<1>3. GoodLog(events, fired)
  BY DEF Init, GoodLog, Count, One
<1>4. EventInv
  BY <1>3, GoodLogSuffices DEF Init
<1>5. ReaderInv
  <2>1. \A r \in Readers : delivered[r] = <<>> /\ cursor[r] = 0
    BY DEF Init
  <2>2. SubSeq(events, 1, 0) = <<>> /\ Len(events) = 0
    BY SubSeqEmpty DEF Init
  <2> QED
    BY <2>1, <2>2 DEF Init, ReaderInv, NoLostWakeup, ReadersMissNothing, ToldIsFinal
<1> QED
  BY <1>1, <1>2, <1>4, <1>5 DEF IInv

LEMMA Inductive == Spec => []IInv
<1>1. IInv /\ [Next]_vars => IInv'
  BY TypeStep, ControlStep, EventStep, ReaderStep DEF IInv
<1> QED
  BY InitIInv, <1>1, PTL DEF Spec

\* A watch raises every event at most once, and its buffer never overflows.
THEOREM EventsAreOneShot == Spec => []OneShotEvents
<1>1. IInv => OneShotEvents
  BY DEF IInv, EventInv
<1> QED
  BY <1>1, Inductive, PTL

\* The status and the log of a watch always tell the same end.
THEOREM StatusAgreesWithLog == Spec => []StatusMatchesEvents
<1>1. IInv => StatusMatchesEvents
  BY DEF IInv, EventInv
<1> QED
  BY <1>1, Inductive, PTL

\* For all levels of a long or a short position, losses are announced below
\* the entry and gains above it.
THEOREM MilestonesAreOnTheRightSide == Spec => []MilestonesOnTheRightSide
<1>1. IInv => MilestonesOnTheRightSide
  BY DEF IInv, EventInv
<1> QED
  BY <1>1, Inductive, PTL

\* No client sleeps on news.
THEOREM WakeupsAreNotLost == Spec => []NoLostWakeup
<1>1. IInv => NoLostWakeup
  BY DEF IInv, ReaderInv
<1> QED
  BY <1>1, Inductive, PTL

\* Cursors deliver every event once and in order, to any number of clients.
THEOREM CursorsAreExact == Spec => []ReadersMissNothing
<1>1. IInv => ReadersMissNothing
  BY DEF IInv, ReaderInv
<1> QED
  BY <1>1, Inductive, PTL

\* A client told that the watch ended has its final status and all its events.
THEOREM EndIsFinal == Spec => []ToldIsFinal
<1>1. IInv => ToldIsFinal
  BY DEF IInv, ReaderInv
<1> QED
  BY <1>1, Inductive, PTL

\* Whatever stop interrupts, the watch it returns is over.
THEOREM StopIsFinal == Spec => []StoppedForGood
<1>1. IInv => StoppedForGood
  BY DEF IInv, ControlInv, StoppedForGood
<1> QED
  BY <1>1, Inductive, PTL

----------------------------------------------------------------------------
(* The watch implements its contract *)

\* Ticks, the handler, a broken feed and a cancellation are contract steps.
LEMMA TaskKeepsContract ==
    ASSUME TypeOK, ControlInv, TaskNext
    PROVE  [Contract!WatchNext]_Contract!stageVars
<1> USE DEF TypeOK, ControlInv, Stage, Verdict, TerminalType
<1>1. CASE Start
  <2>1. Contract!Begin
    BY <1>1 DEF Start, Contract!Begin
  <2> QED
    BY <2>1 DEF Contract!WatchNext
<1>2. CASE TaskBegins
  BY <1>2 DEF TaskBegins, Contract!stageVars
<1>3. CASE HandlerEnds
  <2>1. Contract!HandlerOver
    BY <1>3 DEF HandlerEnds, Contract!HandlerOver
  <2> QED
    BY <2>1 DEF Contract!WatchNext
<1>4. CASE FeedFails
  <2>1. Contract!Break
    BY <1>4 DEF FeedFails, Contract!Break
  <2> QED
    BY <2>1 DEF Contract!WatchNext
<1>5. CASE CancelDelivered
  <2>1. Contract!Unwind
    BY <1>5 DEF CancelDelivered, Contract!Unwind
  <2> QED
    BY <2>1 DEF Contract!WatchNext
<1>6. ASSUME NEW p \in Prices, NEW ts \in Times, TerminalTick(p, ts)
      PROVE  Contract!WatchNext
  <2>1. status = "running" /\ status' \in TerminalType
    BY <1>6, TerminalOfType DEF TerminalTick, TickArrives
  <2>2. Contract!Hit
    BY <1>6, <2>1 DEF TerminalTick, TickArrives, Contract!Hit
  <2> QED
    BY <2>2 DEF Contract!WatchNext
<1>7. ASSUME NEW p \in Prices, NEW ts \in Times, MilestoneTick(p, ts)
      PROVE  UNCHANGED Contract!stageVars
  BY <1>7 DEF MilestoneTick, Contract!stageVars
<1> QED
  BY <1>1, <1>2, <1>3, <1>4, <1>5, <1>6, <1>7 DEF TaskNext

\* stop decides nothing but the verdict of a watch that never ran.
LEMMA StopKeepsContract ==
    ASSUME TypeOK, ControlInv, StopNext
    PROVE  [Contract!WatchNext]_Contract!stageVars
<1> USE DEF TypeOK, ControlInv, Stage, Verdict, TerminalType
<1>1. CASE ShutdownCancels
  BY <1>1 DEF ShutdownCancels, Contract!stageVars
<1>2. ASSUME NEW s \in Stoppers, StopCancels(s) PROVE UNCHANGED Contract!stageVars
  BY <1>2 DEF StopCancels, Contract!stageVars
<1>3. ASSUME NEW s \in Stoppers, StopReturns(s)
      PROVE  [Contract!WatchNext]_Contract!stageVars
  <2>1. CASE status = "running"
    <3>1. Contract!Settle
      BY <1>3, <2>1 DEF StopReturns, Contract!Settle
    <3> QED
      BY <3>1 DEF Contract!WatchNext
  <2>2. CASE status # "running"
    BY <1>3, <2>2 DEF StopReturns, Contract!stageVars
  <2> QED
    BY <2>1, <2>2
<1> QED
  BY <1>1, <1>2, <1>3 DEF StopNext

\* The watch implements the contract that the paper ledger builds on: it is hit
\* at most once, its handler runs only after a hit, and its verdict is final.
THEOREM WatchKeepsContract == Spec => KeepsContract
<1>1. Init => Contract!WatchInit
  BY DEF Init, Contract!WatchInit, Stage, Verdict, TerminalType
<1>2. IInv /\ [Next]_vars => [Contract!WatchNext]_Contract!stageVars
  <2>1. ReaderNext \/ UNCHANGED vars => UNCHANGED Contract!stageVars
    BY ReaderNextFrame DEF watchVars, vars, Contract!stageVars, Stage, Verdict
  <2> QED
    BY <2>1, TaskKeepsContract, StopKeepsContract DEF IInv, Next
<1> QED
  BY <1>1, <1>2, Inductive, PTL DEF Spec, KeepsContract, Contract!WatchSpec
=============================================================================
