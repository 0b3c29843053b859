---------------------------- MODULE TokenBucket ----------------------------
(***************************************************************************)
(* The token bucket in front of a venue: calls queue for the asyncio.Lock,   *)
(* the holder refills the bucket by the clock and takes a token, or sleeps,  *)
(* still holding the lock, until the missing part should have arrived.  A    *)
(* call may be cancelled wherever it waits.                                  *)
(*                                                                         *)
(* A token is Unit units, so that fractions of a token are integers; time    *)
(* is counted in ticks that add Rate units.                                  *)
(***************************************************************************)
EXTENDS Integers, Sequences

CONSTANTS
    Calls,    \* calls of acquire, one for every decorated provider call
    Unit, Rate, Capacity,
    MaxNow,   \* bound: the clock stops here unless a call sleeps
    MaxDelay  \* bound: ticks by which the loop is late to run a due timer

\* TokenBucket.__init__ refuses a rate or a capacity that is not positive.
ASSUME BucketAssumption ==
    /\ Unit \in Nat \ {0} /\ Rate \in Nat \ {0} /\ Capacity \in Nat \ {0}
    /\ MaxNow \in Nat /\ MaxDelay \in Nat \ {0}

VARIABLES
    now,       \* time.monotonic()
    tokens,    \* _tokens, in units
    updatedAt, \* _updated_at
    queue,     \* the calls in _lock, its holder first (asyncio.Lock is fair)
    call,      \* call -> "new", "queued", "sleeping", "granted", "cancelled"
    wakeAt,    \* when the holder's sleep is over
    grants     \* when tokens were taken, in order (history)

bucketVars == <<tokens, updatedAt, grants>>
vars == <<now, tokens, updatedAt, queue, call, wakeAt, grants>>

Full == Capacity * Unit

----------------------------------------------------------------------------
\* Mutant of Level: the bucket overflows.
LevelUncapped == tokens + (now - updatedAt) * Rate

\* min(capacity, tokens + delta * rate): the bucket as of now.
Level ==
    LET refilled == tokens + (now - updatedAt) * Rate
    IN  IF refilled <= Full THEN refilled ELSE Full

Init ==
    /\ now = 0 /\ tokens = Full /\ updatedAt = 0 /\ wakeAt = 0
    /\ queue = <<>> /\ grants = <<>>
    /\ call = [c \in Calls |-> "new"]

\* A call enters `async with self._lock`.
Acquire(c) ==
    /\ call[c] = "new"
    /\ call' = [call EXCEPT ![c] = "queued"]
    /\ queue' = Append(queue, c)
    /\ UNCHANGED <<now, bucketVars, wakeAt>>

\* The holder of the lock is at the head of its loop.  A timer may fire a clock
\* resolution early, which is what the loop is for: see the rounding in Sleep.
AtLoop(c) ==
    /\ queue # <<>> /\ Head(queue) = c
    /\ call[c] = "queued" \/ (call[c] = "sleeping" /\ now >= wakeAt)

\* Mutant of Take: any fraction of a token will do.
TakeFraction(c) ==
    /\ AtLoop(c) /\ Level > 0
    /\ tokens' = Level - Unit
    /\ updatedAt' = now
    /\ grants' = Append(grants, now)
    /\ call' = [call EXCEPT ![c] = "granted"]
    /\ queue' = Tail(queue)
    /\ UNCHANGED <<now, wakeAt>>

\* A token is there: take it and release the lock.
Take(c) ==
    /\ AtLoop(c) /\ Level >= Unit
    /\ tokens' = Level - Unit
    /\ updatedAt' = now
    /\ grants' = Append(grants, now)
    /\ call' = [call EXCEPT ![c] = "granted"]
    /\ queue' = Tail(queue)
    /\ UNCHANGED <<now, wakeAt>>

\* Mutant of Sleep: the time of the refill is kept but not the refill.
SleepDropsRefill(c) ==
    /\ AtLoop(c) /\ Level < Unit
    /\ updatedAt' = now
    /\ call' = [call EXCEPT ![c] = "sleeping"]
    /\ wakeAt' = now + (Unit - Level) \div Rate
    /\ UNCHANGED <<now, tokens, queue, grants>>

\* Sleep for what is missing, keeping the lock.
Sleep(c) ==
    /\ AtLoop(c) /\ Level < Unit
    /\ tokens' = Level
    /\ updatedAt' = now
    /\ call' = [call EXCEPT ![c] = "sleeping"]
    /\ wakeAt' = now + (Unit - Level) \div Rate
    /\ UNCHANGED <<now, queue, grants>>

\* Mutant of Cancel: the lock is not released.
CancelKeepsLock(c) ==
    /\ call[c] \in {"queued", "sleeping"}
    /\ call' = [call EXCEPT ![c] = "cancelled"]
    /\ UNCHANGED <<now, bucketVars, queue, wakeAt>>

\* CancelledError in the wait for the lock or in the sleep under it.
Cancel(c) ==
    /\ \E i \in 1..Len(queue) :
          /\ queue[i] = c
          /\ queue' = SubSeq(queue, 1, i - 1) \o SubSeq(queue, i + 1, Len(queue))
    /\ call' = [call EXCEPT ![c] = "cancelled"]
    /\ UNCHANGED <<now, bucketVars, wakeAt>>

\* The bounds: time passes up to MaxNow, and then while a call sleeps.
Tick ==
    /\ \/ now < MaxNow
       \/ /\ queue # <<>> /\ call[Head(queue)] = "sleeping"
          /\ now < wakeAt + MaxDelay
    /\ now' = now + 1
    /\ UNCHANGED <<bucketVars, queue, call, wakeAt>>

Next ==
    \/ Tick
    \/ \E c \in Calls : Acquire(c) \/ Take(c) \/ Sleep(c) \/ Cancel(c)

Spec == Init /\ [][Next]_vars

\* The loop runs the holder of the lock when it can run, and time passes.
Fairness == WF_vars(Tick) /\ \A c \in Calls : WF_vars(Take(c) \/ Sleep(c))

FairSpec == Spec /\ Fairness

----------------------------------------------------------------------------
(* Properties *)

\* Every variable has its type; in particular the bucket is never overdrawn.
TypeOK ==
    /\ now \in Nat /\ updatedAt \in 0..now /\ wakeAt \in Nat
    /\ tokens \in 0..Full
    /\ queue \in Seq(Calls)
    /\ call \in [Calls -> {"new", "queued", "sleeping", "granted", "cancelled"}]
    /\ grants \in Seq(0..now)

\* In every window of time, wherever it begins, no more tokens are taken than a
\* full bucket and what the window adds: however calls queue, sleep, wake early
\* and are cancelled, the venue's limit holds.
RateBound ==
    \A i, j \in 1..Len(grants) :
        i <= j => Unit * (j - i + 1) <= Full + Rate * (grants[j] - grants[i])

\* Refilling on demand loses and invents nothing: at every moment the bucket
\* holds what one filled by a timer would, so a call that is cancelled in its
\* sleep, or wakes too early, has cost no one a token.
Ideal == INSTANCE IdealBucket WITH level <- Level

IsIdeal == Ideal!IdealSpec

\* Every call gets its token unless it is cancelled, also behind calls that
\* are cancelled while they hold the lock.
EveryoneServed ==
    \A c \in Calls : call[c] = "queued" ~> call[c] \in {"granted", "cancelled"}
=============================================================================
