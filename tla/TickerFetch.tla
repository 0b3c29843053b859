---------------------------- MODULE TickerFetch ----------------------------
(***************************************************************************)
(* get_ticker for one symbol of one venue: the chain of handlers, the L0     *)
(* cache of the provider stack, retries, the write-through to tickers_live,  *)
(* and the Realtime broadcasts by which every change of that row drops the   *)
(* cached tickers.                                                         *)
(*                                                                         *)
(* A ticker is the time at which the venue sampled it.  A step is what a     *)
(* request does between two awaits; the token bucket is a wait here (see     *)
(* TokenBucket) and the venue state a gate that somebody opens and shuts.    *)
(***************************************************************************)
EXTENDS Integers

CONSTANTS
    Requests,
    Ttl,         \* ticker_ttl
    MaxAttempts, \* max_attempts of RetryDecorator
    PruneAge,    \* age beyond which cron deletes a row
    Channels,    \* Realtime channels CacheInvalidator has open, one per venue
    MaxNow,      \* bound: the last tick of the clock
    MaxFailures, \* bound: calls the venue fails
    MaxLosses,   \* bound: lost broadcasts, failed writes, aborted requests
    MaxGates     \* bound: times the gate is opened or shut

ASSUME FetchAssumption ==
    /\ Ttl \in Nat \ {0} /\ MaxAttempts \in Nat \ {0} /\ PruneAge \in Nat
    /\ Channels \in Nat \ {0}
    /\ MaxNow \in Nat /\ MaxFailures \in Nat /\ MaxLosses \in Nat /\ MaxGates \in Nat

VARIABLES
    now,      \* time.time()
    cache,    \* the L0 entry: [sample, expires]; one that expired is as good as none
    row,      \* the row of tickers_live, NoRow if there is none
    pending,  \* broadcasts of row changes on their way, over all channels
    req,      \* request -> [pc, forced, looked, got, source, attempt]
    gated,    \* VenueState.require_operational raises
    failures, losses, gates

bounds == <<failures, losses, gates>>
vars == <<now, cache, row, pending, req, gated, failures, losses, gates>>

NoRow == -1
NoEntry == [sample |-> 0, expires |-> 0]

\* A request: where it is, whether refresh is forced, when it looked into L0,
\* the ticker it has, where that came from, and the attempts that failed.
Req(pc, forced, looked, got, source, attempt) ==
    [pc |-> pc, forced |-> forced, looked |-> looked, got |-> got,
     source |-> source, attempt |-> attempt]

\* Request c goes on to pc, all else about it as it was.
At(c, pc) ==
    Req(pc, req[c].forced, req[c].looked, req[c].got, req[c].source, req[c].attempt)

Become(c, r) == req' = [req EXCEPT ![c] = r]

Waiting == {"loading", "acquiring", "calling", "answered", "backoff", "writing"}

Fresh == cache.expires > now

Failure == failures < MaxFailures /\ failures' = failures + 1 /\ UNCHANGED <<losses, gates>>
Loss == losses < MaxLosses /\ losses' = losses + 1 /\ UNCHANGED <<failures, gates>>

----------------------------------------------------------------------------
(* The chain of handlers, up to the provider *)

\* _cached: an entry that has not expired is the answer, and goes through the
\* write-through like one of the venue; else a token is needed.
LookIntoL0(c, forced) ==
    Become(c, IF Fresh THEN Req("writing", forced, now, cache.sample, "l0", 0)
                       ELSE Req("acquiring", forced, now, 0, "none", 0))

\* Mutant of Begin: the bypass is not looked at.
BeginIgnoresForce(c, forced) ==
    /\ req[c].pc = "idle"
    /\ Become(c, IF gated THEN Req("failed", forced, 0, 0, "none", 0)
                 ELSE Req("loading", forced, 0, 0, "none", 0))
    /\ UNCHANGED <<now, cache, row, pending, gated, bounds>>

\* VenueHealthHandler, SymbolExistsHandler (for a known symbol) and
\* StalenessBypassHandler, up to the first await.
Begin(c, forced) ==
    /\ req[c].pc = "idle"
    /\ IF gated THEN Become(c, Req("failed", forced, 0, 0, "none", 0))
       ELSE IF forced THEN LookIntoL0(c, forced)
       ELSE Become(c, Req("loading", forced, 0, 0, "none", 0))
    /\ UNCHANGED <<now, cache, row, pending, gated, bounds>>

\* SupabaseCacheHandler: the row, of whatever age, is the answer.
LoadHits(c) ==
    /\ req[c].pc = "loading" /\ row # NoRow
    /\ Become(c, Req("done", req[c].forced, 0, row, "db", 0))
    /\ UNCHANGED <<now, cache, row, pending, gated, bounds>>

LoadMisses(c) ==
    /\ req[c].pc = "loading" /\ row = NoRow
    /\ LookIntoL0(c, req[c].forced)
    /\ UNCHANGED <<now, cache, row, pending, gated, bounds>>

\* A database error counts as a miss.
LoadFails(c) ==
    /\ req[c].pc = "loading"
    /\ Loss
    /\ LookIntoL0(c, req[c].forced)
    /\ UNCHANGED <<now, cache, row, pending, gated>>

----------------------------------------------------------------------------
(* The provider stack: rate limit, retries, the call and the cache *)

\* Mutant of FailAttempt: attempts are not counted.
FailAttemptUncounted(c) ==
    Become(c, Req("backoff", req[c].forced, req[c].looked, req[c].got,
                  req[c].source, req[c].attempt))

\* Mutant of FailAttempt: one attempt too many.
FailAttemptOnceMore(c) ==
    Become(c, Req(IF req[c].attempt + 1 > MaxAttempts THEN "failed" ELSE "backoff",
                  req[c].forced, req[c].looked, req[c].got, req[c].source,
                  req[c].attempt + 1))

\* RetryDecorator: the last attempt raises, the others back off.
FailAttempt(c) ==
    Become(c, Req(IF req[c].attempt + 1 = MaxAttempts THEN "failed" ELSE "backoff",
                  req[c].forced, req[c].looked, req[c].got, req[c].source,
                  req[c].attempt + 1))

\* An attempt: require_operational, asked again in the base provider, raises what
\* is retried, or the call is under way.
Attempt(c) == IF gated THEN FailAttempt(c) ELSE Become(c, At(c, "calling"))

GetsToken(c) ==
    /\ req[c].pc = "acquiring"
    /\ Attempt(c)
    /\ UNCHANGED <<now, cache, row, pending, gated, bounds>>

\* A retry takes no token: RetryDecorator is below RateLimitDecorator.
BackoffEnds(c) ==
    /\ req[c].pc = "backoff"
    /\ Attempt(c)
    /\ UNCHANGED <<now, cache, row, pending, gated, bounds>>

\* The venue takes the sample; the answer is still under way.
VenueSamples(c) ==
    /\ req[c].pc = "calling"
    /\ Become(c, Req("answered", req[c].forced, req[c].looked, now, "venue",
                     req[c].attempt))
    /\ UNCHANGED <<now, cache, row, pending, gated, bounds>>

\* ProviderUnavailableError.
CallFails(c) ==
    /\ req[c].pc = "calling"
    /\ Failure
    /\ FailAttempt(c)
    /\ UNCHANGED <<now, cache, row, pending, gated>>

\* Any other error, a rate limit of the venue among them, is not retried.
CallRaises(c) ==
    /\ req[c].pc = "calling"
    /\ Failure
    /\ Become(c, At(c, "failed"))
    /\ UNCHANGED <<now, cache, row, pending, gated>>

\* Mutant of Stores: the entry lives from the answer, not from the lookup.
StoresFromAnswer(c) ==
    /\ req[c].pc = "answered"
    /\ cache' = [sample |-> req[c].got, expires |-> now + Ttl]
    /\ Become(c, At(c, "writing"))
    /\ UNCHANGED <<now, row, pending, gated, bounds>>

\* The answer arrives and is cached, whatever was stored or dropped meanwhile.
Stores(c) ==
    /\ req[c].pc = "answered"
    /\ cache' = [sample |-> req[c].got, expires |-> req[c].looked + Ttl]
    /\ Become(c, At(c, "writing"))
    /\ UNCHANGED <<now, row, pending, gated, bounds>>

----------------------------------------------------------------------------
(* The write-through and the row *)

\* upsert_ticker, then the answer.  The row is replaced whatever it holds.
Writes(c) ==
    /\ req[c].pc = "writing"
    /\ row' = req[c].got
    /\ pending' = pending + Channels
    /\ Become(c, At(c, "done"))
    /\ UNCHANGED <<now, cache, gated, bounds>>

\* A write that fails or is cancelled under way may have reached the database.
MayWrite(c) ==
    \/ UNCHANGED <<row, pending>>
    \/ row' = req[c].got /\ pending' = pending + Channels

\* A failed write is logged; the answer is given all the same.
WriteFails(c) ==
    /\ req[c].pc = "writing"
    /\ Loss
    /\ MayWrite(c)
    /\ Become(c, At(c, "done"))
    /\ UNCHANGED <<now, cache, gated>>

\* The client goes away, wherever the request waits.
Aborts(c) ==
    /\ req[c].pc \in Waiting
    /\ Loss
    /\ IF req[c].pc = "writing" THEN MayWrite(c) ELSE UNCHANGED <<row, pending>>
    /\ Become(c, At(c, "cancelled"))
    /\ UNCHANGED <<now, cache, gated>>

\* Mutant of Delivered: the keys are not found.
DeliveredToNobody ==
    /\ pending > 0
    /\ pending' = pending - 1
    /\ UNCHANGED <<now, cache, row, req, gated, bounds>>

\* on_ticker_change: a change of tickers_live drops the cached tickers.
Delivered ==
    /\ pending > 0
    /\ pending' = pending - 1
    /\ cache' = NoEntry
    /\ UNCHANGED <<now, row, req, gated, bounds>>

\* Realtime is at most once.
BroadcastLost ==
    /\ pending > 0
    /\ Loss
    /\ pending' = pending - 1
    /\ UNCHANGED <<now, cache, row, req, gated>>

\* The cron job prune-stale-tickers.
Prune ==
    /\ row # NoRow /\ now - row > PruneAge
    /\ row' = NoRow
    /\ pending' = pending + Channels
    /\ UNCHANGED <<now, cache, req, gated, bounds>>

\* The health of the venue, as far as require_operational shows it.  Any order of
\* refusing and not is allowed, more than the probes of today's monitor bring about.
GateMoves ==
    /\ gates < MaxGates
    /\ gates' = gates + 1
    /\ gated' = ~gated
    /\ UNCHANGED <<now, cache, row, pending, req, failures, losses>>

Tick ==
    /\ now < MaxNow
    /\ now' = now + 1
    /\ UNCHANGED <<cache, row, pending, req, gated, bounds>>

----------------------------------------------------------------------------
Init ==
    /\ now = 0 /\ cache = NoEntry /\ row = NoRow /\ pending = 0
    /\ req = [c \in Requests |-> Req("idle", FALSE, 0, 0, "none", 0)]
    /\ gated = FALSE
    /\ failures = 0 /\ losses = 0 /\ gates = 0

\* What the loop, the database and the venue bring about for a request.
Progress(c) ==
    \/ LoadHits(c) \/ LoadMisses(c) \/ GetsToken(c) \/ VenueSamples(c)
    \/ BackoffEnds(c) \/ Stores(c) \/ Writes(c)

RequestNext ==
    \E c \in Requests :
        \/ \E forced \in BOOLEAN : Begin(c, forced)
        \/ Progress(c)
        \/ LoadFails(c) \/ CallFails(c) \/ CallRaises(c) \/ WriteFails(c) \/ Aborts(c)

Next == RequestNext \/ Delivered \/ BroadcastLost \/ Prune \/ GateMoves \/ Tick

Spec == Init /\ [][Next]_vars

\* Every await of a request is answered: tokens come (TokenBucket), the database
\* and the venue answer or fail, a backoff ends.  Nothing makes a client call,
\* a broadcast arrive or cron run.
FairSpec == Spec /\ \A c \in Requests : WF_vars(Progress(c))

----------------------------------------------------------------------------
(* Properties *)

\* Every variable has its type.
TypeOK ==
    /\ now \in Nat
    /\ cache \in [sample : Nat, expires : Nat]
    /\ row \in Nat \cup {NoRow}
    /\ pending \in Nat
    /\ req \in [Requests ->
          [pc : {"idle", "done", "failed", "cancelled"} \cup Waiting, forced : BOOLEAN,
           looked : Nat, got : Nat, source : {"none", "db", "l0", "venue"},
           attempt : 0..MaxAttempts]]
    /\ gated \in BOOLEAN
    /\ failures \in 0..MaxFailures /\ losses \in 0..MaxLosses /\ gates \in 0..MaxGates

\* An answer from L0 was sampled less than the ttl before the request looked,
\* however long the call that brought it took; one from the venue was sampled
\* after; and a forced request never gets a row's age.
RecentAnswers ==
    \A c \in Requests :
        req[c].pc = "done" =>
            /\ req[c].source # "none"
            /\ req[c].source = "l0" => req[c].looked - req[c].got < Ttl
            /\ req[c].source = "venue" => req[c].looked <= req[c].got
            /\ req[c].forced => req[c].source # "db"

\* While no write, broadcast or request is lost, L0 serves a ticker only until
\* its own write-through is announced: a cached ticker that can still be served
\* is about to be written, or its invalidation is on its way.  So a process that
\* rests serves nothing but the database and the venue.
CachedIsAnnounced ==
    Fresh /\ losses = 0 =>
        pending > 0 \/ \E c \in Requests : req[c].pc = "writing"

\* Every fetch ends, with an answer or an error.
FetchEnds == \A c \in Requests : req[c].pc \in Waiting ~> req[c].pc \notin Waiting
=============================================================================
