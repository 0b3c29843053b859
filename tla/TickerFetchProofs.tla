------------------------- MODULE TickerFetchProofs -------------------------
(* Proofs about TickerFetch: its types, that answers are recent, and that     *)
(* the L0 cache drains by its own announcements.  An invariant on requests    *)
(* is carried record by record: a step gives one request a new record that    *)
(* is good, and leaves the others alone.                                      *)
EXTENDS TickerFetch, TLAPS

USE FetchAssumption

----------------------------------------------------------------------------
(* The inductive invariant *)

ReqType ==
    [pc : {"idle", "done", "failed", "cancelled"} \cup Waiting, forced : BOOLEAN,
     looked : Nat, got : Nat, source : {"none", "db", "l0", "venue"},
     attempt : 0..MaxAttempts]

\* What is known of a request by where it is.
Good(r) ==
    /\ r.looked <= now
    /\ r.pc \in {"idle", "loading", "acquiring", "calling", "backoff"} =>
          r.attempt < MaxAttempts
    /\ r.pc = "loading" => ~r.forced
    /\ r.pc = "answered" => r.source = "venue" /\ r.looked <= r.got
    /\ r.pc = "writing" => r.source \in {"l0", "venue"}
    /\ r.pc = "done" => r.source # "none" /\ (r.forced => r.source # "db")
    /\ r.pc \in {"writing", "done"} =>
          /\ r.source = "l0" => r.looked - r.got < Ttl
          /\ r.source = "venue" => r.looked <= r.got

\* The requests and the L0 entry, which outlives its sample by the ttl at most.
Inv ==
    /\ req \in [Requests -> ReqType]
    /\ \A c \in Requests : Good(req[c])
    /\ cache \in [sample : Nat, expires : Nat] /\ cache.expires <= cache.sample + Ttl

Counters ==
    /\ now \in Nat /\ row \in Nat \cup {NoRow} /\ pending \in Nat /\ gated \in BOOLEAN
    /\ failures \in 0..MaxFailures /\ losses \in 0..MaxLosses /\ gates \in 0..MaxGates

IInv == Inv /\ Counters /\ CachedIsAnnounced

----------------------------------------------------------------------------
(* Records *)

\* A request that takes a good record leaves all requests good.
LEMMA BecomeKeeps ==
    ASSUME Inv, NEW c \in Requests, NEW r \in ReqType, Good(r), Become(c, r)
    PROVE  req' \in [Requests -> ReqType] /\ \A d \in Requests : Good(req'[d])
<1>1. req' = [req EXCEPT ![c] = r] /\ req \in [Requests -> ReqType]
  BY DEF Become, Inv
<1>2. req' \in [Requests -> ReqType]
  BY <1>1
<1>3. ASSUME NEW d \in Requests PROVE req'[d] = r \/ req'[d] = req[d]
  BY <1>1
<1> QED
  BY <1>2, <1>3 DEF Inv

\* What the lookup makes of a request that may look.
LEMMA LookedUp ==
    ASSUME Inv, Counters, NEW c \in Requests, NEW forced \in BOOLEAN,
           LookIntoL0(c, forced)
    PROVE  req' \in [Requests -> ReqType] /\ \A d \in Requests : Good(req'[d])
<1>1. cache.sample \in Nat /\ cache.expires <= cache.sample + Ttl /\ now \in Nat
      /\ cache.expires \in Nat
  BY DEF Inv, Counters
<1>2. CASE Fresh
  <2> DEFINE r == Req("writing", forced, now, cache.sample, "l0", 0)
  <2>1. r \in ReqType
    BY <1>1 DEF Req, ReqType, Waiting
  <2>2. Good(r)
    BY <1>1, <1>2 DEF Req, Good, Fresh
  <2>3. Become(c, r)
    BY <1>2 DEF LookIntoL0
  <2> QED
    BY <2>1, <2>2, <2>3, BecomeKeeps
<1>3. CASE ~Fresh
  <2> DEFINE r == Req("acquiring", forced, now, 0, "none", 0)
  <2>1. r \in ReqType
    BY <1>1 DEF Req, ReqType, Waiting
  <2>2. Good(r)
    BY <1>1 DEF Req, Good
  <2>3. Become(c, r)
    BY <1>3 DEF LookIntoL0
  <2> QED
    BY <2>1, <2>2, <2>3, BecomeKeeps
<1> QED
  BY <1>2, <1>3

LEMMA FailKeeps ==
    ASSUME Inv, NEW c \in Requests, req[c].pc \in {"acquiring", "backoff", "calling"},
           FailAttempt(c)
    PROVE  req' \in [Requests -> ReqType] /\ \A d \in Requests : Good(req'[d])
<1> DEFINE r == Req(IF req[c].attempt + 1 = MaxAttempts THEN "failed" ELSE "backoff",
                    req[c].forced, req[c].looked, req[c].got, req[c].source,
                    req[c].attempt + 1)
<1>1. req[c] \in ReqType /\ Good(req[c])
  BY DEF Inv
<1>2. req[c].attempt \in 0..MaxAttempts /\ req[c].attempt < MaxAttempts
  BY <1>1 DEF ReqType, Good
<1>3. r \in ReqType
  BY <1>1, <1>2 DEF Req, ReqType, Waiting
<1>4. Good(r)
  BY <1>1, <1>2 DEF Req, ReqType, Good
<1>5. Become(c, r)
  BY DEF FailAttempt
<1> QED
  BY <1>3, <1>4, <1>5, BecomeKeeps

\* Going on to another place keeps what is known there of the request.
LEMMA MoveKeeps ==
    ASSUME Inv, NEW c \in Requests, NEW pc, Become(c, At(c, pc)),
           \/ req[c].pc \in {"acquiring", "backoff"} /\ pc = "calling"
           \/ req[c].pc = "answered" /\ pc = "writing"
           \/ req[c].pc = "writing" /\ pc = "done"
           \/ pc \in {"failed", "cancelled"}
    PROVE  req' \in [Requests -> ReqType] /\ \A d \in Requests : Good(req'[d])
<1>1. req[c] \in ReqType /\ Good(req[c])
  BY DEF Inv
<1>2. At(c, pc) \in ReqType
  BY <1>1 DEF At, Req, ReqType, Waiting
<1>3. Good(At(c, pc))
  BY <1>1 DEF At, Req, ReqType, Good
<1> QED
  BY <1>2, <1>3, BecomeKeeps

----------------------------------------------------------------------------
(* Steps *)

\* Every step of a request keeps the requests good.
LEMMA RequestsStayGood ==
    ASSUME Inv, Counters, RequestNext
    PROVE  req' \in [Requests -> ReqType] /\ \A d \in Requests : Good(req'[d])
<1> DEFINE Goal == req' \in [Requests -> ReqType] /\ \A d \in Requests : Good(req'[d])
<1> PICK c \in Requests :
        \/ \E forced \in BOOLEAN : Begin(c, forced)
        \/ Progress(c)
        \/ LoadFails(c) \/ CallFails(c) \/ CallRaises(c) \/ WriteFails(c) \/ Aborts(c)
  BY DEF RequestNext
<1>0. req[c] \in ReqType /\ Good(req[c]) /\ now \in Nat
  BY DEF Inv, Counters
<1>1. ASSUME NEW forced \in BOOLEAN, Begin(c, forced) PROVE Goal
  <2>1. CASE gated
    <3> DEFINE r == Req("failed", forced, 0, 0, "none", 0)
    <3>1. r \in ReqType /\ Good(r)
      BY <1>0 DEF Req, ReqType, Good
    <3> QED
      BY <1>1, <2>1, <3>1, BecomeKeeps DEF Begin
  <2>2. CASE ~gated /\ forced
    BY <1>1, <2>2, LookedUp DEF Begin
  <2>3. CASE ~gated /\ ~forced
    <3> DEFINE r == Req("loading", forced, 0, 0, "none", 0)
    <3>1. r \in ReqType /\ Good(r)
      BY <1>0, <2>3 DEF Req, ReqType, Good, Waiting
    <3> QED
      BY <1>1, <2>3, <3>1, BecomeKeeps DEF Begin
  <2> QED
    BY <2>1, <2>2, <2>3
<1>2. CASE LoadHits(c)
  <2> DEFINE r == Req("done", req[c].forced, 0, row, "db", 0)
  <2>1. row \in Nat /\ req[c].pc = "loading"
    BY <1>2 DEF Counters, LoadHits
  <2>2. r \in ReqType /\ Good(r)
    BY <1>0, <2>1 DEF Req, ReqType, Good
  <2> QED
    BY <1>2, <2>2, BecomeKeeps DEF LoadHits
<1>3. CASE LoadMisses(c) \/ LoadFails(c)
  <2>1. req[c].forced \in BOOLEAN
    BY <1>0 DEF ReqType
  <2> QED
    BY <1>3, <2>1, LookedUp DEF LoadMisses, LoadFails
<1>4. CASE VenueSamples(c)
  <2> DEFINE r == Req("answered", req[c].forced, req[c].looked, now, "venue",
                      req[c].attempt)
  <2>1. r \in ReqType /\ Good(r)
    BY <1>0 DEF Req, ReqType, Good, Waiting
  <2> QED
    BY <1>4, <2>1, BecomeKeeps DEF VenueSamples
<1>5. CASE CallFails(c)
  BY <1>5, FailKeeps DEF CallFails
<1>6. CASE GetsToken(c) \/ BackoffEnds(c)
  <2>1. req[c].pc \in {"acquiring", "backoff"} /\ Attempt(c)
    BY <1>6 DEF GetsToken, BackoffEnds
  <2>2. CASE gated
    BY <2>1, <2>2, FailKeeps DEF Attempt
  <2>3. CASE ~gated
    BY <2>1, <2>3, MoveKeeps DEF Attempt
  <2> QED
    BY <2>2, <2>3
<1>7. CASE Stores(c)
  <2>1. req[c].pc = "answered" /\ Become(c, At(c, "writing"))
    BY <1>7 DEF Stores
  <2> QED
    BY <2>1, MoveKeeps
<1>8. CASE Writes(c) \/ WriteFails(c)
  <2>1. req[c].pc = "writing" /\ Become(c, At(c, "done"))
    BY <1>8 DEF Writes, WriteFails
  <2> QED
    BY <2>1, MoveKeeps
<1>9. CASE CallRaises(c) \/ Aborts(c)
  <2>1. \/ Become(c, At(c, "failed"))
        \/ Become(c, At(c, "cancelled"))
    BY <1>9 DEF CallRaises, Aborts
  <2> QED
    BY <2>1, MoveKeeps
<1> QED
  BY <1>1, <1>2, <1>3, <1>4, <1>5, <1>6, <1>7, <1>8, <1>9 DEF Progress

\* A stored entry outlives its sample by the ttl at most: the request looked
\* before the venue sampled.
LEMMA EntryStaysRecent ==
    ASSUME Inv, [Next]_vars
    PROVE  cache' \in [sample : Nat, expires : Nat] /\ cache'.expires <= cache'.sample + Ttl
<1> DEFINE Goal == /\ cache' \in [sample : Nat, expires : Nat]
                   /\ cache'.expires <= cache'.sample + Ttl
<1>1. ASSUME NEW c \in Requests, Stores(c) PROVE Goal
  <2>1. req[c] \in ReqType /\ Good(req[c]) /\ req[c].pc = "answered"
    BY <1>1 DEF Inv, Stores
  <2>2. req[c].looked \in Nat /\ req[c].got \in Nat /\ req[c].looked <= req[c].got
    BY <2>1 DEF ReqType, Good
  <2>3. cache' = [sample |-> req[c].got, expires |-> req[c].looked + Ttl]
    BY <1>1 DEF Stores
  <2> QED
    BY <2>2, <2>3
<1>2. CASE Delivered
  BY <1>2 DEF Delivered, NoEntry
<1>3. CASE UNCHANGED cache
  BY <1>3 DEF Inv
<1>4. ASSUME NEW c \in Requests, ~Stores(c), Progress(c) PROVE UNCHANGED cache
  BY <1>4 DEF Progress, LoadHits, LoadMisses, GetsToken, VenueSamples,
     BackoffEnds, Writes
<1>5. ASSUME NEW c \in Requests,
             \/ \E forced \in BOOLEAN : Begin(c, forced)
             \/ LoadFails(c) \/ CallFails(c) \/ CallRaises(c) \/ WriteFails(c)
             \/ Aborts(c)
      PROVE  UNCHANGED cache
  BY <1>5 DEF Begin, LoadFails, CallFails, CallRaises, WriteFails, Aborts
<1>6. ASSUME BroadcastLost \/ Prune \/ GateMoves \/ Tick \/ UNCHANGED vars
      PROVE  UNCHANGED cache
  BY <1>6 DEF BroadcastLost, Prune, GateMoves, Tick, vars
<1>7. CASE RequestNext
  BY <1>1, <1>3, <1>4, <1>5, <1>7 DEF RequestNext
<1> QED
  BY <1>2, <1>3, <1>6, <1>7 DEF Next
\* The clock, the bounds and the row.
LEMMA CountersStay ==
    ASSUME Inv, Counters, [Next]_vars
    PROVE  Counters' /\ now' >= now
<1> USE DEF Counters
<1>1. ASSUME Failure PROVE failures' \in 0..MaxFailures /\ UNCHANGED <<losses, gates>>
  BY <1>1 DEF Failure
<1>2. ASSUME Loss PROVE losses' \in 0..MaxLosses /\ UNCHANGED <<failures, gates>>
  BY <1>2 DEF Loss
<1>3. ASSUME NEW c \in Requests, Writes(c) PROVE Counters' /\ now' >= now
  <2>1. req[c].got \in Nat
    BY DEF Inv, ReqType
  <2> QED
    BY <1>3, <2>1 DEF Writes, bounds
<1>4. ASSUME NEW c \in Requests, ~Writes(c), Progress(c) PROVE Counters' /\ now' >= now
  BY <1>4 DEF Progress, LoadHits, LoadMisses, GetsToken, VenueSamples,
     BackoffEnds, Stores, bounds
<1>5. ASSUME NEW c \in Requests,
             \/ \E forced \in BOOLEAN : Begin(c, forced)
             \/ LoadFails(c) \/ CallFails(c) \/ CallRaises(c) \/ WriteFails(c)
             \/ Aborts(c)
      PROVE  Counters' /\ now' >= now
  <2>1. req[c].got \in Nat
    BY DEF Inv, ReqType
  <2>2. CASE \E forced \in BOOLEAN : Begin(c, forced)
    BY <2>2 DEF Begin, bounds
  <2>3. CASE LoadFails(c) \/ CallFails(c) \/ CallRaises(c)
    BY <1>1, <1>2, <2>3 DEF LoadFails, CallFails, CallRaises
  <2>4. ASSUME MayWrite(c) \/ UNCHANGED <<row, pending>>
        PROVE  row' \in Nat \cup {NoRow} /\ pending' \in Nat
    BY <2>1, <2>4 DEF MayWrite
  <2>5. CASE WriteFails(c) \/ Aborts(c)
    BY <1>2, <2>4, <2>5 DEF WriteFails, Aborts
  <2> QED
    BY <1>5, <2>2, <2>3, <2>5
<1>6. CASE Delivered \/ Prune \/ Tick \/ UNCHANGED vars
  BY <1>6 DEF Delivered, Prune, Tick, vars, bounds
<1>7. CASE BroadcastLost
  BY <1>2, <1>7 DEF BroadcastLost
<1>9. CASE GateMoves
  <2>1. gated' \in BOOLEAN
    BY <1>9 DEF GateMoves
  <2> QED
    BY <1>9, <2>1 DEF GateMoves
<1>8. CASE RequestNext
  BY <1>3, <1>4, <1>5, <1>8 DEF RequestNext
<1> QED
  BY <1>6, <1>7, <1>8, <1>9 DEF Next

\* A cached ticker is announced: storing it puts its request before the write,
\* the write puts the broadcast on its way, and only a delivery, which drops the
\* entry, or a loss takes either away.
LEMMA AnnouncedStays ==
    ASSUME IInv, [Next]_vars
    PROVE  CachedIsAnnounced'
<1> SUFFICES ASSUME Fresh', losses' = 0
             PROVE  pending' > 0 \/ \E c \in Requests : req'[c].pc = "writing"
  BY DEF CachedIsAnnounced
<1> DEFINE Goal == pending' > 0 \/ \E c \in Requests : req'[c].pc = "writing"
<1>0. /\ now \in Nat /\ pending \in Nat /\ losses \in Nat /\ cache.expires \in Nat
      /\ Channels \in Nat \ {0} /\ req \in [Requests -> ReqType] /\ now' >= now
      /\ now' \in Nat
  BY CountersStay DEF IInv, Inv, Counters
<1>1. ~Loss
  BY <1>0 DEF Loss
<1>2. ASSUME UNCHANGED cache, losses = 0
      PROVE  pending > 0 \/ \E c \in Requests : req[c].pc = "writing"
  BY <1>0, <1>2 DEF IInv, CachedIsAnnounced, Fresh
<1>3. ASSUME NEW c \in Requests, Stores(c) PROVE Goal
  <2>1. req'[c].pc = "writing"
    BY <1>0, <1>3 DEF Stores, Become, At, Req
  <2> QED
    BY <2>1
<1>4. ASSUME NEW c \in Requests, Writes(c) PROVE Goal
  BY <1>0, <1>4 DEF Writes
<1>5. ASSUME NEW c \in Requests, NEW r, Become(c, r), req[c].pc # "writing",
             UNCHANGED <<cache, pending, losses>>
      PROVE  Goal
  <2>1. CASE pending > 0
    BY <1>5, <2>1
  <2>2. ASSUME NEW d \in Requests, req[d].pc = "writing" PROVE req'[d].pc = "writing"
    BY <1>0, <1>5, <2>2 DEF Become
  <2> QED
    BY <1>2, <1>5, <2>1, <2>2
<1>6. ASSUME NEW c \in Requests, ~Stores(c), ~Writes(c), Progress(c) PROVE Goal
  <2>1. req[c].pc # "writing" /\ UNCHANGED <<cache, pending, losses>>
    BY <1>6 DEF Progress, LoadHits, LoadMisses, GetsToken, VenueSamples,
       BackoffEnds, bounds
  <2>2. \E r : Become(c, r)
    BY <1>6 DEF Progress, LoadHits, LoadMisses, GetsToken, VenueSamples,
       BackoffEnds, LookIntoL0, FailAttempt, Attempt
  <2> QED
    BY <1>5, <2>1, <2>2
<1>7. ASSUME NEW c \in Requests, NEW forced \in BOOLEAN, Begin(c, forced) PROVE Goal
  <2>1. req[c].pc # "writing" /\ UNCHANGED <<cache, pending, losses>>
    BY <1>7 DEF Begin, bounds
  <2>2. \E r : Become(c, r)
    BY <1>7 DEF Begin, LookIntoL0
  <2> QED
    BY <1>5, <2>1, <2>2
<1>8. ASSUME NEW c \in Requests, CallFails(c) \/ CallRaises(c) PROVE Goal
  <2>1. req[c].pc # "writing" /\ UNCHANGED <<cache, pending, losses>>
    BY <1>8 DEF CallFails, CallRaises, Failure
  <2>2. \E r : Become(c, r)
    BY <1>8 DEF CallFails, CallRaises, FailAttempt
  <2> QED
    BY <1>5, <2>1, <2>2
<1>9. ASSUME NEW c \in Requests PROVE ~(LoadFails(c) \/ WriteFails(c) \/ Aborts(c))
  BY <1>1 DEF LoadFails, WriteFails, Aborts
<1>10. CASE Delivered
  <2>1. cache' = NoEntry
    BY <1>10 DEF Delivered
  <2> QED
    BY <1>0, <2>1 DEF Fresh, NoEntry
<1>11. ~BroadcastLost
  BY <1>1 DEF BroadcastLost
<1>12. CASE Prune
  BY <1>0, <1>12 DEF Prune
<1>13. CASE GateMoves \/ Tick \/ UNCHANGED vars
  <2>1. UNCHANGED <<cache, pending, losses, req>>
    BY <1>13 DEF GateMoves, Tick, vars, bounds
  <2> QED
    BY <1>2, <2>1
<1>14. CASE RequestNext
  BY <1>3, <1>4, <1>6, <1>7, <1>8, <1>9, <1>14 DEF RequestNext
<1> QED
  BY <1>10, <1>11, <1>12, <1>13, <1>14 DEF Next

LEMMA FetchInit == Init => IInv
<1> SUFFICES ASSUME Init PROVE IInv
  OBVIOUS
<1> DEFINE r == Req("idle", FALSE, 0, 0, "none", 0)
<1>1. r \in ReqType /\ Good(r)
  BY DEF Init, Req, ReqType, Good
<1>2. req \in [Requests -> ReqType] /\ \A c \in Requests : Good(req[c])
  BY <1>1 DEF Init
<1>3. cache = [sample |-> 0, expires |-> 0] /\ now = 0
  BY DEF Init, NoEntry
<1>4. Inv
  BY <1>2, <1>3 DEF Inv
<1>5. Counters
  <2>1. gated \in BOOLEAN
    BY DEF Init
  <2>2. now = 0 /\ row = NoRow /\ pending = 0 /\ failures = 0 /\ losses = 0 /\ gates = 0
    BY DEF Init
  <2>3. failures \in 0..MaxFailures /\ losses \in 0..MaxLosses /\ gates \in 0..MaxGates
    BY <2>2, FetchAssumption
  <2>4. now \in Nat /\ row \in Nat \cup {NoRow} /\ pending \in Nat
    BY <2>2
  <2> QED
    BY <2>1, <2>3, <2>4 DEF Counters
<1>6. CachedIsAnnounced
  BY <1>3 DEF CachedIsAnnounced, Fresh
<1> QED
  BY <1>4, <1>5, <1>6 DEF IInv

LEMMA FetchNext == IInv /\ [Next]_vars => IInv'
<1> SUFFICES ASSUME IInv, [Next]_vars PROVE IInv'
  OBVIOUS
<1>1. Counters' /\ now' >= now /\ now \in Nat
  BY CountersStay DEF IInv, Counters
<1>2. req' \in [Requests -> ReqType] /\ \A d \in Requests : Good(req'[d])
  <2>1. CASE RequestNext
    BY <2>1, RequestsStayGood DEF IInv
  <2>2. CASE UNCHANGED req
    BY <2>2 DEF IInv, Inv
  <2> QED
    BY <2>1, <2>2 DEF Next, Delivered, BroadcastLost, Prune, GateMoves, Tick, vars
<1>3. ASSUME NEW d \in Requests PROVE Good(req[d])'
  <2>1. req'[d].looked \in Nat /\ Good(req'[d])
    BY <1>2 DEF ReqType
  <2> QED
    BY <1>1, <2>1 DEF Good, Counters
<1>4. Inv'
  <2>1. ReqType' = ReqType
    BY DEF ReqType, Waiting
  <2> QED
    BY <1>2, <1>3, <2>1, EntryStaysRecent DEF IInv, Inv
<1> QED
  BY <1>1, <1>4, AnnouncedStays DEF IInv

\* The invariant that the theorems below read off.
THEOREM FetchInvariant == Spec => []IInv
<1> QED
  BY FetchInit, FetchNext, PTL DEF Spec

----------------------------------------------------------------------------
(* Theorems *)

\* Every variable keeps its type; no request fails more often than it may.
THEOREM FetchTypes == Spec => []TypeOK
<1>1. IInv => TypeOK
  BY DEF IInv, Inv, Counters, TypeOK, ReqType
<1> QED
  BY <1>1, FetchInvariant, PTL

\* For any number of requests and any ttl, an answer from L0 is younger than the
\* ttl when it is found, and one from the venue is younger than the request.
THEOREM FetchAnswersAreRecent == Spec => []RecentAnswers
<1>1. IInv => RecentAnswers
  BY DEF IInv, Inv, Good, RecentAnswers
<1> QED
  BY <1>1, FetchInvariant, PTL

\* Without losses a servable entry is always about to be announced.
THEOREM FetchCacheIsAnnounced == Spec => []CachedIsAnnounced
<1>1. IInv => CachedIsAnnounced
  BY DEF IInv
<1> QED
  BY <1>1, FetchInvariant, PTL
=============================================================================
