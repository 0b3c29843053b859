------------------------- MODULE OhlcvHistoryProofs -------------------------
(***************************************************************************)
(* Proofs about OhlcvHistory: a history is its window, and the streaks of  *)
(* the probes alone move the state of the venue, for any number of calls,  *)
(* any windows and chunks and any limits.                                  *)
(***************************************************************************)
EXTENDS OhlcvHistory, FiniteSetTheorems, TLAPS

\* The number of elements up to x: what InOrder places x by.
Rank(x, S) == Cardinality({y \in S : y <= x})

LEMMA RankMonotone ==
    ASSUME NEW S, S \subseteq Int, IsFiniteSet(S)
    PROVE  \A x, y \in S :
              /\ Rank(x, S) \in 1 .. Cardinality(S)
              /\ x < y => Rank(x, S) < Rank(y, S)
              /\ Rank(x, S) = Cardinality(S) => y <= x
<1> SUFFICES ASSUME NEW x \in S, NEW y \in S
             PROVE  /\ Rank(x, S) \in 1 .. Cardinality(S)
                    /\ x < y => Rank(x, S) < Rank(y, S)
                    /\ Rank(x, S) = Cardinality(S) => y <= x
  OBVIOUS
<1>0. \A z \in S : z \in Int
  OBVIOUS
<1> DEFINE UpTo(z) == {e \in S : e <= z}
<1>1. \A z \in S : UpTo(z) \in SUBSET S /\ z \in UpTo(z)
  OBVIOUS
<1>2. \A z \in S : IsFiniteSet(UpTo(z)) /\ Cardinality(UpTo(z)) <= Cardinality(S)
  BY <1>1, FS_Subset
<1>3. \A z \in S : Cardinality(UpTo(z)) \in Nat /\ Cardinality(UpTo(z)) # 0
  BY <1>1, <1>2, FS_CardinalityType, FS_EmptySet
<1>4. Cardinality(S) \in Nat
  BY FS_CardinalityType
<1>5. Rank(x, S) \in 1 .. Cardinality(S)
  BY <1>2, <1>3, <1>4 DEF Rank
<1>6. x < y => Rank(x, S) < Rank(y, S)
  <2> SUFFICES ASSUME x < y PROVE Rank(x, S) < Rank(y, S)
    OBVIOUS
  <2>0. x \in Int /\ y \in Int /\ ~(y <= x) /\ y <= y
    BY <1>0
  <2>1. UpTo(x) \in SUBSET UpTo(y) /\ y \in UpTo(y) /\ y \notin UpTo(x)
    <3>1. \A z \in S : z <= x => z <= y
      BY <1>0
    <3> QED
      BY <2>0, <3>1
  <2>2. /\ Cardinality(UpTo(x)) <= Cardinality(UpTo(y))
        /\ Cardinality(UpTo(x)) # Cardinality(UpTo(y))
    BY <2>1, <1>2, FS_Subset
  <2> QED
    BY <2>2, <1>3 DEF Rank
<1>7. Rank(x, S) = Cardinality(S) => UpTo(x) = S
  BY <1>1, FS_Subset DEF Rank
<1>8. Rank(x, S) = Cardinality(S) => y <= x
  BY <1>7
<1> QED
  BY <1>5, <1>6, <1>8

LEMMA RankOnto ==
    ASSUME NEW S, S \subseteq Int, IsFiniteSet(S), NEW k \in 1 .. Cardinality(S)
    PROVE  \E x \in S : Rank(x, S) = k
<1> DEFINE n == Cardinality(S)
           rank == [x \in S |-> Rank(x, S)]
<1>1. n \in Nat
  BY FS_CardinalityType
<1>2. IsFiniteSet(1 .. n) /\ Cardinality(1 .. n) = n
  BY <1>1, FS_Interval
<1>3. rank \in [S -> 1 .. n]
  BY RankMonotone
<1>4. \A x, y \in S : rank[x] = rank[y] => x = y
  <2> SUFFICES ASSUME NEW x \in S, NEW y \in S, rank[x] = rank[y] PROVE x = y
    OBVIOUS
  <2>1. Rank(x, S) \in Int /\ Rank(y, S) \in Int /\ x \in Int /\ y \in Int
    <3>1. \A z \in S : z \in Int
      OBVIOUS
    <3>2. Rank(x, S) \in 1 .. n /\ Rank(y, S) \in 1 .. n
      BY RankMonotone
    <3> HIDE DEF n
    <3> QED
      BY <1>1, <3>1, <3>2
  <2>2. Rank(x, S) = Rank(y, S)
    OBVIOUS
  <2>3. ~(x < y) /\ ~(y < x)
    <3>1. (x < y => Rank(x, S) < Rank(y, S)) /\ (y < x => Rank(y, S) < Rank(x, S))
      BY RankMonotone
    <3> QED
      BY <2>1, <2>2, <3>1
  <2> QED
    BY <2>1, <2>3
<1>5. rank \in Injection(S, 1 .. n)
  BY <1>3, <1>4 DEF Injection, IsInjective
<1>6. rank \in Surjection(S, 1 .. n)
  BY <1>2, <1>5, FS_Injection
<1>7. \A j \in 1 .. n : \E x \in S : rank[x] = j
  BY <1>6 DEF Surjection
<1> QED
  BY <1>7

\* InOrder is the set in ascending order.
LEMMA InOrderSorts ==
    ASSUME NEW S, S \subseteq Int, IsFiniteSet(S)
    PROVE  /\ InOrder(S) \in Seq(S) /\ InOrder(S) \in Seq(Int)
           /\ Len(InOrder(S)) = Cardinality(S)
           /\ \A j, k \in 1 .. Cardinality(S) : j < k => InOrder(S)[j] < InOrder(S)[k]
           /\ \A x \in S : \E k \in 1 .. Cardinality(S) : InOrder(S)[k] = x
<1> DEFINE n == Cardinality(S)
           s == InOrder(S)
<1>1. n \in Nat
  BY FS_CardinalityType
<1>9. (\A z \in S : z \in Int) /\ (\A z \in 1 .. n : z \in Int)
  BY <1>1
<1>2. s = [k \in 1 .. n |-> CHOOSE x \in S : Rank(x, S) = k]
  BY DEF InOrder, Rank
<1>3. ASSUME NEW k \in 1 .. n PROVE s[k] \in S /\ Rank(s[k], S) = k
  <2>1. \E x \in S : Rank(x, S) = k
    BY RankOnto
  <2>2. s[k] = CHOOSE x \in S : Rank(x, S) = k
    BY <1>2
  <2> HIDE DEF s
  <2> QED
    BY <2>1, <2>2
<1>4. s \in Seq(S) /\ s \in Seq(Int) /\ Len(s) = n
  <2>1. s \in Seq(S) /\ Len(s) = n
    BY <1>1, <1>2, <1>3
  <2>2. \A k \in 1 .. n : s[k] \in Int
    BY <1>3, <1>9
  <2>3. s = [k \in 1 .. n |-> s[k]]
    BY <1>2
  <2> HIDE DEF s, n
  <2>4. s \in Seq(Int)
    BY <1>1, <2>2, <2>3
  <2> QED
    BY <2>1, <2>4
<1>5. \A j, k \in 1 .. n : j < k => s[j] < s[k]
  <2> SUFFICES ASSUME NEW j \in 1 .. n, NEW k \in 1 .. n, j < k PROVE s[j] < s[k]
    OBVIOUS
  <2>1. s[j] \in S /\ s[k] \in S /\ Rank(s[j], S) = j /\ Rank(s[k], S) = k
    BY <1>3
  <2>0. j \in Int /\ k \in Int /\ s[j] \in Int /\ s[k] \in Int
    BY <1>9, <2>1
  <2> HIDE DEF s
  <2>2. s[k] # s[j]
    BY <2>1, <2>0
  <2>3. ~(s[k] < s[j])
    <3>1. s[k] < s[j] => Rank(s[k], S) < Rank(s[j], S)
      BY <2>1, RankMonotone
    <3> QED
      BY <2>0, <2>1, <3>1
  <2> QED
    BY <2>0, <2>2, <2>3
<1>6. \A x \in S : s[Rank(x, S)] = x
  <2> SUFFICES ASSUME NEW x \in S PROVE s[Rank(x, S)] = x
    OBVIOUS
  <2> DEFINE k == Rank(x, S)
  <2>1. k \in 1 .. n
    BY RankMonotone
  <2>2. s[k] \in S /\ Rank(s[k], S) = k
    BY <1>3, <2>1
  <2>0. k \in Int /\ x \in Int /\ s[k] \in Int
    BY <1>9, <2>1, <2>2
  <2> HIDE DEF s
  <2>3. ~(s[k] < x) /\ ~(x < s[k])
    <3>1. (s[k] < x => Rank(s[k], S) < k) /\ (x < s[k] => k < Rank(s[k], S))
      BY <2>2, RankMonotone
    <3> HIDE DEF k
    <3> QED
      BY <2>0, <2>2, <3>1
  <2> HIDE DEF k
  <2>4. s[k] = x
    BY <2>0, <2>3
  <2> QED
    BY <2>4 DEF k
<1>7. \A x \in S : \E k \in 1 .. n : s[k] = x
  BY <1>6, RankMonotone
<1> QED
  BY <1>4, <1>5, <1>7

\* The largest of a set, and the smaller of two.
LEMMA MaxIsLargest ==
    ASSUME NEW S, S \subseteq Int, IsFiniteSet(S), S # {}
    PROVE  Max(S) \in S /\ \A y \in S : y <= Max(S)
<1>1. Cardinality(S) \in Nat /\ Cardinality(S) # 0
  BY FS_CardinalityType, FS_EmptySet
<1>2. PICK x \in S : Rank(x, S) = Cardinality(S)
  <2>1. Cardinality(S) \in 1 .. Cardinality(S)
    BY <1>1
  <2> QED
    BY <2>1, RankOnto
<1>3. \A y \in S : x >= y
  BY <1>2, RankMonotone
<1>4. Max(S) \in S /\ \A y \in S : Max(S) >= y
  BY <1>3 DEF Max
<1>5. \A y \in S : y \in Int
  OBVIOUS
<1> HIDE DEF Max
<1> QED
  BY <1>4, <1>5

LEMMA MinOfTwo ==
    ASSUME NEW a \in Int, NEW b \in Int
    PROVE  Min({a, b}) = IF a <= b THEN a ELSE b
  BY DEF Min

-----------------------------------------------------------------------------
\* A counter has counted what lies last behind it, and nothing else.
Outcomes == {"ok", "error"}

Leads(n, outcome) == n <= Len(recent) /\ \A k \in 1 .. n : recent[k] = outcome

HealthTypeOK ==
    /\ kind \in {"healthy", "degraded"}
    /\ loaded \in BOOLEAN
    /\ probe \in {"off", "waiting", "loading", "blind"}
    /\ recent \in Seq(Outcomes)

Counts ==
    /\ errorCount \in 0 .. ErrorsBeforeDegraded /\ Leads(errorCount, "error")
    /\ successStreak \in 0 .. SuccessesBeforeHealthy /\ Leads(successStreak, "ok")

LEMMA CountsInit == HealthInit => HealthTypeOK /\ Counts
<1> USE HealthAssumption
<1> SUFFICES ASSUME HealthInit PROVE HealthTypeOK /\ Counts
  OBVIOUS
<1>1. HealthTypeOK
  <2>1. kind = "healthy" /\ loaded = FALSE /\ probe = "off" /\ recent = <<>>
    BY DEF HealthInit
  <2>2. recent \in Seq(Outcomes) /\ kind \in {"healthy", "degraded"}
        /\ probe \in {"off", "waiting", "loading", "blind"}
    BY <2>1
  <2>3. loaded \in BOOLEAN
    BY <2>1
  <2> QED
    BY <2>2, <2>3 DEF HealthTypeOK
<1>2. Leads(0, "error") /\ Leads(0, "ok")
  BY DEF HealthInit, Leads
<1>3. errorCount = 0 /\ successStreak = 0
  BY DEF HealthInit
<1>4. 0 \in 0 .. ErrorsBeforeDegraded /\ 0 \in 0 .. SuccessesBeforeHealthy
  OBVIOUS
<1> QED
  BY <1>1, <1>2, <1>3, <1>4 DEF Counts

\* What the two kinds the program reaches make of the two outcomes of a probe.
LEMMA Judged ==
    ASSUME kind \in {"healthy", "degraded"}, NEW errs, NEW oks
    PROVE  /\ NextKind("ok", errs, oks) =
                IF kind = "degraded" /\ oks >= SuccessesBeforeHealthy THEN "healthy" ELSE kind
           /\ NextKind("error", errs, oks) =
                IF kind = "healthy" /\ errs >= ErrorsBeforeDegraded THEN "degraded" ELSE kind
<1>1. CASE kind = "healthy"
  BY <1>1 DEF NextKind
<1>2. CASE kind = "degraded"
  BY <1>2 DEF NextKind
<1> QED
  BY <1>1, <1>2

LEMMA NoteShifts ==
    ASSUME recent \in Seq(Outcomes), NEW outcome \in Outcomes, Note(outcome)
    PROVE  /\ recent' \in Seq(Outcomes)
           /\ Len(recent') = IF Len(recent) < SuccessesBeforeHealthy
                             THEN Len(recent) + 1 ELSE SuccessesBeforeHealthy
           /\ \A k \in 1 .. Len(recent') : recent'[k] = IF k = 1 THEN outcome ELSE recent[k - 1]
<1> USE HealthAssumption
<1> DEFINE longer == <<outcome>> \o recent
           n == Min({Len(recent) + 1, SuccessesBeforeHealthy})
<1>1. /\ longer \in Seq(Outcomes)
      /\ Len(longer) = Len(recent) + 1
      /\ \A k \in 1 .. Len(longer) : longer[k] = IF k = 1 THEN outcome ELSE recent[k - 1]
  OBVIOUS
<1>2. /\ n = IF Len(recent) < SuccessesBeforeHealthy
             THEN Len(recent) + 1 ELSE SuccessesBeforeHealthy
      /\ n \in 1 .. Len(longer)
  <2>1. n = IF Len(recent) + 1 <= SuccessesBeforeHealthy
            THEN Len(recent) + 1 ELSE SuccessesBeforeHealthy
    BY MinOfTwo
  <2> HIDE DEF n
  <2> QED
    BY <1>1, <2>1
<1>3. recent' = SubSeq(longer, 1, n)
  BY DEF Note
<1> HIDE DEF longer, n
<1>4. /\ recent' \in Seq(Outcomes) /\ Len(recent') = n
      /\ \A k \in 1 .. n : recent'[k] = longer[k]
  BY <1>1, <1>2, <1>3
<1> QED
  BY <1>1, <1>2, <1>4

\* An outcome more of the same kind; and the lead of the other one is over.
LEMMA LeadGrows ==
    ASSUME recent \in Seq(Outcomes), NEW outcome \in Outcomes, Note(outcome),
           NEW n \in Nat, Leads(n, outcome), NEW m \in 0 .. n + 1, m <= SuccessesBeforeHealthy
    PROVE  Leads(m, outcome)'
<1> USE HealthAssumption
<1>1. m <= Len(recent')
  BY NoteShifts DEF Leads
<1>2. ASSUME NEW k \in 1 .. m PROVE recent'[k] = outcome
  <2>1. k \in 1 .. Len(recent') /\ (k = 1 \/ k - 1 \in 1 .. n)
    BY <1>1, NoteShifts
  <2> QED
    BY <2>1, NoteShifts DEF Leads
<1> QED
  BY <1>1, <1>2 DEF Leads

\* What a probe that succeeded, and one that failed, does to the counters.
LEMMA SuccessCounts ==
    ASSUME HealthTypeOK, Counts, Outcome("ok"), Note("ok")
    PROVE  /\ kind' \in {"healthy", "degraded"} /\ recent' \in Seq(Outcomes) /\ Counts'
           /\ kind' # kind => /\ kind = "degraded" /\ kind' = "healthy"
                              /\ Leads(SuccessesBeforeHealthy, "ok")'
<1> USE HealthAssumption
<1>1. recent \in Seq(Outcomes) /\ recent' \in Seq(Outcomes)
  BY NoteShifts DEF HealthTypeOK, Outcomes
<1>2. /\ kind \in {"healthy", "degraded"}
      /\ kind' = IF kind = "degraded" /\ successStreak + 1 >= SuccessesBeforeHealthy
                 THEN "healthy" ELSE kind
  BY Judged DEF HealthTypeOK, Outcome
<1>3. /\ successStreak \in 0 .. SuccessesBeforeHealthy /\ Leads(successStreak, "ok")
      /\ successStreak \in Nat
  BY DEF Counts
<1>4. errorCount' = 0
  BY MinOfTwo DEF Outcome
<1>5. successStreak' = IF kind' # kind THEN 0
                       ELSE IF successStreak + 1 <= SuccessesBeforeHealthy
                            THEN successStreak + 1 ELSE SuccessesBeforeHealthy
  BY <1>3, MinOfTwo DEF Outcome
<1>6. \A m \in 0 .. successStreak + 1 : m <= SuccessesBeforeHealthy => Leads(m, "ok")'
  BY <1>1, <1>3, LeadGrows DEF Outcomes
<1>7. successStreak' \in 0 .. SuccessesBeforeHealthy /\ successStreak' \in 0 .. successStreak + 1
  BY <1>3, <1>5
<1>8. Leads(successStreak, "ok")'
  BY <1>6, <1>7
<1>9. Leads(errorCount, "error")'
  BY <1>1, <1>4 DEF Leads
<1>10. kind' # kind => /\ kind = "degraded" /\ kind' = "healthy"
                       /\ Leads(SuccessesBeforeHealthy, "ok")'
  BY <1>2, <1>3, <1>6
<1> QED
  BY <1>1, <1>2, <1>4, <1>7, <1>8, <1>9, <1>10 DEF Counts

LEMMA FailureCounts ==
    ASSUME HealthTypeOK, Counts, Outcome("error"), Note("error")
    PROVE  /\ kind' \in {"healthy", "degraded"} /\ recent' \in Seq(Outcomes) /\ Counts'
           /\ kind' # kind => /\ kind = "healthy" /\ kind' = "degraded"
                              /\ Leads(ErrorsBeforeDegraded, "error")'
<1> USE HealthAssumption
<1>1. recent \in Seq(Outcomes) /\ recent' \in Seq(Outcomes)
  BY NoteShifts DEF HealthTypeOK, Outcomes
<1>2. /\ kind \in {"healthy", "degraded"}
      /\ kind' = IF kind = "healthy" /\ errorCount + 1 >= ErrorsBeforeDegraded
                 THEN "degraded" ELSE kind
  BY Judged DEF HealthTypeOK, Outcome
<1>3. /\ errorCount \in 0 .. ErrorsBeforeDegraded /\ Leads(errorCount, "error")
      /\ errorCount \in Nat
  BY DEF Counts
<1>4. successStreak' = 0
  BY MinOfTwo DEF Outcome
<1>5. errorCount' = IF kind' # kind THEN 0
                    ELSE IF errorCount + 1 <= ErrorsBeforeDegraded
                         THEN errorCount + 1 ELSE ErrorsBeforeDegraded
  BY <1>3, MinOfTwo DEF Outcome
<1>6. \A m \in 0 .. errorCount + 1 : m <= SuccessesBeforeHealthy => Leads(m, "error")'
  BY <1>1, <1>3, LeadGrows DEF Outcomes
<1>7. errorCount' \in 0 .. ErrorsBeforeDegraded /\ errorCount' \in 0 .. errorCount + 1
  BY <1>3, <1>5
<1>8. Leads(errorCount, "error")'
  BY <1>6, <1>7
<1>9. Leads(successStreak, "ok")'
  BY <1>1, <1>4 DEF Leads
<1>10. kind' # kind => /\ kind = "healthy" /\ kind' = "degraded"
                       /\ Leads(ErrorsBeforeDegraded, "error")'
  BY <1>2, <1>3, <1>6
<1> QED
  BY <1>1, <1>2, <1>4, <1>7, <1>8, <1>9, <1>10 DEF Counts

HealthInv == HealthTypeOK /\ Counts

\* What (StreaksDecide) says of one step.
Streaks ==
    /\ kind' # kind =>
          \/ kind = "healthy" /\ kind' = "degraded" /\ Leads(ErrorsBeforeDegraded, "error")'
          \/ kind = "degraded" /\ kind' = "healthy" /\ Leads(SuccessesBeforeHealthy, "ok")'
    /\ probe = "blind" => kind' = kind \/ kind' = "healthy"

\* What a call can do to the venue: the markets are loaded.
Loads ==
    /\ kind' = kind /\ errorCount' = errorCount /\ successStreak' = successStreak
    /\ probe' = probe /\ recent' = recent /\ loaded' \in {loaded, TRUE}

LEMMA CountsNext ==
    ASSUME HealthInv, [HealthStep]_healthVars \/ Loads
    PROVE  HealthInv' /\ Streaks
<1>1. CASE UNCHANGED <<kind, errorCount, successStreak, recent>>
           /\ loaded' \in BOOLEAN /\ probe' \in {"off", "waiting", "loading", "blind"}
  <2>1. HealthTypeOK'
    BY <1>1 DEF HealthInv, HealthTypeOK
  <2>2. Counts'
    BY <1>1 DEF HealthInv, Counts, Leads
  <2> QED
    BY <1>1, <2>1, <2>2 DEF HealthInv, Streaks
<1>2. CASE UNCHANGED healthVars
  BY <1>1, <1>2 DEF HealthInv, HealthTypeOK, healthVars
<1>3. CASE Loads
  BY <1>1, <1>3 DEF Loads, HealthInv, HealthTypeOK
<1>4. CASE MonitorStarts
  BY <1>1, <1>4 DEF MonitorStarts, HealthInv, HealthTypeOK
<1>5. CASE MonitorStops
  BY <1>1, <1>5 DEF MonitorStops, HealthInv, HealthTypeOK
<1>6. CASE ProbeBegins
  BY <1>1, <1>6 DEF ProbeBegins, HealthInv, HealthTypeOK
<1>7. CASE ProbeSucceeds
  <2>1. /\ kind' \in {"healthy", "degraded"} /\ recent' \in Seq(Outcomes) /\ Counts'
        /\ kind' # kind => /\ kind = "degraded" /\ kind' = "healthy"
                           /\ Leads(SuccessesBeforeHealthy, "ok")'
    BY <1>7, SuccessCounts DEF ProbeSucceeds, HealthInv
  <2>2. loaded' = TRUE /\ probe' = "waiting"
    BY <1>7 DEF ProbeSucceeds
  <2>3. HealthTypeOK'
    BY <2>1, <2>2 DEF HealthTypeOK
  <2> QED
    BY <2>1, <2>3 DEF HealthInv, Streaks
<1>8. CASE ProbeFails
  <2>1. /\ kind' \in {"healthy", "degraded"} /\ recent' \in Seq(Outcomes) /\ Counts'
        /\ kind' # kind => /\ kind = "healthy" /\ kind' = "degraded"
                           /\ Leads(ErrorsBeforeDegraded, "error")'
    BY <1>8, FailureCounts DEF ProbeFails, HealthInv
  <2>2. loaded' = loaded /\ probe' = "waiting" /\ probe = "loading"
    BY <1>8 DEF ProbeFails
  <2>3. HealthTypeOK'
    BY <2>1, <2>2 DEF HealthTypeOK, HealthInv
  <2> QED
    BY <2>1, <2>2, <2>3 DEF HealthInv, Streaks
<1> QED
  BY <1>2, <1>3, <1>4, <1>5, <1>6, <1>7, <1>8 DEF HealthStep

\* A step of a history leaves the venue to its probes: at most, it loads the markets.
LEMMA HistoryLeavesHealth ==
    ASSUME [Next]_vars
    PROVE  [HealthStep]_healthVars \/ Loads
<1> DEFINE Kept == UNCHANGED healthVars
<1>1. ASSUME NEW c \in Calls, NEW w \in Windows, Begins(c, w) PROVE Kept
  BY <1>1 DEF Begins
<1>2. ASSUME NEW c \in Calls,
             LoadHits(c) \/ LoadMisses(c) \/ L0Hits(c) \/ Asks(c) \/ WriteThrough(c) \/ Delivered(c)
      PROVE  Kept
  BY <1>2 DEF LoadHits, LoadMisses, L0Hits, Asks, WriteThrough, Delivered
<1>3. ASSUME NEW c \in Calls, NEW S \in SUBSET (First .. latest), Answered(c, S) PROVE Loads
  BY <1>3 DEF Answered, Loads
<1>4. ASSUME NEW c \in Calls, AnsweredEmpty(c) \/ CallFails(c) PROVE Loads
  BY <1>4 DEF AnsweredEmpty, CallFails, Loads
<1>5. ASSUME NEW k \in DOMAIN l0, Expires(k) PROVE Kept
  BY <1>5 DEF Expires
<1>6. CASE CandleBegins
  BY <1>6 DEF CandleBegins
<1>7. CASE UNCHANGED vars
  BY <1>7 DEF vars
<1> QED
  BY <1>1, <1>2, <1>3, <1>4, <1>5, <1>6, <1>7 DEF Next

\* The venue changes its mind by streaks alone: degraded at that many failing
\* probes in a row, healthy at that many successes in a row, and never worse by
\* a probe that asked nothing.
THEOREM VenueGoesByStreaks == Spec => StreaksDecide
<1>1. Init => HealthInv
  BY CountsInit DEF Init, HealthInv
<1>2. HealthInv /\ [Next]_vars => HealthInv' /\ Streaks
  BY HistoryLeavesHealth, CountsNext
<1>3. HealthInv /\ [Next]_vars =>
        [/\ kind' # kind =>
              \/ /\ kind = "healthy" /\ kind' = "degraded"
                 /\ Len(recent') >= ErrorsBeforeDegraded
                 /\ \A k \in 1 .. ErrorsBeforeDegraded : recent'[k] = "error"
              \/ /\ kind = "degraded" /\ kind' = "healthy"
                 /\ Len(recent') >= SuccessesBeforeHealthy
                 /\ \A k \in 1 .. SuccessesBeforeHealthy : recent'[k] = "ok"
         /\ probe = "blind" => kind' = kind \/ kind' = "healthy"]_healthVars
  BY <1>2 DEF Streaks, Leads
<1> QED
  BY <1>1, <1>2, <1>3, PTL DEF Spec, StreaksDecide

-----------------------------------------------------------------------------
\* The oldest candles from a cursor on leave none out; recent candles leave
\* none out either, unless the oldest candle of the venue is not among them.
Gapless(from, S) ==
    \A x \in S : from <= x /\ \A y \in First .. x : from <= y => y \in S

Piece(from, S, last) ==
    /\ S # {} /\ S \subseteq First .. last
    /\ Gapless(from, S) \/ (from < First /\ First \notin S)

LEMMA AnswersArePieces ==
    ASSUME latest \in Int, NEW cursor \in Int, NEW n \in Nat \ {0},
           NEW S \in Answers(cursor, n), S # {}
    PROVE  Piece(cursor, S, latest)
<1> USE HistoryAssumption
<1>1. IsFiniteSet(First .. latest)
  BY FS_Interval
<1>2. CASE S = Oldest(n, {x \in First .. latest : x >= cursor})
  <2> DEFINE T == {x \in First .. latest : x >= cursor}
             Before(x) == {y \in T : y < x}
  <2>1. \A x \in T : Before(x) \in SUBSET (First .. latest)
    OBVIOUS
  <2>2. \A x \in T : IsFiniteSet(Before(x)) /\ Cardinality(Before(x)) \in Nat
    BY <1>1, <2>1, FS_Subset, FS_CardinalityType
  <2>3. S = {x \in T : Cardinality(Before(x)) < n}
    BY <1>2 DEF Oldest
  <2>4. ASSUME NEW x \in S, NEW y \in First .. x, cursor <= y PROVE y \in S
    <3>1. x \in T /\ x \in Int /\ y \in Int /\ latest \in Int /\ First <= y /\ y <= x /\ x <= latest
      BY <2>3
    <3>2. y \in T /\ \A z \in T : z < y => z < x
      BY <2>4, <3>1
    <3>3. Before(y) \in SUBSET Before(x)
      BY <3>2
    <3>4. Cardinality(Before(y)) <= Cardinality(Before(x))
      BY <2>2, <3>1, <3>3, FS_Subset
    <3>5. /\ Cardinality(Before(x)) < n
          /\ Cardinality(Before(x)) \in Nat /\ Cardinality(Before(y)) \in Nat
      BY <2>2, <2>3, <3>1, <3>2
    <3> HIDE DEF Before
    <3>6. Cardinality(Before(y)) < n
      BY <3>4, <3>5
    <3> QED
      BY <2>3, <3>2, <3>6
  <2>5. \A x \in S : cursor <= x /\ x \in First .. latest
    BY <2>3
  <2> QED
    BY <2>4, <2>5 DEF Piece, Gapless
<1>3. CASE cursor < First /\ S = Newest(n, First .. latest)
  <2> DEFINE After(x) == {y \in First .. latest : y > x}
  <2>1. \A x \in First .. latest : After(x) \in SUBSET (First .. latest)
    OBVIOUS
  <2>2. \A x \in First .. latest : IsFiniteSet(After(x)) /\ Cardinality(After(x)) \in Nat
    BY <1>1, <2>1, FS_Subset, FS_CardinalityType
  <2>3. S = {x \in First .. latest : Cardinality(After(x)) < n}
    BY <1>3 DEF Newest
  <2>4. ASSUME First \in S, NEW y \in First .. latest PROVE y \in S
    <3>1. After(y) \in SUBSET After(First)
      OBVIOUS
    <3>2. First \in First .. latest /\ Cardinality(After(First)) < n
      BY <2>3, <2>4
    <3>3. Cardinality(After(y)) <= Cardinality(After(First))
      BY <2>2, <3>1, <3>2, FS_Subset
    <3>4. Cardinality(After(First)) \in Nat /\ Cardinality(After(y)) \in Nat
      BY <2>2, <2>4, <3>2
    <3> HIDE DEF After
    <3>5. Cardinality(After(y)) < n
      BY <3>2, <3>3, <3>4
    <3> QED
      BY <2>3, <3>5
  <2>5. S \subseteq First .. latest
    BY <2>3
  <2>6. ASSUME First \in S PROVE Gapless(cursor, S)
    <3>1. \A x \in S : cursor <= x
      BY <1>3, <2>5
    <3>2. \A x \in S : \A y \in First .. x : y \in First .. latest
      BY <2>5
    <3> QED
      BY <2>4, <2>6, <3>1, <3>2 DEF Gapless
  <2> QED
    BY <1>3, <2>5, <2>6 DEF Piece
<1> QED
  BY <1>2, <1>3 DEF Answers

-----------------------------------------------------------------------------
\* What a history holds lies in the window, ascends, and ends before the cursor;
\* and between the start of the window and the cursor it holds it all.
Ascends(w, got, cursor, last) ==
    /\ \A k \in 1 .. Len(got) : /\ w.since <= got[k] /\ got[k] < w.until
                                /\ got[k] \in First .. last /\ got[k] < cursor
    /\ \A j, k \in 1 .. Len(got) : j < k => got[j] < got[k]

Covers(w, got, cursor) ==
    \A x \in Int : First <= x /\ w.since <= x /\ x < w.until /\ x < cursor
                     => \E k \in 1 .. Len(got) : got[k] = x

LEMMA PiecesJoin ==
    ASSUME NEW w \in Windows, NEW got \in Seq(Int), NEW cursor \in Int, NEW last \in Int,
           NEW S, S \subseteq First .. last, S # {}, \A x \in S : cursor <= x,
           Ascends(w, got, cursor, last)
    PROVE  LET all == got \o InOrder(Clip(w, S))
               next == Max(S) + 1
           IN  /\ all \in Seq(Int) /\ next \in Int /\ cursor < next
               /\ Ascends(w, all, next, last)
               /\ Covers(w, got, cursor) /\ Gapless(cursor, S) => Covers(w, all, next)
<1> USE HistoryAssumption
<1> DEFINE C == Clip(w, S)
           tail == InOrder(C)
           all == got \o tail
           next == Max(S) + 1
<1>1. w.since \in Int /\ w.until \in Int
  OBVIOUS
<1>2. S \subseteq Int /\ IsFiniteSet(S)
  <2>1. IsFiniteSet(First .. last) /\ S \in SUBSET (First .. last)
    BY FS_Interval
  <2>2. IsFiniteSet(S)
    BY <2>1, FS_Subset
  <2> QED
    BY <2>1, <2>2
<1>3. C \subseteq S /\ C \subseteq Int /\ IsFiniteSet(C)
  <2>1. C \in SUBSET S
    BY DEF Clip
  <2> QED
    BY <1>2, <2>1, FS_Subset
<1>4. /\ Max(S) \in S /\ Max(S) \in Int /\ next \in Int /\ cursor < next
      /\ \A x \in S : x < next
  <2>1. Max(S) \in S /\ \A x \in S : x <= Max(S)
    BY <1>2, MaxIsLargest
  <2>2. Max(S) \in Int /\ cursor <= Max(S) /\ \A x \in S : x \in Int
    BY <1>2, <2>1
  <2> QED
    BY <2>1, <2>2
<1>5. /\ tail \in Seq(C) /\ tail \in Seq(Int) /\ Len(tail) = Cardinality(C) /\ Cardinality(C) \in Nat
      /\ \A j, k \in 1 .. Len(tail) : j < k => tail[j] < tail[k]
      /\ \A x \in C : \E k \in 1 .. Len(tail) : tail[k] = x
  BY <1>3, InOrderSorts, FS_CardinalityType
<1>6. \A x \in C : /\ w.since <= x /\ x < w.until /\ x \in First .. last
                   /\ cursor <= x /\ x < next
  BY <1>3, <1>4 DEF Clip
<1>7. \A k \in 1 .. Len(tail) : tail[k] \in C
  BY <1>5
<1> HIDE DEF C, tail, next
<1>8. /\ all \in Seq(Int) /\ Len(all) = Len(got) + Len(tail) /\ Len(got) \in Nat /\ Len(tail) \in Nat
      /\ \A k \in 1 .. Len(got) : all[k] = got[k]
      /\ \A k \in 1 .. Len(tail) : all[Len(got) + k] = tail[k]
      /\ \A k \in 1 .. Len(all) :
            \/ k \in 1 .. Len(got) /\ all[k] = got[k]
            \/ k - Len(got) \in 1 .. Len(tail) /\ all[k] = tail[k - Len(got)]
  <2>1. tail \in Seq(Int)
    BY <1>5
  <2> QED
    BY <2>1
<1> HIDE DEF all
<1>9. Ascends(w, all, next, last)
  <2>1. ASSUME NEW k \in 1 .. Len(all)
        PROVE  /\ w.since <= all[k] /\ all[k] < w.until
               /\ all[k] \in First .. last /\ all[k] < next
    <3>1. CASE k \in 1 .. Len(got) /\ all[k] = got[k]
      <4>1. /\ w.since <= got[k] /\ got[k] < w.until
            /\ got[k] \in First .. last /\ got[k] < cursor
        BY <3>1 DEF Ascends
      <4>2. got[k] < next
        BY <1>4, <4>1
      <4> QED
        BY <3>1, <4>1, <4>2
    <3>2. CASE k - Len(got) \in 1 .. Len(tail) /\ all[k] = tail[k - Len(got)]
      BY <1>6, <1>7, <3>2
    <3> QED
      BY <1>8, <3>1, <3>2
  <2>2. ASSUME NEW j \in 1 .. Len(all), NEW k \in 1 .. Len(all), j < k
        PROVE  all[j] < all[k]
    <3>1. CASE k \in 1 .. Len(got) /\ all[k] = got[k]
      <4>1. j \in 1 .. Len(got)
        BY <1>8, <2>2, <3>1
      <4> QED
        BY <1>8, <2>2, <3>1, <4>1 DEF Ascends
    <3>2. CASE /\ j \in 1 .. Len(got) /\ all[j] = got[j]
               /\ k - Len(got) \in 1 .. Len(tail) /\ all[k] = tail[k - Len(got)]
      <4>1. got[j] < cursor /\ got[j] \in Int
        BY <3>2 DEF Ascends
      <4>2. cursor <= tail[k - Len(got)] /\ tail[k - Len(got)] \in Int
        BY <1>3, <1>6, <1>7, <3>2
      <4>3. got[j] < tail[k - Len(got)]
        BY <4>1, <4>2
      <4> QED
        BY <3>2, <4>3
    <3>3. CASE /\ j - Len(got) \in 1 .. Len(tail) /\ all[j] = tail[j - Len(got)]
               /\ k - Len(got) \in 1 .. Len(tail) /\ all[k] = tail[k - Len(got)]
      <4>1. j - Len(got) < k - Len(got)
        BY <1>8, <2>2
      <4> QED
        BY <1>5, <3>3, <4>1
    <3> QED
      BY <1>8, <2>2, <3>1, <3>2, <3>3
  <2> QED
    BY <2>1, <2>2 DEF Ascends
<1>10. ASSUME Covers(w, got, cursor), Gapless(cursor, S) PROVE Covers(w, all, next)
  <2> SUFFICES ASSUME NEW x \in Int, First <= x, w.since <= x, x < w.until, x < next
               PROVE  \E k \in 1 .. Len(all) : all[k] = x
    BY DEF Covers
  <2>1. CASE x < cursor
    <3>1. PICK k \in 1 .. Len(got) : got[k] = x
      BY <1>10, <2>1 DEF Covers
    <3>2. k \in 1 .. Len(all)
      BY <1>8
    <3>3. all[k] = x
      BY <1>8, <3>1
    <3> QED
      BY <3>2, <3>3
  <2>2. CASE cursor <= x
    <3>1. x \in First .. Max(S)
      BY <1>4 DEF next
    <3>2. x \in S
      BY <1>4, <1>10, <2>2, <3>1 DEF Gapless
    <3>3. x \in C
      BY <3>2 DEF C, Clip
    <3>4. PICK k \in 1 .. Len(tail) : tail[k] = x
      BY <1>5, <3>3
    <3>5. Len(got) + k \in 1 .. Len(all)
      BY <1>8, <3>4
    <3> QED
      BY <1>8, <3>4, <3>5
  <2> QED
    BY <2>1, <2>2
<1> QED
  BY <1>4, <1>8, <1>9, <1>10 DEF C, tail, all, next

-----------------------------------------------------------------------------
\* The state of one call, of the cache and of the table.
Busy == {"loading", "asking", "calling", "writing", "done"}

CallRecords ==
    [pc : Busy \union {"idle", "failed", "crashed"}, window : Windows \union {None},
     cursor : Int, got : Seq(Int), chunk : SUBSET Int, skipped : BOOLEAN]

Fits(r, last) ==
    /\ r.pc \in Busy => /\ r.window \in Windows
                        /\ Ascends(r.window, r.got, r.cursor, last)
                        /\ ~r.skipped => Covers(r.window, r.got, r.cursor)
    /\ r.pc = "done" => r.cursor >= r.window.until
    /\ r.pc \notin Busy => r.got = <<>>
    /\ r.pc = "writing" => Piece(r.cursor, r.chunk, last)

CallsFit ==
    /\ call \in [Calls -> CallRecords]
    /\ \A c \in Calls : Fits(call[c], latest)

StoresFit ==
    /\ latest \in First .. MaxLatest
    /\ rows \subseteq First .. latest
    /\ \A k \in DOMAIN l0 : Piece(k[1], l0[k], latest)

HistoryInv == CallsFit /\ StoresFit

LEMMA IdleFits ==
    /\ Idle \in CallRecords
    /\ Idle.cursor = 0 /\ Idle.got = <<>> /\ Idle.chunk = {} /\ Idle.skipped = FALSE
    /\ Idle.pc = "idle"
    /\ \A last : Fits(Idle, last)
<1>1. Idle \in CallRecords
  BY DEF Idle, CallRecords
<1>2. /\ Idle.cursor = 0 /\ Idle.got = <<>> /\ Idle.chunk = {} /\ Idle.skipped = FALSE
      /\ Idle.pc = "idle"
  BY DEF Idle
<1>3. \A last : Fits(Idle, last)
  BY <1>2 DEF Fits, Busy
<1> QED
  BY <1>1, <1>2, <1>3

LEMMA HistoryInvInit == Init => HistoryInv
<1> SUFFICES ASSUME Init PROVE HistoryInv
  OBVIOUS
<1> USE HistoryAssumption
<1>1. CallsFit
  BY IdleFits DEF Init, CallsFit
<1>2. StoresFit
  BY DEF Init, StoresFit
<1> QED
  BY <1>1, <1>2 DEF HistoryInv

\* A candle more changes nothing of what was gathered.
LEMMA FitsLater ==
    ASSUME NEW a \in Int, NEW b \in Int, a <= b
    PROVE  /\ \A x : x \in First .. a => x \in First .. b
           /\ \A from, S : Piece(from, S, a) => Piece(from, S, b)
           /\ \A r : Fits(r, a) => Fits(r, b)
<1> USE HistoryAssumption
<1>1. \A x : x \in First .. a => x \in First .. b
  OBVIOUS
<1>2. \A from, S : Piece(from, S, a) => Piece(from, S, b)
  BY <1>1 DEF Piece
<1>3. \A w, got, cursor : Ascends(w, got, cursor, a) => Ascends(w, got, cursor, b)
  BY <1>1 DEF Ascends
<1> QED
  BY <1>1, <1>2, <1>3 DEF Fits

LEMMA OneCallMoves ==
    ASSUME CallsFit, NEW c \in Calls, latest' = latest,
           call' = [call EXCEPT ![c] = call'[c]], call'[c] \in CallRecords, Fits(call'[c], latest)
    PROVE  CallsFit'
<1>1. call' \in [Calls -> CallRecords]
  BY DEF CallsFit
<1>2. ASSUME NEW d \in Calls PROVE Fits(call'[d], latest')
  <2>1. CASE d = c
    BY <2>1
  <2>2. CASE d # c
    <3>1. call'[d] = call[d]
      BY <2>2 DEF CallsFit
    <3> QED
      BY <3>1 DEF CallsFit
  <2> QED
    BY <2>1, <2>2
<1> QED
  BY <1>1, <1>2 DEF CallsFit

\* A call that ends with nothing, or only goes on to its next step.
LEMMA EndsFits ==
    ASSUME CallsFit, NEW c \in Calls, latest' = latest,
           NEW pc \in {"idle", "failed", "crashed"}, Ends(c, pc)
    PROVE  CallsFit'
<1> DEFINE r == [Idle EXCEPT !.pc = pc]
<1>1. call' = [call EXCEPT ![c] = r] /\ call'[c] = r
  BY DEF Ends, CallsFit
<1>2. r \in CallRecords /\ r.pc = pc /\ r.got = <<>>
  BY IdleFits DEF CallRecords
<1>3. r \in CallRecords
  BY <1>2
<1>4. Fits(r, latest)
  BY <1>2 DEF Fits, Busy
<1> HIDE DEF r
<1> QED
  BY <1>1, <1>3, <1>4, OneCallMoves

LEMMA GoesFits ==
    ASSUME CallsFit, NEW c \in Calls, latest' = latest, call[c].pc \in Busy \ {"done"},
           NEW pc \in {"asking", "calling"}, Goes(c, pc)
    PROVE  CallsFit'
<1> DEFINE r == [call[c] EXCEPT !.pc = pc]
<1>1. call[c] \in CallRecords /\ Fits(call[c], latest)
  BY DEF CallsFit
<1>2. call' = [call EXCEPT ![c] = r] /\ call'[c] = r
  BY DEF Goes, CallsFit
<1>3. /\ r \in CallRecords /\ r.pc = pc /\ r.window = call[c].window /\ r.cursor = call[c].cursor
      /\ r.got = call[c].got /\ r.skipped = call[c].skipped
  BY <1>1 DEF CallRecords, Busy
<1> HIDE DEF r
<1>4. Fits(r, latest)
  BY <1>1, <1>3 DEF Fits, Busy
<1> QED
  BY <1>2, <1>3, <1>4, OneCallMoves

LEMMA BeginsFits ==
    ASSUME CallsFit, NEW c \in Calls, latest' = latest, NEW w \in Windows, Begins(c, w)
    PROVE  CallsFit'
<1> USE HistoryAssumption
<1> DEFINE r == [Idle EXCEPT !.pc = FetchFrom(w), !.window = w, !.cursor = w.since]
<1>1. call' = [call EXCEPT ![c] = r] /\ call'[c] = r
  BY DEF Begins, CallsFit
<1>3. FetchFrom(w) \in {"failed", "asking", "loading"}
  BY DEF FetchFrom
<1>4. w.since \in Int
  OBVIOUS
<1>2. /\ r \in CallRecords /\ r.pc = FetchFrom(w) /\ r.window = w /\ r.cursor = w.since
      /\ r.got = <<>> /\ r.skipped = FALSE
  BY <1>3, <1>4, IdleFits DEF CallRecords, Busy
<1> HIDE DEF r
<1>5. r \in CallRecords
  BY <1>2
<1>6. Ascends(w, <<>>, w.since, latest) /\ Covers(w, <<>>, w.since)
  BY <1>4 DEF Ascends, Covers
<1>7. Fits(r, latest)
  BY <1>2, <1>3, <1>6 DEF Fits, Busy
<1> QED
  BY <1>1, <1>5, <1>7, OneCallMoves

\* A chunk that lies from the cursor on, and leaves no candle out unless noted.
LEMMA TakesFits ==
    ASSUME CallsFit, NEW c \in Calls, latest \in Int, latest' = latest, Operational,
           call[c].pc \in Busy, NEW S, S # {}, S \subseteq First .. latest, \A x \in S : call[c].cursor <= x,
           NEW skips \in BOOLEAN, skips \/ Gapless(call[c].cursor, S),
           Takes(c, S, skips)
    PROVE  CallsFit'
<1> USE HistoryAssumption
<1> DEFINE w == call[c].window
           got == call[c].got
           cursor == call[c].cursor
           all == got \o InOrder(Clip(w, S))
           next == Max(S) + 1
           over == next <= cursor \/ next >= w.until
           pc == IF over THEN "done" ELSE FetchFrom(w)
           r == [call[c] EXCEPT !.got = all, !.cursor = next, !.chunk = {},
                                !.skipped = @ \/ skips, !.pc = pc]
<1>1. call[c] \in CallRecords /\ Fits(call[c], latest)
  BY DEF CallsFit
<1>2. /\ w \in Windows /\ got \in Seq(Int) /\ cursor \in Int /\ call[c].skipped \in BOOLEAN
      /\ Ascends(w, got, cursor, latest)
      /\ ~call[c].skipped => Covers(w, got, cursor)
  BY <1>1 DEF CallRecords, Fits
<1>3. /\ all \in Seq(Int) /\ next \in Int /\ cursor < next
      /\ Ascends(w, all, next, latest)
      /\ Covers(w, got, cursor) /\ Gapless(cursor, S) => Covers(w, all, next)
  <2> HIDE DEF w, got, cursor
  <2> QED
    BY <1>2, PiecesJoin DEF cursor
<1>4. call' = [call EXCEPT ![c] = r] /\ call'[c] = r
  <2>1. call' = [call EXCEPT ![c] = r]
    BY DEF Takes, NextCursor, Window
  <2> HIDE DEF r
  <2> QED
    BY <2>1 DEF CallsFit
<1>5. FetchFrom(w) \in {"asking", "loading"}
  BY DEF FetchFrom
<1>6. /\ r.pc = pc /\ r.window = w /\ r.cursor = next /\ r.got = all
      /\ r.chunk = {} /\ r.skipped = (call[c].skipped \/ skips)
  BY <1>1 DEF CallRecords
<1>7. pc \in {"done", "asking", "loading"} /\ (pc = "done" => next >= w.until)
  <2>1. w.until \in Int
    BY <1>2
  <2> HIDE DEF w, cursor, next
  <2> QED
    BY <1>2, <1>3, <1>5, <2>1
<1>8. r \in CallRecords
  BY <1>1, <1>2, <1>3, <1>7 DEF CallRecords, Busy
<1> HIDE DEF r, pc, next, all, w, got, cursor
<1>9. ~r.skipped => Covers(w, all, next)
  <2>1. ~r.skipped => ~call[c].skipped /\ ~skips
    BY <1>6
  <2>2. ~skips => Gapless(cursor, S)
    BY DEF cursor
  <2> QED
    BY <1>2, <1>3, <2>1, <2>2
<1>10. Fits(r, latest)
  BY <1>2, <1>3, <1>6, <1>7, <1>9 DEF Fits, Busy
<1> QED
  BY <1>4, <1>8, <1>10, OneCallMoves

\* A venue that only its monitor judges is always asked.
LEMMA AlwaysOperational == HealthInv => Operational
  BY DEF HealthInv, HealthTypeOK, Operational

LEMMA StoresStay ==
    ASSUME StoresFit, UNCHANGED <<latest, rows, l0>>
    PROVE  StoresFit'
  BY DEF StoresFit

LEMMA HistoryInvNext ==
    ASSUME HealthInv, HistoryInv, [Next]_vars
    PROVE  HistoryInv'
<1> USE HistoryAssumption
<1>1. /\ CallsFit /\ StoresFit /\ Operational
      /\ latest \in Int /\ First <= latest /\ latest <= MaxLatest
      /\ \A c \in Calls : call[c] \in CallRecords /\ Fits(call[c], latest)
  BY AlwaysOperational DEF HistoryInv, StoresFit, CallsFit
<1>2. \A c \in Calls : /\ call[c].cursor \in Int /\ call[c].chunk \subseteq Int
                       /\ call[c].pc \in Busy => call[c].window \in Windows
  BY <1>1 DEF CallRecords, Fits
<1>3. \A w \in Windows : w.chunk \in Nat \ {0}
  OBVIOUS
<1>4. ASSUME NEW c \in Calls, NEW w \in Windows, Begins(c, w) PROVE HistoryInv'
  <2>1. UNCHANGED <<latest, rows, l0>>
    BY <1>4 DEF Begins
  <2> QED
    BY <1>1, <1>4, <2>1, BeginsFits, StoresStay DEF HistoryInv
<1>5. ASSUME NEW c \in Calls, LoadHits(c) PROVE HistoryInv'
  <2> DEFINE S == Found(c)
  <2>1. /\ UNCHANGED <<latest, rows, l0>> /\ call[c].pc \in Busy
        /\ S # {} /\ Takes(c, S, TRUE)
    BY <1>5 DEF LoadHits, CallAt, Busy
  <2>2. S \subseteq First .. latest /\ \A x \in S : call[c].cursor <= x
    <3>1. \A x \in S : x \in rows /\ x >= call[c].cursor
      BY DEF Found, Newest
    <3>2. \A x \in S : x \in First .. latest
      BY <1>1, <3>1 DEF StoresFit
    <3> QED
      BY <1>2, <3>1, <3>2
  <2> HIDE DEF S
  <2>3. CallsFit'
    BY <1>1, <2>1, <2>2, TakesFits
  <2> QED
    BY <1>1, <2>1, <2>3, StoresStay DEF HistoryInv
<1>6. ASSUME NEW c \in Calls, LoadMisses(c) PROVE HistoryInv'
  <2>1. UNCHANGED <<latest, rows, l0>> /\ call[c].pc \in Busy \ {"done"} /\ Goes(c, "asking")
    BY <1>6 DEF LoadMisses, CallAt, Busy
  <2> QED
    BY <1>1, <2>1, GoesFits, StoresStay DEF HistoryInv
<1>7. ASSUME NEW c \in Calls, NEW S, Piece(call[c].cursor, S, latest), call[c].pc \in Busy \ {"done"},
             latest' = latest, call' = [call EXCEPT ![c].pc = "writing", ![c].chunk = S]
      PROVE  CallsFit'
  <2> DEFINE r == [call[c] EXCEPT !.pc = "writing", !.chunk = S]
  <2>1. S \subseteq Int
    BY <1>1, <1>7 DEF Piece
  <2>2. call' = [call EXCEPT ![c] = r] /\ call'[c] = r
    BY <1>1, <1>7 DEF CallsFit
  <2>3. /\ r \in CallRecords /\ r.pc = "writing" /\ r.chunk = S
        /\ r.window = call[c].window /\ r.cursor = call[c].cursor
        /\ r.got = call[c].got /\ r.skipped = call[c].skipped
    BY <1>1, <2>1 DEF CallRecords, Busy
  <2> HIDE DEF r
  <2>4. Fits(r, latest)
    BY <1>1, <1>7, <2>3 DEF Fits, Busy
  <2> QED
    BY <1>1, <1>7, <2>2, <2>3, <2>4, OneCallMoves
<1>8. ASSUME NEW c \in Calls, L0Hits(c) PROVE HistoryInv'
  <2>1. /\ UNCHANGED <<latest, rows, l0>> /\ call[c].pc \in Busy \ {"done"}
        /\ Key(c) \in DOMAIN l0
        /\ call' = [call EXCEPT ![c].pc = "writing", ![c].chunk = l0[Key(c)]]
    BY <1>8 DEF L0Hits, CallAt, Busy
  <2>2. Piece(call[c].cursor, l0[Key(c)], latest)
    <3>1. Key(c)[1] = call[c].cursor
      BY DEF Key
    <3> QED
      BY <1>1, <2>1, <3>1 DEF StoresFit
  <2>3. CallsFit'
    BY <1>7, <2>1, <2>2
  <2> QED
    BY <1>1, <2>1, <2>3, StoresStay DEF HistoryInv
<1>9. ASSUME NEW c \in Calls, Asks(c) PROVE HistoryInv'
  <2>1. UNCHANGED <<latest, rows, l0>> /\ call[c].pc \in Busy \ {"done"} /\ Goes(c, "calling")
    BY <1>1, <1>9 DEF Asks, CallAt, Busy
  <2> QED
    BY <1>1, <2>1, GoesFits, StoresStay DEF HistoryInv
<1>10. ASSUME NEW c \in Calls, NEW S \in SUBSET (First .. latest), Answered(c, S) PROVE HistoryInv'
  <2>1. /\ UNCHANGED <<latest, rows>> /\ call[c].pc \in Busy \ {"done"}
        /\ S \in Answers(call[c].cursor, call[c].window.chunk) /\ S # {}
        /\ call' = [call EXCEPT ![c].pc = "writing", ![c].chunk = S]
        /\ l0' = [k \in DOMAIN l0 \union {Key(c)} |-> IF k = Key(c) THEN S ELSE l0[k]]
    BY <1>10 DEF Answered, CallAt, Busy, Window
  <2>2. Piece(call[c].cursor, S, latest)
    BY <1>1, <1>2, <1>3, <2>1, AnswersArePieces
  <2>3. CallsFit'
    BY <1>7, <2>1, <2>2
  <2>4. ASSUME NEW k \in DOMAIN l0' PROVE Piece(k[1], l0'[k], latest)
    <3>1. CASE k = Key(c)
      <4>1. l0'[k] = S
        BY <2>1, <3>1
      <4>2. k[1] = call[c].cursor
        BY <3>1 DEF Key
      <4> QED
        BY <2>2, <4>1, <4>2
    <3>2. CASE k # Key(c)
      <4>1. k \in DOMAIN l0 /\ l0'[k] = l0[k]
        BY <2>1, <3>2
      <4> QED
        BY <1>1, <4>1 DEF StoresFit
    <3> QED
      BY <3>1, <3>2
  <2>5. StoresFit'
    BY <1>1, <2>1, <2>4 DEF StoresFit
  <2> QED
    BY <2>3, <2>5 DEF HistoryInv
<1>11. ASSUME NEW c \in Calls, AnsweredEmpty(c) \/ CallFails(c) \/ Delivered(c) PROVE HistoryInv'
  <2>1. UNCHANGED <<latest, rows, l0>>
        /\ (Ends(c, "crashed") \/ Ends(c, "failed") \/ Ends(c, "idle"))
    BY <1>11 DEF AnsweredEmpty, CallFails, Delivered
  <2> QED
    BY <1>1, <2>1, EndsFits, StoresStay DEF HistoryInv
<1>12. ASSUME NEW c \in Calls, WriteThrough(c) PROVE HistoryInv'
  <2> DEFINE S == call[c].chunk
             skips == call[c].cursor < First /\ First \notin S
  <2>1. /\ UNCHANGED <<latest, l0>> /\ call[c].pc = "writing" /\ call[c].pc \in Busy
        /\ rows' \in {rows, rows \union S} /\ Takes(c, S, skips)
    BY <1>12 DEF WriteThrough, CallAt, Busy
  <2>2. Piece(call[c].cursor, S, latest)
    BY <1>1, <2>1 DEF Fits
  <2>3. S # {} /\ S \subseteq First .. latest /\ (Gapless(call[c].cursor, S) \/ skips)
    BY <2>2 DEF Piece
  <2>4. \A x \in S : call[c].cursor <= x
    <3>1. CASE Gapless(call[c].cursor, S)
      BY <3>1 DEF Gapless
    <3>2. CASE skips
      BY <1>1, <1>2, <2>3, <3>2
    <3> QED
      BY <2>3, <3>1, <3>2
  <2>5. skips \in BOOLEAN
    OBVIOUS
  <2>6. StoresFit'
    BY <1>1, <2>1, <2>3 DEF StoresFit
  <2> HIDE DEF S, skips
  <2>7. CallsFit'
    BY <1>1, <2>1, <2>3, <2>4, <2>5, TakesFits
  <2> QED
    BY <2>6, <2>7 DEF HistoryInv
<1>13. ASSUME NEW k \in DOMAIN l0, Expires(k) PROVE HistoryInv'
  <2>1. UNCHANGED <<latest, rows, call>> /\ l0' = [x \in DOMAIN l0 \ {k} |-> l0[x]]
    BY <1>13 DEF Expires
  <2>2. StoresFit'
    BY <1>1, <2>1 DEF StoresFit
  <2>3. CallsFit'
    BY <1>1, <2>1 DEF CallsFit
  <2> QED
    BY <2>2, <2>3 DEF HistoryInv
<1>14. CASE CandleBegins
  <2>1. latest < MaxLatest /\ latest' = latest + 1 /\ UNCHANGED <<rows, l0, call>>
    BY <1>14 DEF CandleBegins
  <2>2. latest' \in Int /\ latest <= latest' /\ latest' \in First .. MaxLatest
    BY <1>1, <2>1
  <2>3. /\ \A x : x \in First .. latest => x \in First .. latest'
        /\ \A from, S : Piece(from, S, latest) => Piece(from, S, latest')
        /\ \A r : Fits(r, latest) => Fits(r, latest')
    BY <1>1, <2>2, FitsLater
  <2>4. StoresFit'
    BY <1>1, <2>1, <2>2, <2>3 DEF StoresFit
  <2>5. CallsFit'
    BY <1>1, <2>1, <2>3 DEF CallsFit
  <2> QED
    BY <2>4, <2>5 DEF HistoryInv
<1>15. CASE UNCHANGED <<latest, rows, l0, call>>
  <2>1. CallsFit'
    BY <1>1, <1>15 DEF CallsFit
  <2> QED
    BY <1>1, <1>15, <2>1, StoresStay DEF HistoryInv
<1> QED
  BY <1>4, <1>5, <1>6, <1>8, <1>9, <1>10, <1>11, <1>12, <1>13, <1>14, <1>15 DEF Next, vars

\* What a history has gathered lies in its window, ascends, and is complete when
\* it ends and none of its chunks skipped candles: whatever the table, the cache
\* and the venue answer, for any number of calls, windows and chunk sizes.
LEMMA GatheredIsTheWindow == HistoryInv => HistoryIsTheWindow
<1> USE HistoryAssumption
<1> SUFFICES ASSUME HistoryInv, NEW c \in Calls
             PROVE  LET w == Window(c)
                        got == call[c].got
                    IN  /\ \A k \in DOMAIN got : w.since <= got[k] /\ got[k] < w.until /\ got[k] \in First .. latest
                        /\ \A k \in 2 .. Len(got) : got[k - 1] < got[k]
                        /\ CallAt(c, "done") /\ ~call[c].skipped =>
                              ToSet(got) = {x \in First .. latest : w.since <= x /\ x < w.until}
  BY DEF HistoryIsTheWindow
<1> DEFINE w == call[c].window
           got == call[c].got
           cursor == call[c].cursor
<1>1. call[c] \in CallRecords /\ Fits(call[c], latest)
  BY DEF HistoryInv, CallsFit
<1>2. got \in Seq(Int) /\ cursor \in Int /\ DOMAIN got = 1 .. Len(got) /\ Len(got) \in Nat
  <2>1. got \in Seq(Int) /\ cursor \in Int
    BY <1>1 DEF CallRecords
  <2> QED
    BY <2>1
<1>3. CASE call[c].pc \in Busy
  <2>1. /\ w \in Windows /\ w.until \in Int /\ Ascends(w, got, cursor, latest)
        /\ ~call[c].skipped => Covers(w, got, cursor)
        /\ call[c].pc = "done" => cursor >= w.until
    BY <1>1, <1>3 DEF Fits
  <2>2. \A k \in DOMAIN got : w.since <= got[k] /\ got[k] < w.until /\ got[k] \in First .. latest
    BY <1>2, <2>1 DEF Ascends
  <2>3. ASSUME NEW k \in 2 .. Len(got) PROVE got[k - 1] < got[k]
    <3>1. k - 1 \in 1 .. Len(got) /\ k \in 1 .. Len(got) /\ k - 1 < k
      BY <1>2
    <3> HIDE DEF w, got, cursor
    <3> QED
      BY <2>1, <3>1 DEF Ascends
  <2>4. ASSUME call[c].pc = "done", ~call[c].skipped
        PROVE  ToSet(got) = {x \in First .. latest : w.since <= x /\ x < w.until}
    <3> DEFINE all == {x \in First .. latest : w.since <= x /\ x < w.until}
    <3>1. ToSet(got) \subseteq all
      BY <2>2 DEF ToSet
    <3>2. ASSUME NEW x \in all PROVE x \in ToSet(got)
      <4>1. x \in Int /\ First <= x /\ w.since <= x /\ x < w.until
        OBVIOUS
      <4>2. x < cursor
        BY <1>2, <2>1, <2>4, <4>1
      <4>3. \E k \in 1 .. Len(got) : got[k] = x
        BY <2>1, <2>4, <4>1, <4>2 DEF Covers
      <4> QED
        BY <1>2, <4>3 DEF ToSet
    <3> QED
      BY <3>1, <3>2
  <2> QED
    BY <2>2, <2>3, <2>4 DEF Window, CallAt
<1>4. CASE call[c].pc \notin Busy
  <2>1. got = <<>> /\ ~CallAt(c, "done")
    BY <1>1, <1>4 DEF Fits, Busy, CallAt
  <2> QED
    BY <2>1
<1> QED
  BY <1>3, <1>4

THEOREM HistoriesAreTheirWindows == Spec => []HistoryIsTheWindow
<1>1. Init => HealthInv /\ HistoryInv
  BY CountsInit, HistoryInvInit DEF Init, HealthInv
<1>2. HealthInv /\ HistoryInv /\ [Next]_vars => HealthInv' /\ HistoryInv'
  BY HistoryLeavesHealth, CountsNext, HistoryInvNext
<1> QED
  BY <1>1, <1>2, GatheredIsTheWindow, PTL DEF Spec
=============================================================================
