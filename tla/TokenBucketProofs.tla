------------------------- MODULE TokenBucketProofs -------------------------
(* Proofs about TokenBucket: its types, its rate in every window of time, and *)
(* that it is an ideal bucket.  The bounds on time play no part in them.      *)
EXTENDS TokenBucket, TLAPS

USE BucketAssumption

----------------------------------------------------------------------------
\* The bucket as of now holds a possible amount, no more than was there and has
\* arrived since, and no more than it did before unless something arrived.
LEMMA LevelBounds ==
    ASSUME now \in Nat, updatedAt \in 0..now, tokens \in 0..Full
    PROVE  /\ Level \in 0..Full
           /\ Level <= tokens + (now - updatedAt) * Rate
<1>1. Full \in Nat
  BY DEF Full
<1>2. (now - updatedAt) * Rate \in Nat
  OBVIOUS
<1> QED
  BY <1>1, <1>2 DEF Level

----------------------------------------------------------------------------
(* Types *)

LEMMA TypeInit == Init => TypeOK
<1> SUFFICES ASSUME Init PROVE TypeOK
  OBVIOUS
<1>1. Full \in Nat
  BY DEF Full
<1>2. call \in [Calls -> {"new", "queued", "sleeping", "granted", "cancelled"}]
  BY DEF Init
<1> QED
  BY <1>1, <1>2 DEF Init, TypeOK

LEMMA CutOut ==
    ASSUME NEW S, NEW q \in Seq(S), NEW i \in 1..Len(q)
    PROVE  SubSeq(q, 1, i - 1) \o SubSeq(q, i + 1, Len(q)) \in Seq(S)
<1>1. SubSeq(q, 1, i - 1) \in Seq(S)
  OBVIOUS
<1>2. SubSeq(q, i + 1, Len(q)) \in Seq(S)
  OBVIOUS
<1> QED
  BY <1>1, <1>2

LEMMA CallTypes ==
    ASSUME TypeOK, NEW c \in Calls, Acquire(c) \/ Take(c) \/ Sleep(c) \/ Cancel(c)
    PROVE  TypeOK'
<1> USE DEF TypeOK, bucketVars
<1> Level \in 0..Full /\ Full \in Nat
  BY LevelBounds DEF Full
<1>1. CASE Acquire(c)
  BY <1>1 DEF Acquire
<1>2. CASE Take(c)
  <2>1. queue # <<>> /\ Tail(queue) \in Seq(Calls)
    BY <1>2 DEF Take, AtLoop
  <2>2. grants' \in Seq(0..now)
    BY <1>2 DEF Take
  <2>3. tokens' \in 0..Full
    BY <1>2 DEF Take
  <2> QED
    BY <1>2, <2>1, <2>2, <2>3 DEF Take
<1>3. CASE Sleep(c)
  <2>1. (Unit - Level) \div Rate \in Nat
    BY <1>3 DEF Sleep
  <2> QED
    BY <1>3, <2>1 DEF Sleep
<1>4. CASE Cancel(c)
  <2>1. queue' \in Seq(Calls)
    BY <1>4, CutOut DEF Cancel
  <2> QED
    BY <1>4, <2>1 DEF Cancel
<1> QED
  BY <1>1, <1>2, <1>3, <1>4

LEMMA TypeNext == TypeOK /\ [Next]_vars => TypeOK'
<1> SUFFICES ASSUME TypeOK, [Next]_vars PROVE TypeOK'
  OBVIOUS
<1>1. ASSUME NEW c \in Calls, Acquire(c) \/ Take(c) \/ Sleep(c) \/ Cancel(c)
      PROVE  TypeOK'
  BY <1>1, CallTypes
<1>2. CASE Tick
  <2>1. grants \in Seq(0..now + 1)
    BY DEF TypeOK
  <2> QED
    BY <1>2, <2>1 DEF Tick, TypeOK, bucketVars, Full
<1>3. CASE UNCHANGED vars
  BY <1>3 DEF vars, TypeOK, Full
<1> QED
  BY <1>1, <1>2, <1>3 DEF Next

\* Every variable keeps its type: the bucket is never overdrawn or overfull.
THEOREM BucketTypes == Spec => []TypeOK
<1> QED
  BY TypeInit, TypeNext, PTL DEF Spec

----------------------------------------------------------------------------
(* The rate *)

\* What is left in the bucket and what was taken since grant i together come
\* from a full bucket and what has arrived since.
Window(i) ==
    /\ grants[i] <= updatedAt
    /\ tokens + Unit * (Len(grants) - i + 1) <= Full + Rate * (updatedAt - grants[i])

Windows == \A i \in 1..Len(grants) : Window(i)

IInv == TypeOK /\ Windows /\ RateBound

LEMMA ProductInt == ASSUME NEW a \in Int, NEW b \in Int PROVE a * b \in Int
  OBVIOUS

\* What arrives in a window is what arrives in its parts.
LEMMA ArrivalsAdd ==
    ASSUME NEW g \in Int, NEW u \in Int, NEW t \in Int
    PROVE  Rate * (t - g) = Rate * (u - g) + (t - u) * Rate
  OBVIOUS

LEMMA WindowOf ==
    ASSUME IInv, NEW i \in 1..Len(grants)
    PROVE  /\ grants[i] \in 0..now /\ grants[i] <= updatedAt
           /\ tokens + Unit * (Len(grants) - i + 1) <= Full + Rate * (updatedAt - grants[i])
<1>1. grants[i] \in 0..now
  BY DEF IInv, TypeOK
<1>2. Window(i)
  BY DEF IInv, Windows
<1> QED
  BY <1>1, <1>2 DEF Window

LEMMA RateTake ==
    ASSUME IInv, NEW c \in Calls, Take(c)
    PROVE  Windows' /\ RateBound'
<1>0. PICK n \in Nat : n = Len(grants)
  BY DEF IInv, TypeOK
<1>1. /\ now \in Nat /\ updatedAt \in 0..now /\ tokens \in 0..Full
      /\ grants \in Seq(0..now) /\ n \in Nat /\ n = Len(grants) /\ Full \in Nat
  BY <1>0 DEF IInv, TypeOK, Full
<1>2. /\ grants' = Append(grants, now) /\ updatedAt' = now /\ tokens' = Level - Unit
      /\ Level \in 0..Full /\ Level >= Unit /\ Level <= tokens + (now - updatedAt) * Rate
  BY <1>1, LevelBounds DEF Take
<1>3. /\ Len(grants') = n + 1 /\ grants'[n + 1] = now
      /\ \A i \in 1..n : grants'[i] = grants[i]
  BY <1>1, <1>2
<1>4. Window(n + 1)'
  BY <1>1, <1>2, <1>3 DEF Window, Full
<1>5. ASSUME NEW i \in 1..n PROVE Window(i)'
  <2>1. /\ grants[i] \in 0..now /\ grants[i] <= updatedAt
        /\ tokens + Unit * (n - i + 1) <= Full + Rate * (updatedAt - grants[i])
    BY <1>1, WindowOf
  <2>0. grants[i] \in Int /\ updatedAt \in Int /\ now \in Int /\ n - i + 1 \in Int
    BY <1>1, <2>1
  <2>2. Rate * (now - grants[i]) = Rate * (updatedAt - grants[i]) + (now - updatedAt) * Rate
    BY <2>0, ArrivalsAdd
  <2>3. Unit * (n + 1 - i + 1) = Unit * (n - i + 1) + Unit
    BY <1>1
  <2> DEFINE A == Unit * (n - i + 1)
             B == Rate * (updatedAt - grants[i])
             D == (now - updatedAt) * Rate
  <2>4. A \in Int /\ B \in Int /\ D \in Int /\ Level \in Int /\ tokens \in Int
    <3>1. updatedAt - grants[i] \in Int /\ now - updatedAt \in Int /\ Unit \in Int /\ Rate \in Int
      BY <2>0
    <3>2. Level \in Int /\ tokens \in Int
      BY <1>1, <1>2
    <3> QED
      BY <2>0, <3>1, <3>2, ProductInt
  <2>5. Level - Unit + (A + Unit) <= Full + (B + D)
    <3> HIDE DEF A, B, D
    <3>1. tokens + A <= Full + B
      BY <2>1 DEF A, B
    <3>2. Level <= tokens + D
      BY <1>2 DEF D
    <3> QED
      BY <1>1, <2>4, <3>1, <3>2
  <2> QED
    BY <1>1, <1>2, <1>3, <2>1, <2>2, <2>3, <2>5 DEF Window, Full
<1>6. Windows'
  BY <1>1, <1>3, <1>4, <1>5 DEF Windows
<1>7. RateBound'
  <2> SUFFICES ASSUME NEW i \in 1..(n + 1), NEW j \in 1..(n + 1), i <= j
               PROVE  Unit * (j - i + 1) <= Full + Rate * (grants'[j] - grants'[i])
    BY <1>1, <1>3 DEF RateBound, Full
  <2>1. CASE j = n + 1
    <3>1. Window(i)'
      BY <1>1, <1>4, <1>5
    <3>2. Level - Unit + Unit * (n + 1 - i + 1) <= Full + Rate * (now - grants'[i])
      BY <1>2, <1>3, <3>1 DEF Window, Full
    <3> DEFINE taken == Unit * (n + 1 - i + 1)
               added == Rate * (now - grants'[i])
    <3>3. taken \in Int /\ added \in Int
      <4>1. grants'[i] \in 0..now
        <5>1. \A k \in 1..n : grants[k] \in 0..now
          BY <1>1
        <5>2. i \in 1..n \/ i = n + 1
          BY <1>1
        <5>3. now \in 0..now
          BY <1>1
        <5> QED
          BY <1>3, <5>1, <5>2, <5>3
      <4>2. n + 1 - i + 1 \in Int /\ now - grants'[i] \in Int /\ Unit \in Int /\ Rate \in Int
        BY <1>1, <4>1
      <4> QED
        BY <4>2, ProductInt
    <3>4. Level - Unit + taken <= Full + added
      BY <3>2
    <3>5. taken <= Full + added
      <4> HIDE DEF taken, added
      <4> QED
        BY <1>1, <1>2, <3>3, <3>4
    <3>6. grants'[j] = now
      BY <1>3, <2>1
    <3> QED
      BY <2>1, <3>5, <3>6
  <2>2. CASE j # n + 1
    <3>1. i \in 1..n /\ j \in 1..n
      BY <1>1, <2>2
    <3>2. Unit * (j - i + 1) <= Full + Rate * (grants[j] - grants[i])
      BY <1>1, <3>1 DEF IInv, RateBound
    <3>3. grants'[i] = grants[i] /\ grants'[j] = grants[j]
      BY <1>3, <3>1
    <3> QED
      BY <3>2, <3>3
  <2> QED
    BY <2>1, <2>2
<1> QED
  BY <1>6, <1>7

\* A failed attempt keeps the refill and its time: no window gains by it.
LEMMA RateSleep ==
    ASSUME IInv, NEW c \in Calls, Sleep(c)
    PROVE  Windows' /\ RateBound'
<1>0. PICK n \in Nat : n = Len(grants)
  BY DEF IInv, TypeOK
<1>1. /\ now \in Nat /\ updatedAt \in 0..now /\ tokens \in 0..Full
      /\ grants \in Seq(0..now) /\ n \in Nat /\ n = Len(grants) /\ Full \in Nat
  BY <1>0 DEF IInv, TypeOK, Full
<1>2. /\ grants' = grants /\ updatedAt' = now /\ tokens' = Level
      /\ Level \in 0..Full /\ Level <= tokens + (now - updatedAt) * Rate
  BY <1>1, LevelBounds DEF Sleep
<1>3. ASSUME NEW i \in 1..n PROVE Window(i)'
  <2>1. /\ grants[i] \in 0..now /\ grants[i] <= updatedAt
        /\ tokens + Unit * (n - i + 1) <= Full + Rate * (updatedAt - grants[i])
    BY <1>1, WindowOf
  <2>0. grants[i] \in Int /\ updatedAt \in Int /\ now \in Int /\ n - i + 1 \in Int
    BY <1>1, <2>1
  <2>2. Rate * (now - grants[i]) = Rate * (updatedAt - grants[i]) + (now - updatedAt) * Rate
    BY <2>0, ArrivalsAdd
  <2> DEFINE A == Unit * (n - i + 1)
             B == Rate * (updatedAt - grants[i])
             D == (now - updatedAt) * Rate
  <2>3. A \in Int /\ B \in Int /\ D \in Int /\ Level \in Int /\ tokens \in Int
    <3>1. updatedAt - grants[i] \in Int /\ now - updatedAt \in Int /\ Unit \in Int /\ Rate \in Int
      BY <2>0
    <3>2. Level \in Int /\ tokens \in Int
      BY <1>1, <1>2
    <3> QED
      BY <2>0, <3>1, <3>2, ProductInt
  <2>4. Level + A <= Full + (B + D)
    <3> HIDE DEF A, B, D
    <3>1. tokens + A <= Full + B
      BY <2>1 DEF A, B
    <3>2. Level <= tokens + D
      BY <1>2 DEF D
    <3> QED
      BY <1>1, <2>3, <3>1, <3>2
  <2> QED
    BY <1>1, <1>2, <2>1, <2>2, <2>4 DEF Window, Full
<1>4. Windows'
  BY <1>1, <1>2, <1>3 DEF Windows
<1>5. RateBound'
  BY <1>2 DEF IInv, RateBound, Full
<1> QED
  BY <1>4, <1>5

LEMMA RateNext == IInv /\ [Next]_vars => IInv'
<1> SUFFICES ASSUME IInv, [Next]_vars PROVE IInv'
  OBVIOUS
<1>1. TypeOK'
  BY TypeNext DEF IInv
<1>2. Windows' /\ RateBound'
  <2>1. ASSUME NEW c \in Calls, Take(c) PROVE Windows' /\ RateBound'
    BY <2>1, RateTake
  <2>2. ASSUME NEW c \in Calls, Sleep(c) PROVE Windows' /\ RateBound'
    BY <2>2, RateSleep
  <2>3. CASE UNCHANGED bucketVars
    BY <2>3 DEF IInv, Windows, Window, RateBound, Full, bucketVars
  <2> QED
    BY <2>1, <2>2, <2>3 DEF Next, Tick, Acquire, Cancel, vars, bucketVars
<1> QED
  BY <1>1, <1>2 DEF IInv

\* In no window of time are more tokens taken than a full bucket and what the
\* window adds, for every rate, capacity, number of calls and interleaving.
THEOREM BucketRate == Spec => []RateBound
<1>1. Init => IInv
  BY TypeInit DEF Init, IInv, Windows, RateBound
<1>2. IInv => RateBound
  BY DEF IInv
<1> QED
  BY <1>1, <1>2, RateNext, PTL DEF Spec

----------------------------------------------------------------------------
(* The ideal bucket *)

\* A step of the clock fills the bucket as the timer of an ideal one would.
LEMMA TickFills ==
    ASSUME TypeOK, Tick
    PROVE  Ideal!Fill
<1> DEFINE D == (now - updatedAt) * Rate
<1>1. /\ now \in Nat /\ updatedAt \in 0..now /\ tokens \in 0..Full /\ Full \in Nat
      /\ now' = now + 1 /\ updatedAt' = updatedAt /\ tokens' = tokens
  BY DEF TypeOK, Tick, bucketVars, Full
<1>2. (now' - updatedAt) * Rate = D + Rate
  BY <1>1
<1>3. D \in Nat
  BY <1>1
<1>4. Level = IF tokens + D <= Full THEN tokens + D ELSE Full
  BY DEF Level
<1>5. Level' = IF tokens + (D + Rate) <= Full THEN tokens + (D + Rate) ELSE Full
  BY <1>1, <1>2 DEF Level, Full
<1> HIDE DEF D
<1> QED
  BY <1>1, <1>3, <1>4, <1>5 DEF Ideal!Fill

\* An attempt leaves the level of the moment, less the token it takes.
LEMMA AttemptIsIdeal ==
    ASSUME TypeOK, NEW c \in Calls, Take(c) \/ Sleep(c)
    PROVE  Ideal!Take \/ Level' = Level
<1>1. /\ now \in Nat /\ updatedAt \in 0..now /\ tokens \in 0..Full /\ Full \in Nat
      /\ Level \in 0..Full
  BY LevelBounds DEF TypeOK, Full
<1>2. updatedAt' = now /\ now' = now
  BY DEF Take, Sleep
<1>3. ASSUME tokens' \in 0..Full PROVE Level' = tokens'
  <2>1. (now' - updatedAt') * Rate = 0 /\ tokens' \in Int
    BY <1>1, <1>2, <1>3
  <2>2. Level' = IF tokens' + (now' - updatedAt') * Rate <= Full
                 THEN tokens' + (now' - updatedAt') * Rate ELSE Full
    BY DEF Level, Full
  <2> QED
    BY <1>1, <1>3, <2>1, <2>2
<1>4. CASE Take(c)
  BY <1>1, <1>3, <1>4 DEF Take, Ideal!Take
<1>5. CASE Sleep(c)
  BY <1>1, <1>3, <1>5 DEF Sleep
<1> QED
  BY <1>4, <1>5

\* The bucket that refills on demand implements the one that a timer fills.
THEOREM BucketIsIdeal == Spec => IsIdeal
<1>1. Init => Level = Full
  BY DEF Init, Level, Full
<1>2. TypeOK /\ [Next]_vars => [Ideal!Fill \/ Ideal!Take]_Level
  <2> SUFFICES ASSUME TypeOK, [Next]_vars
               PROVE  Ideal!Fill \/ Ideal!Take \/ Level' = Level
    OBVIOUS
  <2>1. ASSUME NEW c \in Calls, Take(c) \/ Sleep(c)
        PROVE  Ideal!Take \/ Level' = Level
    BY <2>1, AttemptIsIdeal
  <2>2. CASE Tick
    BY <2>2, TickFills
  <2>3. CASE UNCHANGED <<now, bucketVars>>
    BY <2>3 DEF Level, Full, bucketVars
  <2> QED
    BY <2>1, <2>2, <2>3 DEF Next, Acquire, Cancel, vars, bucketVars
<1> QED
  BY <1>1, <1>2, BucketTypes, PTL DEF Spec, IsIdeal, Ideal!IdealSpec
=============================================================================
