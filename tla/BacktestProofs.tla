--------------------------- MODULE BacktestProofs ---------------------------
(***************************************************************************)
(* Proofs about the backtest: its trades end in time and its books         *)
(* balance, for all strategies, candles, fees, slips and requests.         *)
(*                                                                         *)
(* The library's induction theorems take an operator; here induction is    *)
(* over sets, of numbers or of subsets, which a lemma can be given.        *)
(***************************************************************************)
EXTENDS BacktestTools, FiniteSetTheorems, SequenceTheorems, WellFoundedInduction, TLAPS

LEMMA LeastNatural ==
    ASSUME NEW T, T \subseteq Nat, T # {}
    PROVE  \E x \in T : \A y \in T : x <= y
<1>1. PICK x \in T : \A y \in T : <<y, x>> \notin OpToRel(<, Nat)
  BY NatLessThanWellFounded, WFMin
<1>2. \A y \in T : y \in Nat /\ ~(y < x)
  BY <1>1 DEF OpToRel
<1>3. \A y \in T : x <= y
  BY <1>2
<1> QED
  BY <1>3

LEMMA NatSetInduction ==
    ASSUME NEW Good, 0 \in Good, \A n \in Nat : n \in Good => n + 1 \in Good
    PROVE  \A n \in Nat : n \in Good
<1> SUFFICES ASSUME NEW z \in Nat, z \notin Good PROVE FALSE
  OBVIOUS
<1> DEFINE Bad == {n \in Nat : n \notin Good}
<1>1. PICK n \in Bad : \A m \in Bad : n <= m
  <2>1. Bad \subseteq Nat /\ Bad # {}
    OBVIOUS
  <2> HIDE DEF Bad
  <2> QED
    BY <2>1, LeastNatural
<1>2. n # 0 /\ n - 1 \in Nat /\ ~(n <= n - 1) /\ (n - 1) + 1 = n
  OBVIOUS
<1>3. n - 1 \in Good
  BY <1>1, <1>2
<1> QED
  BY <1>2, <1>3

LEMMA SubsetInduction ==
    ASSUME NEW S, IsFiniteSet(S), NEW Good,
           \A T \in SUBSET S : (\A x \in T : T \ {x} \in Good) => T \in Good
    PROVE  \A T \in SUBSET S : T \in Good
<1> SUFFICES ASSUME NEW Z \in SUBSET S, Z \notin Good PROVE FALSE
  OBVIOUS
<1> DEFINE Bad == {T \in SUBSET S : T \notin Good}
           Sizes == {n \in Nat : \E T \in Bad : Cardinality(T) = n}
<1>1. \A T \in SUBSET S : IsFiniteSet(T) /\ Cardinality(T) \in Nat
  BY FS_Subset, FS_CardinalityType
<1>2. Cardinality(Z) \in Sizes
  BY <1>1
<1>3. PICK n \in Sizes : \A m \in Sizes : n <= m
  <2>1. Sizes \subseteq Nat /\ Sizes # {}
    BY <1>2
  <2> HIDE DEF Sizes
  <2> QED
    BY <2>1, LeastNatural
<1>4. PICK T \in Bad : Cardinality(T) = n
  OBVIOUS
<1>5. PICK x \in T : T \ {x} \notin Good
  BY <1>4
<1>6. /\ T \ {x} \in Bad
      /\ Cardinality(T \ {x}) = Cardinality(T) - 1 /\ Cardinality(T \ {x}) \in Nat
  BY <1>1, <1>4, <1>5, FS_RemoveElement
<1>7. Cardinality(T \ {x}) \in Sizes
  BY <1>6
<1> QED
  BY <1>3, <1>4, <1>6, <1>7

LEMMA MaxIsLargest ==
    ASSUME NEW S, S \subseteq Int, IsFiniteSet(S), S # {}
    PROVE  Max(S) \in S /\ \A y \in S : y <= Max(S)
<1> DEFINE Good == {T \in SUBSET S : T = {} \/ \E x \in T : \A y \in T : y <= x}
<1>1. ASSUME NEW T \in SUBSET S, \A x \in T : T \ {x} \in Good PROVE T \in Good
  <2>1. CASE T = {}
    BY <2>1
  <2>2. CASE T # {}
    <3>1. PICK x \in T : TRUE
      BY <2>2
    <3>2. x \in Int /\ \A y \in T : y \in Int
      OBVIOUS
    <3>3. CASE T \ {x} = {}
      <4>1. \A y \in T : y <= x
        BY <3>1, <3>2, <3>3
      <4> QED
        BY <3>1, <4>1
    <3>4. CASE T \ {x} # {}
      <4>1. PICK z \in T \ {x} : \A y \in T \ {x} : y <= z
        BY <1>1, <3>1, <3>4
      <4>2. CASE x <= z
        <5>1. \A y \in T : y <= z
          BY <4>1, <4>2
        <5> QED
          BY <4>1, <5>1
      <4>3. CASE z <= x
        <5>1. \A y \in T : y <= x
          BY <3>2, <4>1, <4>3
        <5> QED
          BY <3>1, <5>1
      <4> QED
        BY <3>2, <4>1, <4>2, <4>3
    <3> QED
      BY <3>3, <3>4
  <2> QED
    BY <2>1, <2>2
<1>2. S \in Good
  <2> HIDE DEF Good
  <2> QED
    BY <1>1, SubsetInduction
<1>3. PICK x \in S : \A y \in S : y <= x
  BY <1>2
<1>4. \A y \in S : y \in Int
  OBVIOUS
<1>5. \A y \in S : x >= y
  BY <1>3, <1>4
<1>6. Max(S) \in S /\ \A y \in S : Max(S) >= y
  BY <1>5 DEF Max
<1> HIDE DEF Max
<1> QED
  BY <1>4, <1>6

-----------------------------------------------------------------------------
(* Sums over sets of indices: what SumOf is, whatever the order.           *)

Chosen(T) == CHOOSE x \in T : TRUE

SumStep(g, f, T) == IF T = {} THEN 0 ELSE f[Chosen(T)] + g[T \ {Chosen(T)}]

SumOn(g, f, D) == g = [T \in D |-> SumStep(g, f, T)]

LEMMA ChosenIsIn ==
    ASSUME NEW T, T # {}
    PROVE  Chosen(T) \in T
  BY DEF Chosen

LEMMA SumOnApplies ==
    ASSUME NEW g, NEW f, NEW D, SumOn(g, f, D), NEW T \in D
    PROVE  g[T] = SumStep(g, f, T)
<1>1. g = [Z \in D |-> SumStep(g, f, Z)]
  BY DEF SumOn
<1>2. [Z \in D |-> SumStep(g, f, Z)][T] = SumStep(g, f, T)
  OBVIOUS
<1> QED
  BY <1>1, <1>2

\* A sum over subsets of one size gives one over those of the next.
LEMMA SumExists ==
    ASSUME NEW f, NEW S, IsFiniteSet(S)
    PROVE  \E g : SumOn(g, f, SUBSET S)
<1> DEFINE Small(n) == {T \in SUBSET S : Cardinality(T) <= n}
           Good == {n \in Nat : \E g : SumOn(g, f, Small(n))}
<1>1. \A T \in SUBSET S : IsFiniteSet(T) /\ Cardinality(T) \in Nat
  BY FS_Subset, FS_CardinalityType
<1>2. 0 \in Good
  <2> DEFINE g == [T \in Small(0) |-> 0]
  <2>1. ASSUME NEW T \in Small(0) PROVE SumStep(g, f, T) = 0
    <3>1. T = {}
      BY <1>1, FS_EmptySet
    <3> QED
      BY <3>1 DEF SumStep
  <2>2. g = [T \in Small(0) |-> SumStep(g, f, T)]
    <3> HIDE DEF Small
    <3>1. \A T \in Small(0) : SumStep(g, f, T) = 0
      BY <2>1
    <3> QED
      BY <3>1
  <2> HIDE DEF g
  <2> QED
    BY <2>2 DEF SumOn
<1>3. ASSUME NEW n \in Nat, n \in Good PROVE n + 1 \in Good
  <2>1. PICK g : SumOn(g, f, Small(n))
    BY <1>3
  <2> DEFINE h == [T \in Small(n + 1) |-> SumStep(g, f, T)]
  <2>2. ASSUME NEW T \in Small(n + 1) PROVE SumStep(h, f, T) = SumStep(g, f, T)
    <3>1. CASE T = {}
      BY <3>1 DEF SumStep
    <3>2. CASE T # {}
      <4> DEFINE rest == T \ {Chosen(T)}
      <4>1. Chosen(T) \in T
        BY <3>2, ChosenIsIn
      <4>2. Cardinality(rest) = Cardinality(T) - 1
        BY <1>1, <4>1, FS_RemoveElement
      <4>3. rest \in SUBSET S /\ Cardinality(rest) <= n /\ Cardinality(rest) <= n + 1
        BY <1>1, <4>1, <4>2
      <4>4. rest \in Small(n) /\ rest \in Small(n + 1)
        BY <4>3
      <4>5. h[rest] = SumStep(g, f, rest)
        <5> HIDE DEF Small, rest
        <5> QED
          BY <4>4
      <4>6. g[rest] = SumStep(g, f, rest)
        <5> HIDE DEF Small, rest
        <5> QED
          BY <2>1, <4>4, SumOnApplies
      <4> HIDE DEF h
      <4> QED
        BY <3>2, <4>5, <4>6 DEF SumStep
    <3> QED
      BY <3>1, <3>2
  <2>3. h = [T \in Small(n + 1) |-> SumStep(h, f, T)]
    <3> HIDE DEF Small
    <3> QED
      BY <2>2
  <2>4. SumOn(h, f, Small(n + 1))
    <3> HIDE DEF h
    <3> QED
      BY <2>3 DEF SumOn
  <2>5. n + 1 \in Nat /\ \E k : SumOn(k, f, Small(n + 1))
    <3> HIDE DEF h, Small
    <3> QED
      BY <2>4
  <2> HIDE DEF h, Small
  <2> QED
    BY <2>5
<1>4. Cardinality(S) \in Good
  <2> HIDE DEF Good
  <2> QED
    BY <1>1, <1>2, <1>3, NatSetInduction
<1>5. Small(Cardinality(S)) = SUBSET S
  BY FS_Subset
<1> QED
  BY <1>4, <1>5

\* The chosen sum over the subsets of S, and the same for every larger S.
SumIn(f, S) == CHOOSE g : SumOn(g, f, SUBSET S)

LEMMA SumOfIs ==
    ASSUME NEW f, NEW S
    PROVE  SumOf(f, S) = SumIn(f, S)[S]
  BY DEF SumOf, MapThenSumSet, MapThenFoldSet, SumIn, SumOn, SumStep, Chosen

LEMMA SumInAgrees ==
    ASSUME NEW f, NEW S, IsFiniteSet(S), NEW T \in SUBSET S
    PROVE  SumIn(f, S)[T] = SumOf(f, T)
<1> DEFINE g == SumIn(f, S)
           h == SumIn(f, T)
           Good == {Z \in SUBSET T : g[Z] = h[Z]}
<1>1. IsFiniteSet(T)
  BY FS_Subset
<1>2. SumOn(g, f, SUBSET S) /\ SumOn(h, f, SUBSET T)
  BY <1>1, SumExists DEF SumIn
<1> HIDE DEF g, h
<1>3. ASSUME NEW Z \in SUBSET T, \A x \in Z : Z \ {x} \in Good PROVE Z \in Good
  <2>1. g[Z] = SumStep(g, f, Z) /\ h[Z] = SumStep(h, f, Z)
    BY <1>2, SumOnApplies
  <2>2. Z # {} => g[Z \ {Chosen(Z)}] = h[Z \ {Chosen(Z)}]
    BY <1>3, ChosenIsIn
  <2> QED
    BY <2>1, <2>2 DEF SumStep
<1>4. T \in Good
  <2> HIDE DEF Good
  <2> QED
    BY <1>1, <1>3, SubsetInduction
<1> QED
  BY <1>4, SumOfIs DEF g, h

\* A sum is nothing, or the chosen element's share and the sum of the rest.
LEMMA SumUnfolds ==
    ASSUME NEW f, NEW T, IsFiniteSet(T)
    PROVE  /\ T = {} => SumOf(f, T) = 0
           /\ T # {} => /\ Chosen(T) \in T
                        /\ SumOf(f, T) = f[Chosen(T)] + SumOf(f, T \ {Chosen(T)})
<1> DEFINE g == SumIn(f, T)
<1>1. SumOn(g, f, SUBSET T)
  BY SumExists DEF SumIn
<1>2. g[T] = SumStep(g, f, T)
  <2> HIDE DEF g
  <2> QED
    BY <1>1, SumOnApplies
<1>3. g[T \ {Chosen(T)}] = SumOf(f, T \ {Chosen(T)})
  BY SumInAgrees
<1> HIDE DEF g
<1> QED
  BY <1>2, <1>3, SumOfIs, ChosenIsIn DEF g, SumStep

LEMMA SumIsInt ==
    ASSUME NEW f, NEW S, IsFiniteSet(S), \A x \in S : f[x] \in Int
    PROVE  SumOf(f, S) \in Int
<1> DEFINE Good == {T \in SUBSET S : SumOf(f, T) \in Int}
<1>1. ASSUME NEW T \in SUBSET S, \A x \in T : T \ {x} \in Good PROVE T \in Good
  <2>1. IsFiniteSet(T)
    BY FS_Subset
  <2>2. CASE T = {}
    <3>1. SumOf(f, T) = 0
      BY <2>1, <2>2, SumUnfolds
    <3> QED
      BY <3>1
  <2>3. CASE T # {}
    <3>1. Chosen(T) \in T /\ SumOf(f, T) = f[Chosen(T)] + SumOf(f, T \ {Chosen(T)})
      BY <2>1, <2>3, SumUnfolds
    <3>2. SumOf(f, T \ {Chosen(T)}) \in Int /\ f[Chosen(T)] \in Int
      BY <1>1, <3>1
    <3> QED
      BY <3>1, <3>2
  <2> QED
    BY <2>2, <2>3
<1>2. \A T \in SUBSET S : T \in Good
  <2> HIDE DEF Good
  <2> QED
    BY <1>1, SubsetInduction
<1> QED
  BY <1>2

\* Any element may be taken out first.
LEMMA SumTakesOut ==
    ASSUME NEW f, NEW S, IsFiniteSet(S), \A x \in S : f[x] \in Int
    PROVE  \A x \in S : SumOf(f, S) = f[x] + SumOf(f, S \ {x})
<1> DEFINE Good == {T \in SUBSET S : \A x \in T : SumOf(f, T) = f[x] + SumOf(f, T \ {x})}
<1>1. \A T \in SUBSET S : IsFiniteSet(T) /\ SumOf(f, T) \in Int
  BY FS_Subset, SumIsInt
<1>2. ASSUME NEW T \in SUBSET S, \A x \in T : T \ {x} \in Good PROVE T \in Good
  <2> SUFFICES ASSUME NEW x \in T PROVE SumOf(f, T) = f[x] + SumOf(f, T \ {x})
    BY <1>2
  <2> DEFINE c == Chosen(T)
  <2>1. c \in T /\ SumOf(f, T) = f[c] + SumOf(f, T \ {c})
    BY <1>1, SumUnfolds
  <2> HIDE DEF c
  <2>2. CASE x = c
    BY <2>1, <2>2
  <2>3. CASE x # c
    <3>1. x \in T \ {c} /\ c \in T \ {x} /\ T \ {c} \in Good /\ T \ {x} \in Good
      BY <1>2, <2>1, <2>3
    <3>2. /\ SumOf(f, T \ {c}) = f[x] + SumOf(f, (T \ {c}) \ {x})
          /\ SumOf(f, T \ {x}) = f[c] + SumOf(f, (T \ {x}) \ {c})
      BY <3>1
    <3>3. (T \ {c}) \ {x} = (T \ {x}) \ {c} /\ (T \ {c}) \ {x} \in SUBSET S
      OBVIOUS
    <3>4. SumOf(f, (T \ {c}) \ {x}) \in Int /\ f[x] \in Int /\ f[c] \in Int
      BY <1>1, <2>1, <3>3
    <3>5. SumOf(f, (T \ {c}) \ {x}) = SumOf(f, (T \ {x}) \ {c})
      BY <3>3
    <3> QED
      BY <2>1, <3>2, <3>4, <3>5
  <2> QED
    BY <2>2, <2>3
<1>3. \A T \in SUBSET S : T \in Good
  <2> HIDE DEF Good
  <2> QED
    BY <1>2, SubsetInduction
<1> QED
  BY <1>3

\* Only what is summed matters.
LEMMA SumIsOfValues ==
    ASSUME NEW f, NEW h, NEW S, IsFiniteSet(S), \A x \in S : f[x] = h[x]
    PROVE  SumOf(f, S) = SumOf(h, S)
<1> DEFINE Good == {T \in SUBSET S : SumOf(f, T) = SumOf(h, T)}
<1>1. ASSUME NEW T \in SUBSET S, \A x \in T : T \ {x} \in Good PROVE T \in Good
  <2>1. IsFiniteSet(T)
    BY FS_Subset
  <2>2. CASE T = {}
    BY <2>1, <2>2, SumUnfolds
  <2>3. CASE T # {}
    <3>1. /\ Chosen(T) \in T
          /\ SumOf(f, T) = f[Chosen(T)] + SumOf(f, T \ {Chosen(T)})
          /\ SumOf(h, T) = h[Chosen(T)] + SumOf(h, T \ {Chosen(T)})
      BY <2>1, <2>3, SumUnfolds
    <3>2. SumOf(f, T \ {Chosen(T)}) = SumOf(h, T \ {Chosen(T)}) /\ f[Chosen(T)] = h[Chosen(T)]
      BY <1>1, <3>1
    <3> QED
      BY <3>1, <3>2
  <2> QED
    BY <2>2, <2>3
<1>2. \A T \in SUBSET S : T \in Good
  <2> HIDE DEF Good
  <2> QED
    BY <1>1, SubsetInduction
<1> QED
  BY <1>2

LEMMA SumSigns ==
    ASSUME NEW f, NEW S, IsFiniteSet(S), \A x \in S : f[x] \in Int /\ f[x] >= 0
    PROVE  /\ SumOf(f, S) \in Int /\ SumOf(f, S) >= 0
           /\ \A x \in S : f[x] <= SumOf(f, S)
<1> DEFINE Good == {T \in SUBSET S : SumOf(f, T) >= 0}
<1>0. \A T \in SUBSET S : IsFiniteSet(T) /\ SumOf(f, T) \in Int
  BY FS_Subset, SumIsInt
<1>1. ASSUME NEW T \in SUBSET S, \A x \in T : T \ {x} \in Good PROVE T \in Good
  <2>2. CASE T = {}
    <3>1. SumOf(f, T) = 0
      BY <1>0, <2>2, SumUnfolds
    <3> QED
      BY <3>1
  <2>3. CASE T # {}
    <3> DEFINE c == Chosen(T)
    <3>1. c \in T /\ SumOf(f, T) = f[c] + SumOf(f, T \ {c})
      BY <1>0, <2>3, SumUnfolds
    <3>2. SumOf(f, T \ {c}) >= 0 /\ SumOf(f, T \ {c}) \in Int /\ f[c] >= 0 /\ f[c] \in Int
      BY <1>0, <1>1, <3>1
    <3> HIDE DEF c
    <3> QED
      BY <3>1, <3>2
  <2> QED
    BY <2>2, <2>3
<1>2. \A T \in SUBSET S : T \in Good
  <2> HIDE DEF Good
  <2> QED
    BY <1>1, SubsetInduction
<1>3. ASSUME NEW x \in S PROVE f[x] <= SumOf(f, S)
  <2>1. SumOf(f, S) = f[x] + SumOf(f, S \ {x})
    BY SumTakesOut
  <2>2. SumOf(f, S \ {x}) \in Int /\ SumOf(f, S \ {x}) >= 0 /\ f[x] \in Int
    BY <1>0, <1>2
  <2> QED
    BY <2>1, <2>2
<1> QED
  BY <1>0, <1>2, <1>3

\* The sum over two parts is the sum of their sums.
LEMMA SumOfParts ==
    ASSUME NEW f, NEW S, IsFiniteSet(S), \A x \in S : f[x] \in Int, NEW A \in SUBSET S
    PROVE  SumOf(f, S) = SumOf(f, A) + SumOf(f, S \ A)
<1> DEFINE Good == {T \in SUBSET A : SumOf(f, S) = SumOf(f, T) + SumOf(f, S \ T)}
<1>0. \A T \in SUBSET S : IsFiniteSet(T) /\ SumOf(f, T) \in Int
  BY FS_Subset, SumIsInt
<1>1. ASSUME NEW T \in SUBSET A, \A x \in T : T \ {x} \in Good PROVE T \in Good
  <2>2. CASE T = {}
    <3>1. SumOf(f, T) = 0 /\ S \ T = S
      BY <1>0, <2>2, SumUnfolds
    <3>2. SumOf(f, S \ T) = SumOf(f, S) /\ SumOf(f, S) \in Int
      BY <1>0, <3>1
    <3>3. SumOf(f, S) = SumOf(f, T) + SumOf(f, S \ T)
      BY <3>1, <3>2
    <3> QED
      BY <3>3
  <2>3. CASE T # {}
    <3> DEFINE c == Chosen(T)
               part == T \ {c}
               rest == S \ part
    <3>1. c \in T /\ c \in S /\ SumOf(f, T) = f[c] + SumOf(f, part)
      BY <1>0, <2>3, SumUnfolds
    <3>2. SumOf(f, S) = SumOf(f, part) + SumOf(f, rest)
      BY <1>1, <3>1
    <3>3. c \in rest /\ rest \in SUBSET S /\ rest \ {c} = S \ T /\ S \ T \in SUBSET S
          /\ part \in SUBSET S
      BY <3>1
    <3> HIDE DEF c, part, rest
    <3>4. SumOf(f, rest) = f[c] + SumOf(f, rest \ {c})
      <4>1. IsFiniteSet(rest) /\ \A x \in rest : f[x] \in Int
        BY <1>0, <3>3
      <4> QED
        BY <3>3, <4>1, SumTakesOut
    <3>5. SumOf(f, rest \ {c}) = SumOf(f, S \ T)
      BY <3>3
    <3>6. f[c] \in Int /\ SumOf(f, part) \in Int /\ SumOf(f, S \ T) \in Int
      BY <1>0, <3>1, <3>3
    <3> QED
      BY <3>1, <3>2, <3>4, <3>5, <3>6
  <2> QED
    BY <2>2, <2>3
<1>2. IsFiniteSet(A)
  BY <1>0
<1>3. \A T \in SUBSET A : T \in Good
  <2> HIDE DEF Good
  <2> QED
    BY <1>1, <1>2, SubsetInduction
<1> QED
  BY <1>3
-----------------------------------------------------------------------------
(* The invariant of a run over the bars.                                   *)

Trade == [side : STRING, entry : Int, exit : Int, size : Int,
          opened : Int, closed : Int, pnl : Int, credit : Int]

\* The variables have their types; only what was accepted is a report.
SimTypeOK ==
    /\ phase \in {"idle", "running", "report", "failed"}
    /\ bars \in Seq(Bar) /\ bar \in 0 .. Len(bars)
    /\ equity \in Int
    /\ position = Null \/ position \in Positions
    /\ trades \in Seq(Trade)
    /\ curve \in Seq(Int) /\ Len(curve) = bar
    /\ IF phase = "idle" THEN bar = 0 ELSE SpecTyped(spec) /\ Parses(spec)
    /\ phase \in {"running", "report"} => Len(bars) >= MinCandles
    /\ phase = "report" => /\ position = Null /\ bar = Len(bars)
                           /\ InitialEquity > 0 /\ curve[1] = InitialEquity

\* Only a comparison goes on without having parsed the strategy first.
RequestOK ==
    /\ at \in Nat
    /\ request = Null \/ request \in Requests
    /\ request # Null /\ answer = "none" /\ request.tool = "stress" => Parses(request.jobs[1].spec)

\* What strategy s sets as the levels of a position or a trade, and the bars
\* that close a position with such levels.
LevelsOf(s, p) == {Level(p.entry, s.take_profit, p.side = "long"),
                   Level(p.entry, s.stop_loss, p.side # "long")}

Tells(s, h, held, i) ==
    \/ \E level \in held : level # Null /\ h[i].low <= level /\ level <= h[i].high
    \/ ExitSignal(s, i, h) = "true"

InTime(s, h, t) ==
    /\ \A i \in t.opened + 1 .. t.closed - 1 : ~Tells(s, h, LevelsOf(s, t), i)
    /\ t.closed < Len(h) => t.closed > t.opened /\ Tells(s, h, LevelsOf(s, t), t.closed)
    /\ t.exit \in LevelsOf(s, t) \/ t.exit = Slipped(h[t.closed].close, t.side, FALSE)

\* One trade after the other, each within the bars seen.
Ordered ==
    /\ \A k \in DOMAIN trades : /\ 1 <= trades[k].opened /\ trades[k].opened <= trades[k].closed
                                /\ trades[k].closed <= bar
    /\ \A j, k \in DOMAIN trades : j < k => trades[j].closed < trades[k].opened

\* The open position came after every trade, and no bar since told it to close.
Holding ==
    position # Null =>
        /\ 1 <= position.opened /\ position.opened <= bar
        /\ \A k \in DOMAIN trades : trades[k].closed < position.opened
        /\ {position.take, position.stop} = LevelsOf(spec, position)
        /\ \A i \in position.opened + 1 .. bar : ~Tells(spec, bars, LevelsOf(spec, position), i)

Timely == (\A k \in DOMAIN trades : InTime(spec, bars, trades[k])) /\ Ordered /\ Holding

\* The money after the first k trades.
Balance(ts, k) == InitialEquity + SumOf(PnL(ts), 1 .. k)

\* Where the curve shows the balances: at a close, and before an entry.
Shown(c, ts, k) ==
    /\ c[ts[k].closed] = Balance(ts, k)
    /\ IF ts[k].opened = 1 THEN k = 1 ELSE c[ts[k].opened - 1] = Balance(ts, k - 1)

OnCurve ==
    /\ \A k \in DOMAIN trades : Shown(curve, trades, k)
    /\ position # Null =>
          IF position.opened = 1 THEN trades = <<>>
          ELSE curve[position.opened - 1] = Balance(trades, Len(trades))
    /\ position = Null /\ bar > 0 => curve[bar] = equity

Accounts ==
    phase \in {"running", "report"} =>
        /\ equity = Balance(trades, Len(trades)) - (IF position = Null THEN 0 ELSE position.fee)
        /\ OnCurve

BacktestInv == SimTypeOK /\ RequestOK /\ Timely /\ Accounts

-----------------------------------------------------------------------------
(* What the helpers of the simulator return.                               *)

LEMMA RateIsInt ==
    ASSUME NEW a \in Int, NEW r \in Int
    PROVE  Rate(a, r) \in Int
<1> DEFINE n == a * r
<1>1. n \in Int
  OBVIOUS
<1> HIDE DEF n
<1>2. n \div 100 \in Int
  BY <1>1
<1> QED
  BY <1>2 DEF Rate, n

LEMMA SlippedIsInt ==
    ASSUME NEW price \in Int, NEW side, NEW isEntry
    PROVE  Slipped(price, side, isEntry) \in Int
<1>1. Rate(price, Slippage) \in Int
  BY RateIsInt, SimAssumption
<1> QED
  BY <1>1 DEF Slipped

LEMMA FeeIsInt ==
    ASSUME NEW size \in Int, NEW price \in Int
    PROVE  FeeOf(size, price) \in Int
<1>1. Fee * size \in Int
  BY SimAssumption
<1>2. (Fee * size) * price \in Int
  BY <1>1
<1> QED
  BY <1>2 DEF FeeOf

LEMMA GrossIsInt ==
    ASSUME NEW size \in Int, NEW from \in Int, NEW to \in Int, NEW side
    PROVE  Gross(side, size, from, to) \in Int
<1> DEFINE d == IF side = "long" THEN to - from ELSE from - to
<1>1. d \in Int /\ 100 * size \in Int
  OBVIOUS
<1> HIDE DEF d
<1>2. (100 * size) * d \in Int
  BY <1>1
<1> QED
  BY <1>2 DEF Gross, d

LEMMA LevelIsPrice ==
    ASSUME NEW fill \in Int, NEW pct \in Int \union {Null}, NEW up
    PROVE  Level(fill, pct, up) \in Int \union {Null}
<1>1. CASE pct = Null
  BY <1>1 DEF Level
<1>2. CASE pct # Null
  <2>1. Rate(fill, pct) \in Int
    BY <1>2, RateIsInt
  <2> QED
    BY <1>2, <2>1 DEF Level
<1> QED
  BY <1>1, <1>2

LEMMA CandleIsBar ==
    ASSUME SimTypeOK, bar < Len(bars)
    PROVE  /\ bar + 1 \in 1 .. Len(bars)
           /\ Candle.close \in Int
<1>1. bar + 1 \in 1 .. Len(bars) /\ bars \in Seq(Bar)
  BY DEF SimTypeOK
<1>2. bars[bar + 1] \in Bar
  BY <1>1
<1>3. Candle.close \in Int
  BY <1>2 DEF Candle, Bar
<1> QED
  BY <1>1, <1>3

LEMMA LotsIsInt ==
    ASSUME SimTypeOK, phase # "idle", NEW fill \in Int, fill > 0
    PROVE  Lots(fill) \in Int
<1> DEFINE unit == 100 * fill
           up == Rate(equity, spec.size_pct)
           down == Rate(-equity, spec.size_pct)
<1>1. equity \in Int /\ -equity \in Int /\ spec.size_pct \in Int
  BY DEF SimTypeOK, SpecTyped
<1>2. up \in Int /\ down \in Int
  <2>1. up \in Int
    BY <1>1, RateIsInt
  <2>2. down \in Int
    BY <1>1, RateIsInt
  <2> QED
    BY <2>1, <2>2
<1>3. unit \in Int /\ unit > 0
  OBVIOUS
<1> HIDE DEF unit, up, down
<1>4. up \div unit \in Int /\ -(down \div unit) \in Int
  BY <1>2, <1>3
<1> QED
  BY <1>4 DEF Lots, unit, up, down

\* A position is opened with the levels and the fee of its fill.
LEMMA OpenedIsPosition ==
    ASSUME SimTypeOK, Running, ~Skipped
    PROVE  /\ Opened \in Positions
           /\ Opened.opened = bar + 1
           /\ {Opened.take, Opened.stop} = LevelsOf(spec, Opened)
           /\ Mark(Opened, equity - Opened.fee, Candle.close) \in Int
<1>1. Candle.close \in Int /\ phase # "idle" /\ bar \in Int /\ equity \in Int /\ SpecTyped(spec)
  BY CandleIsBar DEF Running, SimTypeOK
<1>2. Fill \in Int /\ Fill > 0
  <2>1. Fill \in Int
    BY <1>1, SlippedIsInt DEF Fill
  <2> QED
    BY <2>1 DEF Skipped
<1>3. Lots(Fill) \in Int
  BY <1>1, <1>2, LotsIsInt
<1>4. FeeOf(Lots(Fill), Fill) \in Int
  BY <1>2, <1>3, FeeIsInt
<1>5. /\ Level(Fill, spec.take_profit, spec.side = "long") \in Int \union {Null}
      /\ Level(Fill, spec.stop_loss, spec.side # "long") \in Int \union {Null}
  BY <1>1, <1>2, LevelIsPrice DEF SpecTyped
<1>6. spec.side \in STRING /\ bar + 1 \in Int
  BY <1>1 DEF SpecTyped
<1>7. Opened \in Positions
  BY <1>2, <1>3, <1>4, <1>5, <1>6 DEF Opened, Positions
<1>8. /\ Opened.opened = bar + 1 /\ Opened.side = spec.side /\ Opened.entry = Fill
      /\ Opened.take = Level(Fill, spec.take_profit, spec.side = "long")
      /\ Opened.stop = Level(Fill, spec.stop_loss, spec.side # "long")
  BY DEF Opened
<1>9. Mark(Opened, equity - Opened.fee, Candle.close) \in Int
  <2>1. Opened.size \in Int /\ Opened.entry \in Int /\ Opened.fee \in Int
    BY <1>7 DEF Positions
  <2>2. Gross(Opened.side, Opened.size, Opened.entry, Candle.close) \in Int
    BY <1>1, <2>1, GrossIsInt
  <2> HIDE DEF Opened
  <2> QED
    BY <1>1, <2>1, <2>2 DEF Mark
<1> QED
  BY <1>7, <1>8, <1>9 DEF LevelsOf

\* A trade has the side, the entry and the levels of the position it closes;
\* its pnl is what the account is credited with, less the fee of the entry.
LEMMA ClosingIsTrade ==
    ASSUME position \in Positions, NEW price \in Int, NEW atBar \in Int
    PROVE  LET t == Closing(price, atBar)
           IN  /\ t \in Trade
               /\ t.opened = position.opened /\ t.closed = atBar /\ t.exit = price
               /\ t.side = position.side
               /\ LevelsOf(spec, t) = LevelsOf(spec, position)
               /\ t.pnl = t.credit - position.fee
<1>1. /\ position.side \in STRING /\ position.entry \in Int /\ position.size \in Int
      /\ position.opened \in Int /\ position.fee \in Int
  BY DEF Positions
<1> DEFINE gross == Gross(position.side, position.size, position.entry, price)
           exitFee == FeeOf(position.size, price)
<1>2. gross \in Int /\ exitFee \in Int
  BY <1>1, GrossIsInt, FeeIsInt
<1>3. Closing(price, atBar) =
        [side |-> position.side, entry |-> position.entry, exit |-> price, size |-> position.size,
         opened |-> position.opened, closed |-> atBar,
         pnl |-> gross - position.fee - exitFee, credit |-> gross - exitFee]
  BY DEF Closing
<1> HIDE DEF gross, exitFee
<1>4. gross - position.fee - exitFee \in Int /\ gross - exitFee \in Int
      /\ gross - position.fee - exitFee = (gross - exitFee) - position.fee
  BY <1>1, <1>2
<1> DEFINE t == Closing(price, atBar)
<1>5. t \in Trade
  BY <1>1, <1>3, <1>4 DEF Trade
<1>6. /\ t.opened = position.opened /\ t.closed = atBar /\ t.exit = price
      /\ t.side = position.side /\ t.entry = position.entry
      /\ t.pnl = gross - position.fee - exitFee /\ t.credit = gross - exitFee
  BY <1>3
<1> HIDE DEF t
<1>7. LevelsOf(spec, t) = LevelsOf(spec, position)
  BY <1>6 DEF LevelsOf
<1> QED
  BY <1>4, <1>5, <1>6, <1>7 DEF t

\* The exit price says whether the bar tells the position to close.
LEMMA ExitPriceTells ==
    ASSUME SimTypeOK, Running, position # Null
    PROVE  LET held == {position.take, position.stop}
           IN  /\ ExitPrice = Null => ~Tells(spec, bars, held, bar + 1)
               /\ ExitPrice # Null =>
                     /\ ExitPrice \in Int
                     /\ Tells(spec, bars, held, bar + 1)
                     /\ ExitPrice \in held \/ ExitPrice = Slipped(Candle.close, position.side, FALSE)
<1>1. position \in Positions /\ Candle.close \in Int
  BY CandleIsBar DEF Running, SimTypeOK
<1>2. position.take \in Int \union {Null} /\ position.stop \in Int \union {Null}
  BY <1>1 DEF Positions
<1>3. \A level : Inside(level) <=> /\ level # Null
                                   /\ bars[bar + 1].low <= level /\ level <= bars[bar + 1].high
  BY DEF Inside, Candle
<1> DEFINE slipped == Slipped(Candle.close, position.side, FALSE)
           signal == ExitSignal(spec, bar + 1, bars) = "true"
           held == {position.take, position.stop}
<1>4. slipped \in Int /\ slipped # Null
  BY <1>1, SlippedIsInt, SimAssumption
<1>5. Tells(spec, bars, held, bar + 1) <=> Inside(position.take) \/ Inside(position.stop) \/ signal
  BY <1>3 DEF Tells
<1>6. PICK first \in held, second \in held :
        /\ held = {first, second}
        /\ ExitPrice = IF Inside(first) THEN first ELSE IF Inside(second) THEN second
                       ELSE IF signal THEN slipped ELSE Null
  <2>1. CASE position.side = "long"
    BY <2>1 DEF ExitPrice
  <2>2. CASE position.side # "long"
    BY <2>2 DEF ExitPrice
  <2> QED
    BY <2>1, <2>2
<1>7. /\ Inside(position.take) \/ Inside(position.stop) <=> Inside(first) \/ Inside(second)
  BY <1>6
<1>8. \A level \in held : Inside(level) => level # Null /\ level \in Int
  BY <1>2 DEF Inside
<1> HIDE DEF slipped, signal
<1>9. CASE Inside(first)
  BY <1>5, <1>6, <1>7, <1>8, <1>9
<1>10. CASE ~Inside(first) /\ Inside(second)
  BY <1>5, <1>6, <1>7, <1>8, <1>10
<1>11. CASE ~Inside(first) /\ ~Inside(second) /\ signal
  BY <1>4, <1>5, <1>6, <1>7, <1>11 DEF slipped
<1>12. CASE ~Inside(first) /\ ~Inside(second) /\ ~signal
  BY <1>5, <1>6, <1>7, <1>12
<1> QED
  BY <1>9, <1>10, <1>11, <1>12

-----------------------------------------------------------------------------
(* A step of the tools begins a run over the bars, moves it by one bar,    *)
(* ends it, or leaves it alone.                                            *)

Begins == \E h \in Seq(Bar) : \E r \in Requests : \E k \in 1 .. Len(r.jobs) :
              Parses(r.jobs[k].spec) /\ Starts(r.jobs[k].spec, h)

Moves == Begins \/ SimStep \/ SimReset \/ UNCHANGED simVars

LEMMA RequestOKNext ==
    ASSUME RequestOK, [Next]_vars
    PROVE  RequestOK'
<1> USE DEF RequestOK
<1>1. CASE \E r \in Requests : Requested(r)
  <2>1. PICK r \in Requests : Requested(r)
    BY <1>1
  <2>2. /\ at' = 0 /\ request' = r
        /\ answer' = "none" => r.tool = "compare" \/ Parses(r.jobs[1].spec)
    BY <2>1 DEF Requested
  <2> QED
    BY <2>2
<1>2. CASE \E h \in Histories : Fetched(h)
  BY <1>2 DEF Fetched
<1>3. CASE Unparsed
  BY <1>3 DEF Unparsed, NextJob
<1>4. CASE UnknownScenario
  BY <1>4 DEF UnknownScenario, NextJob
<1>5. CASE FetchFails
  BY <1>5 DEF FetchFails, NextJob
<1>6. CASE Stressed
  BY <1>6 DEF Stressed
<1>7. CASE Simulates
  BY <1>7 DEF Simulates
<1>8. CASE Reported
  BY <1>8 DEF Reported, NextJob
<1>9. CASE EngineFailed
  BY <1>9 DEF EngineFailed, NextJob
<1>10. CASE Answers
  BY <1>10 DEF Answers
<1>11. CASE Delivered
  BY <1>11 DEF Delivered
<1>12. CASE UNCHANGED vars
  BY <1>12 DEF vars
<1> QED
  BY <1>1, <1>2, <1>3, <1>4, <1>5, <1>6, <1>7, <1>8, <1>9, <1>10, <1>11, <1>12 DEF Next

LEMMA EveryStepMoves ==
    ASSUME RequestOK, [Next]_vars
    PROVE  Moves
<1>1. ASSUME HasJob PROVE request \in Requests /\ at + 1 \in 1 .. Len(request.jobs)
  <2>1. request \in Requests /\ at \in Nat /\ at < Len(request.jobs)
    BY <1>1 DEF HasJob, Working, RequestOK
  <2>2. Len(request.jobs) \in Nat
    BY <2>1, ToolsAssumption
  <2> QED
    BY <2>1, <2>2
<1>2. ASSUME NEW h \in Histories, Fetched(h) PROVE Begins
  <2>1. HasJob /\ Parses(Job.spec) /\ Starts(Job.spec, h) /\ h \in Seq(Bar)
    BY <1>2, SimAssumption DEF Fetched
  <2> QED
    BY <1>1, <2>1 DEF Begins, Job
<1>3. ASSUME Stressed PROVE Begins
  <2>1. HasJob /\ Starts(Job.spec, Scenarios[Job.scenario]) /\ Scenarios[Job.scenario] \in Seq(Bar)
    BY <1>3, ToolsAssumption DEF Stressed
  <2>2. Parses(Job.spec)
    <3>1. request.tool = "stress" /\ request # Null /\ answer = "none"
      BY <1>3 DEF Stressed, HasJob, Working
    <3>2. Job.spec = request.jobs[1].spec
      BY <1>1, <2>1, <3>1, ToolsAssumption DEF Job
    <3> QED
      BY <3>1, <3>2 DEF RequestOK
  <2> QED
    BY <1>1, <2>1, <2>2 DEF Begins, Job
<1>4. Simulates => SimStep
  BY DEF Simulates
<1>5. Reported \/ EngineFailed => SimReset
  BY DEF Reported, EngineFailed
<1>6. (\E r \in Requests : Requested(r)) \/ Unparsed \/ UnknownScenario \/ FetchFails
        \/ Answers \/ Delivered \/ UNCHANGED vars => UNCHANGED simVars
  BY DEF Requested, Unparsed, UnknownScenario, FetchFails, Answers, Delivered, vars
<1> QED
  BY <1>2, <1>3, <1>4, <1>5, <1>6 DEF Moves, Next

\* How the types pass from one bar to the next.
LEMMA SeenTypes ==
    ASSUME SimTypeOK, Running, NEW point \in Int, Seen(point)
    PROVE  /\ bar' \in 0 .. Len(bars') /\ bars' = bars /\ spec' = spec /\ bar' = bar + 1
           /\ curve' \in Seq(Int) /\ Len(curve') = bar' /\ curve'[bar'] = point
           /\ \A i \in 1 .. bar : curve'[i] = curve[i]
<1>1. bar \in Nat /\ Len(bars) \in Nat /\ bar < Len(bars) /\ curve \in Seq(Int) /\ Len(curve) = bar
  BY DEF SimTypeOK, Running
<1> QED
  BY <1>1 DEF Seen

LEMMA SimTypeOKNext ==
    ASSUME SimTypeOK, Moves
    PROVE  SimTypeOK'
<1>1. CASE Begins
  <2>1. PICK h \in Seq(Bar), r \in Requests : \E k \in 1 .. Len(r.jobs) :
                                                Parses(r.jobs[k].spec) /\ Starts(r.jobs[k].spec, h)
    BY <1>1 DEF Begins
  <2>2. PICK k \in 1 .. Len(r.jobs) : Parses(r.jobs[k].spec) /\ Starts(r.jobs[k].spec, h)
    BY <2>1
  <2>3. SpecTyped(spec') /\ Parses(spec') /\ bars' \in Seq(Bar) /\ bar' = 0 /\ equity' = InitialEquity
        /\ position' = Null /\ trades' = <<>> /\ curve' = <<>>
    BY <2>2, ToolsAssumption DEF Starts
  <2>4. /\ phase' \in {"running", "failed"}
        /\ phase' = "running" => Len(bars') >= MinCandles
    BY <2>2 DEF Starts
  <2>5. InitialEquity \in Int /\ Len(bars') \in Nat
    BY <2>3, SimAssumption
  <2> QED
    BY <2>3, <2>4, <2>5 DEF SimTypeOK
<1>2. CASE Enters
  <2>1. Opened \in Positions /\ Mark(Opened, equity - Opened.fee, Candle.close) \in Int
    BY <1>2, OpenedIsPosition DEF Enters
  <2>2. equity' \in Int /\ position' \in Positions /\ trades' = trades /\ phase' = "running"
    BY <1>2, <2>1 DEF Enters, SimTypeOK, Positions, Running
  <2>3. /\ bar' \in 0 .. Len(bars') /\ bars' = bars /\ spec' = spec
        /\ curve' \in Seq(Int) /\ Len(curve') = bar'
    BY <1>2, <2>1, SeenTypes DEF Enters
  <2> QED
    BY <1>2, <2>2, <2>3 DEF Enters, Running, SimTypeOK
<1>3. CASE Waits
  <2>1. /\ bar' \in 0 .. Len(bars') /\ bars' = bars /\ spec' = spec
        /\ curve' \in Seq(Int) /\ Len(curve') = bar'
    BY <1>3, SeenTypes DEF Waits, SimTypeOK
  <2> QED
    BY <1>3, <2>1 DEF Waits, Running, SimTypeOK
<1>4. CASE Holds
  <2>1. Mark(position, equity, Candle.close) \in Int
    <3>1. position \in Positions /\ equity \in Int /\ Candle.close \in Int
      BY <1>4, CandleIsBar DEF Holds, Running, SimTypeOK
    <3>2. Gross(position.side, position.size, position.entry, Candle.close) \in Int
      BY <3>1, GrossIsInt DEF Positions
    <3> QED
      BY <3>1, <3>2 DEF Mark
  <2>2. /\ bar' \in 0 .. Len(bars') /\ bars' = bars /\ spec' = spec
        /\ curve' \in Seq(Int) /\ Len(curve') = bar'
    BY <1>4, <2>1, SeenTypes DEF Holds
  <2> QED
    BY <1>4, <2>2 DEF Holds, Running, SimTypeOK
<1>5. CASE Exits
  <2> DEFINE t == Closing(ExitPrice, bar + 1)
  <2>1. position \in Positions /\ ExitPrice \in Int /\ bar + 1 \in Int /\ equity \in Int
    <3>1. ExitPrice # Null /\ position # Null /\ Running
      BY <1>5 DEF Exits
    <3>2. ExitPrice \in Int
      BY <3>1, ExitPriceTells
    <3> QED
      BY <3>1, <3>2 DEF SimTypeOK
  <2>2. t \in Trade /\ t.credit \in Int
    BY <2>1, ClosingIsTrade DEF Trade
  <2>3. Closes(t) /\ Seen(equity + t.credit) /\ phase' \in {"running", "failed"} /\ phase = "running" /\ Running
    BY <1>5 DEF Exits, Running
  <2> HIDE DEF t
  <2>4. equity + t.credit \in Int
    BY <2>1, <2>2
  <2>5. /\ bar' \in 0 .. Len(bars') /\ bars' = bars /\ spec' = spec
        /\ curve' \in Seq(Int) /\ Len(curve') = bar'
    BY <2>3, <2>4, SeenTypes
  <2>6. position' = Null /\ equity' \in Int /\ trades' \in Seq(Trade)
    BY <2>2, <2>3, <2>4 DEF Closes, SimTypeOK
  <2> QED
    BY <2>3, <2>5, <2>6 DEF SimTypeOK
<1>6. CASE Finishes /\ position = Null
  <2>1. /\ UNCHANGED <<spec, bars, bar, equity, position, trades, curve>>
        /\ phase = "running" /\ bar = Len(bars) /\ phase' \in {"report", "failed"}
        /\ phase' = "report" => ReportAccepted(equity, trades, curve)
    BY <1>6 DEF Finishes
  <2>2. curve # <<>>
    BY <2>1 DEF SimTypeOK, MinCandles
  <2>3. phase' = "report" => InitialEquity > 0 /\ curve[1] = InitialEquity
    BY <2>1, <2>2 DEF ReportAccepted
  <2> QED
    BY <1>6, <2>1, <2>3 DEF SimTypeOK
<1>7. CASE Finishes /\ position # Null
  <2> DEFINE price == Slipped(Last(bars).close, position.side, FALSE)
             t == Closing(price, Len(bars))
  <2>1. /\ UNCHANGED <<spec, bars, bar>>
        /\ phase = "running" /\ bar = Len(bars) /\ phase' \in {"report", "failed"}
        /\ Closes(t) /\ curve' = ReplaceAt(curve, Len(curve), equity + t.credit)
        /\ phase' = "report" => ReportAccepted(equity', trades', curve')
    BY <1>7 DEF Finishes
  <2>2. position \in Positions /\ Len(bars) \in Int /\ Len(bars) >= 2 /\ equity \in Int
    BY <1>7, <2>1 DEF SimTypeOK, MinCandles
  <2>3. price \in Int
    <3>1. Last(bars) \in Bar
      BY <2>2 DEF Last, SimTypeOK
    <3>2. Last(bars).close \in Int
      BY <3>1 DEF Bar
    <3> QED
      BY <3>2, SlippedIsInt
  <2> HIDE DEF price
  <2>4. t \in Trade /\ t.credit \in Int
    BY <2>2, <2>3, ClosingIsTrade DEF Trade
  <2> HIDE DEF t
  <2>5. position' = Null /\ equity' \in Int /\ trades' \in Seq(Trade) /\ equity + t.credit \in Int
    BY <2>1, <2>2, <2>4 DEF Closes, SimTypeOK
  <2>6. curve' \in Seq(Int) /\ Len(curve') = bar
    <3>1. curve \in Seq(Int) /\ Len(curve) = bar
      BY DEF SimTypeOK
    <3>2. curve' = [curve EXCEPT ![Len(curve)] = equity + t.credit]
      BY <2>1 DEF ReplaceAt
    <3>3. Len(curve) \in 1 .. Len(curve)
      BY <2>1, <2>2, <3>1
    <3> QED
      BY <2>5, <3>1, <3>2, <3>3, ExceptSeq
  <2>7. curve' # <<>>
    BY <2>1, <2>2, <2>6
  <2>8. phase' = "report" => InitialEquity > 0 /\ curve'[1] = InitialEquity
    BY <2>1, <2>7 DEF ReportAccepted
  <2> QED
    BY <2>1, <2>5, <2>6, <2>8 DEF SimTypeOK
<1>8. CASE SimReset
  BY <1>8 DEF SimReset, SimTypeOK
<1>9. CASE UNCHANGED simVars
  BY <1>9 DEF simVars, SimTypeOK
<1> QED
  BY <1>1, <1>2, <1>3, <1>4, <1>5, <1>6, <1>7, <1>8, <1>9 DEF Moves, SimStep

-----------------------------------------------------------------------------
(* Trades end in time.                                                     *)

LEMMA TradesHaveBars ==
    ASSUME SimTypeOK
    PROVE  /\ DOMAIN trades = 1 .. Len(trades)
           /\ \A k \in DOMAIN trades : /\ trades[k].opened \in Int /\ trades[k].closed \in Int
                                       /\ trades[k].pnl \in Int
<1>1. trades \in Seq(Trade)
  BY DEF SimTypeOK
<1>2. DOMAIN trades = 1 .. Len(trades) /\ \A k \in DOMAIN trades : trades[k] \in Trade
  BY <1>1
<1> QED
  BY <1>2 DEF Trade

LEMMA TradesStayTimely ==
    ASSUME SimTypeOK, \A k \in DOMAIN trades : InTime(spec, bars, trades[k]), Ordered,
           trades' = trades, spec' = spec, bars' = bars, bar' \in Int, bar <= bar'
    PROVE  (\A k \in DOMAIN trades : InTime(spec, bars, trades[k]))' /\ Ordered'
<1>1. (\A k \in DOMAIN trades : InTime(spec, bars, trades[k]))'
  OBVIOUS
<1>2. bar \in Int /\ \A k \in DOMAIN trades : trades[k].closed \in Int
  BY TradesHaveBars DEF SimTypeOK
<1>3. Ordered'
  BY <1>2 DEF Ordered
<1> QED
  BY <1>1, <1>3

LEMMA TradeJoinsTimely ==
    ASSUME SimTypeOK, \A k \in DOMAIN trades : InTime(spec, bars, trades[k]), Ordered,
           spec' = spec, bars' = bars, bar' \in Int, bar <= bar',
           NEW t \in Trade, trades' = Append(trades, t), InTime(spec, bars, t),
           1 <= t.opened, t.opened <= t.closed, t.closed <= bar',
           \A k \in DOMAIN trades : trades[k].closed < t.opened
    PROVE  (\A k \in DOMAIN trades : InTime(spec, bars, trades[k]))' /\ Ordered'
<1> DEFINE n == Len(trades)
<1>1. trades \in Seq(Trade) /\ n \in Nat /\ bar \in Int
  BY DEF SimTypeOK
<1>2. /\ DOMAIN trades = 1 .. n /\ DOMAIN trades' = 1 .. n + 1
      /\ trades'[n + 1] = t /\ \A k \in 1 .. n : trades'[k] = trades[k]
  BY <1>1
<1>3. \A k \in 1 .. n + 1 : k = n + 1 \/ k \in 1 .. n
  BY <1>1
<1>4. \A k \in 1 .. n : trades[k].closed \in Int /\ trades[k].opened \in Int
  BY <1>2, TradesHaveBars
<1> HIDE DEF n
<1>5. \A k \in DOMAIN trades' : InTime(spec', bars', trades'[k])
  BY <1>2, <1>3
<1>6. \A k \in DOMAIN trades' : /\ 1 <= trades'[k].opened /\ trades'[k].opened <= trades'[k].closed
                                /\ trades'[k].closed <= bar'
  <2> SUFFICES ASSUME NEW k \in 1 .. n + 1
               PROVE  /\ 1 <= trades'[k].opened /\ trades'[k].opened <= trades'[k].closed
                      /\ trades'[k].closed <= bar'
    BY <1>2
  <2>1. CASE k = n + 1
    BY <1>2, <2>1
  <2>2. CASE k \in 1 .. n
    BY <1>1, <1>2, <1>4, <2>2 DEF Ordered
  <2> QED
    BY <1>3, <2>1, <2>2
<1>7. \A j, k \in DOMAIN trades' : j < k => trades'[j].closed < trades'[k].opened
  <2> SUFFICES ASSUME NEW j \in 1 .. n + 1, NEW k \in 1 .. n + 1, j < k
               PROVE  trades'[j].closed < trades'[k].opened
    BY <1>2
  <2>1. j \in 1 .. n
    BY <1>1
  <2>2. CASE k = n + 1
    BY <1>2, <2>1, <2>2
  <2>3. CASE k \in 1 .. n
    BY <1>2, <2>1, <2>3 DEF Ordered
  <2> QED
    BY <1>3, <2>2, <2>3
<1> QED
  BY <1>5, <1>6, <1>7 DEF Ordered

LEMMA TimelyNext ==
    ASSUME SimTypeOK, Timely, Moves
    PROVE  Timely'
<1>1. bar \in Int /\ bar + 1 \in Int /\ bar <= bar + 1 /\ bar <= bar
  BY DEF SimTypeOK
<1>2. (\A k \in DOMAIN trades : InTime(spec, bars, trades[k])) /\ Ordered /\ Holding
  BY DEF Timely
<1>3. CASE Begins \/ SimReset
  <2>1. trades' = <<>> /\ position' = Null
    BY <1>3 DEF Begins, Starts, SimReset
  <2> QED
    BY <2>1 DEF Timely, Ordered, Holding
<1>4. CASE Enters
  <2>1. /\ trades' = trades /\ spec' = spec /\ bars' = bars /\ bar' = bar + 1
        /\ position' = Opened
    BY <1>4 DEF Enters, Seen
  <2>2. Opened.opened = bar + 1 /\ {Opened.take, Opened.stop} = LevelsOf(spec, Opened)
    BY <1>4, OpenedIsPosition DEF Enters
  <2>3. (\A k \in DOMAIN trades : InTime(spec, bars, trades[k]))' /\ Ordered'
    BY <1>1, <1>2, <2>1, TradesStayTimely
  <2>4. \A k \in DOMAIN trades : trades[k].closed < bar + 1
    <3>1. \A k \in DOMAIN trades : trades[k].closed <= bar /\ trades[k].closed \in Int
      BY <1>2, TradesHaveBars DEF Ordered
    <3> QED
      BY <1>1, <3>1
  <2>5. 1 <= bar + 1
    BY DEF SimTypeOK
  <2> HIDE DEF Opened
  <2>6. Holding'
    BY <1>1, <2>1, <2>2, <2>4, <2>5 DEF Holding
  <2> QED
    BY <2>3, <2>6 DEF Timely
<1>5. CASE Waits
  <2>1. /\ trades' = trades /\ spec' = spec /\ bars' = bars /\ bar' = bar + 1
        /\ position' = Null
    BY <1>5 DEF Waits, Seen
  <2>2. (\A k \in DOMAIN trades : InTime(spec, bars, trades[k]))' /\ Ordered'
    BY <1>1, <1>2, <2>1, TradesStayTimely
  <2> QED
    BY <2>1, <2>2 DEF Timely, Holding
<1>6. CASE Holds
  <2>1. /\ trades' = trades /\ spec' = spec /\ bars' = bars /\ bar' = bar + 1
        /\ position' = position /\ position # Null /\ ExitPrice = Null /\ Running
    BY <1>6 DEF Holds, Seen
  <2>2. (\A k \in DOMAIN trades : InTime(spec, bars, trades[k]))' /\ Ordered'
    BY <1>1, <1>2, <2>1, TradesStayTimely
  <2>3. {position.take, position.stop} = LevelsOf(spec, position) /\ position \in Positions
    BY <1>2, <2>1 DEF Holding, SimTypeOK
  <2>4. ~Tells(spec, bars, LevelsOf(spec, position), bar + 1)
    BY <2>1, <2>3, ExitPriceTells
  <2>5. \A i \in position.opened + 1 .. bar + 1 : i \in position.opened + 1 .. bar \/ i = bar + 1
    BY <1>1, <2>3 DEF Positions
  <2>6. position.opened <= bar + 1
    BY <1>1, <1>2, <2>1, <2>3 DEF Holding, Positions
  <2>7. Holding'
    BY <1>2, <2>1, <2>4, <2>5, <2>6 DEF Holding
  <2> QED
    BY <2>2, <2>7 DEF Timely
<1>7. CASE Exits
  <2> DEFINE t == Closing(ExitPrice, bar + 1)
  <2>1. /\ position' = Null /\ spec' = spec /\ bars' = bars /\ bar' = bar + 1
        /\ trades' = Append(trades, t)
        /\ position # Null /\ ExitPrice # Null /\ Running
    BY <1>7 DEF Exits, Closes, Seen
  <2>2. /\ {position.take, position.stop} = LevelsOf(spec, position) /\ position \in Positions
        /\ position.opened \in Int
    BY <1>2, <2>1 DEF Holding, SimTypeOK, Positions
  <2>3. /\ ExitPrice \in Int /\ Tells(spec, bars, LevelsOf(spec, position), bar + 1)
        /\ ExitPrice \in LevelsOf(spec, position)
             \/ ExitPrice = Slipped(bars[bar + 1].close, position.side, FALSE)
    BY <2>1, <2>2, ExitPriceTells DEF Candle
  <2>4. /\ t \in Trade /\ t.opened = position.opened /\ t.closed = bar + 1 /\ t.exit = ExitPrice
        /\ t.side = position.side /\ LevelsOf(spec, t) = LevelsOf(spec, position)
    BY <1>1, <2>2, <2>3, ClosingIsTrade
  <2> HIDE DEF t
  <2>5. /\ 1 <= t.opened /\ t.opened < t.closed /\ t.opened <= t.closed /\ t.closed <= bar'
        /\ \A k \in DOMAIN trades : trades[k].closed < t.opened
    BY <1>1, <1>2, <2>1, <2>2, <2>4 DEF Holding
  <2>6. InTime(spec, bars, t)
    <3>1. \A i \in t.opened + 1 .. t.closed - 1 : ~Tells(spec, bars, LevelsOf(spec, t), i)
      <4>1. t.closed - 1 = bar
        BY <1>1, <2>4
      <4> QED
        BY <1>2, <2>1, <2>4, <4>1 DEF Holding
    <3>2. t.exit \in LevelsOf(spec, t) \/ t.exit = Slipped(bars[t.closed].close, t.side, FALSE)
      BY <2>3, <2>4
    <3>3. t.closed > t.opened
      BY <1>1, <2>2, <2>4, <2>5
    <3>4. Tells(spec, bars, LevelsOf(spec, t), t.closed)
      BY <2>3, <2>4
    <3> QED
      BY <3>1, <3>2, <3>3, <3>4 DEF InTime
  <2>7. (\A k \in DOMAIN trades : InTime(spec, bars, trades[k]))' /\ Ordered'
    BY <1>1, <1>2, <2>1, <2>4, <2>5, <2>6, TradeJoinsTimely
  <2> QED
    BY <2>1, <2>7 DEF Timely, Holding
<1>8. CASE Finishes /\ position = Null
  <2>1. UNCHANGED <<spec, bars, bar, position, trades>>
    BY <1>8 DEF Finishes
  <2> QED
    BY <1>8, <2>1 DEF Timely, Ordered, Holding
<1>9. CASE Finishes /\ position # Null
  <2> DEFINE price == Slipped(Last(bars).close, position.side, FALSE)
             t == Closing(price, Len(bars))
  <2>1. /\ UNCHANGED <<spec, bars, bar>> /\ bar = Len(bars)
        /\ position' = Null /\ trades' = Append(trades, t)
    BY <1>9 DEF Finishes, Closes
  <2>2. position \in Positions /\ position.opened \in Int
    BY <1>9 DEF SimTypeOK, Positions
  <2>3. 1 <= position.opened /\ position.opened <= bar
    BY <1>2, <1>9 DEF Holding
  <2>4. price \in Int /\ price = Slipped(bars[bar].close, position.side, FALSE)
    <3>1. bars[bar] \in Bar /\ Last(bars) = bars[bar]
      BY <1>1, <2>1, <2>2, <2>3 DEF Last, SimTypeOK
    <3>2. Last(bars).close \in Int
      BY <3>1 DEF Bar
    <3> QED
      BY <3>1, <3>2, SlippedIsInt
  <2> HIDE DEF price
  <2>5. /\ t \in Trade /\ t.opened = position.opened /\ t.closed = bar /\ t.exit = price
        /\ t.side = position.side /\ LevelsOf(spec, t) = LevelsOf(spec, position)
    <3>1. Len(bars) \in Int
      BY DEF SimTypeOK
    <3>2. /\ t \in Trade
          /\ t.opened = position.opened /\ t.closed = Len(bars) /\ t.exit = price
          /\ t.side = position.side
          /\ LevelsOf(spec, t) = LevelsOf(spec, position)
          /\ t.pnl = t.credit - position.fee
      BY <2>2, <2>4, <3>1, ClosingIsTrade
    <3> HIDE DEF t
    <3> QED
      BY <2>1, <3>2
  <2> HIDE DEF t
  <2>6. /\ 1 <= t.opened /\ t.opened <= t.closed /\ t.closed <= bar'
        /\ \A k \in DOMAIN trades : trades[k].closed < t.opened
    BY <1>1, <1>2, <1>9, <2>1, <2>3, <2>5 DEF Holding
  <2>7. InTime(spec, bars, t)
    <3>1. \A i \in t.opened + 1 .. t.closed - 1 : i \in position.opened + 1 .. bar
      BY <1>1, <2>2, <2>5
    <3>2. \A i \in t.opened + 1 .. t.closed - 1 : ~Tells(spec, bars, LevelsOf(spec, t), i)
      BY <1>2, <1>9, <2>5, <3>1 DEF Holding
    <3>3. ~(t.closed < Len(bars))
      BY <1>1, <2>1, <2>5
    <3> QED
      BY <2>4, <2>5, <3>2, <3>3 DEF InTime
  <2>8. (\A k \in DOMAIN trades : InTime(spec, bars, trades[k]))' /\ Ordered'
    BY <1>1, <1>2, <2>1, <2>5, <2>6, <2>7, TradeJoinsTimely
  <2> QED
    BY <2>1, <2>8 DEF Timely, Holding
<1>10. CASE UNCHANGED simVars
  BY <1>10 DEF simVars, Timely, Ordered, Holding
<1> QED
  BY <1>3, <1>4, <1>5, <1>6, <1>7, <1>8, <1>9, <1>10 DEF Moves, SimStep

-----------------------------------------------------------------------------
(* The books balance while the bars are seen.                              *)

LEMMA BalanceSteps ==
    ASSUME NEW ts \in Seq(Trade)
    PROVE  /\ Balance(ts, 0) = InitialEquity
           /\ \A k \in 0 .. Len(ts) : Balance(ts, k) \in Int
           /\ \A k \in 1 .. Len(ts) : Balance(ts, k) = Balance(ts, k - 1) + ts[k].pnl
<1> DEFINE n == Len(ts)
           f == PnL(ts)
<1>1. \A k \in 1 .. n : f[k] = ts[k].pnl /\ f[k] \in Int
  <2>1. DOMAIN ts = 1 .. n /\ \A k \in 1 .. n : ts[k] \in Trade
    OBVIOUS
  <2>2. \A k \in 1 .. n : ts[k].pnl \in Int
    BY <2>1 DEF Trade
  <2> QED
    BY <2>1, <2>2 DEF PnL
<1>2. n \in Nat /\ InitialEquity \in Int
  BY SimAssumption
<1> HIDE DEF n, f
<1>3. ASSUME NEW k \in 0 .. n PROVE IsFiniteSet(1 .. k) /\ SumOf(f, 1 .. k) \in Int
  <2>1. IsFiniteSet(1 .. k) /\ \A i \in 1 .. k : i \in 1 .. n
    BY <1>2, FS_Interval
  <2> QED
    BY <1>1, <2>1, SumIsInt
<1>4. ASSUME NEW k \in 1 .. n PROVE SumOf(f, 1 .. k) = f[k] + SumOf(f, 1 .. k - 1)
  <2>1. k \in 0 .. n /\ k \in 1 .. k /\ (1 .. k) \ {k} = 1 .. k - 1 /\ \A i \in 1 .. k : i \in 1 .. n
    BY <1>2
  <2>2. IsFiniteSet(1 .. k) /\ \A i \in 1 .. k : f[i] \in Int
    BY <1>1, <1>3, <2>1
  <2> QED
    BY <2>1, <2>2, SumTakesOut
<1>5. SumOf(f, 1 .. 0) = 0
  <2>1. 1 .. 0 = {}
    OBVIOUS
  <2> QED
    BY <2>1, SumUnfolds, FS_EmptySet
<1>6. \A k \in 0 .. n : Balance(ts, k) = InitialEquity + SumOf(f, 1 .. k)
  BY DEF Balance, f
<1>7. Balance(ts, 0) = InitialEquity
  BY <1>2, <1>5, <1>6
<1>8. \A k \in 0 .. n : Balance(ts, k) \in Int
  BY <1>2, <1>3, <1>6
<1>9. \A k \in 1 .. n : Balance(ts, k) = Balance(ts, k - 1) + ts[k].pnl
  <2> SUFFICES ASSUME NEW k \in 1 .. n PROVE Balance(ts, k) = Balance(ts, k - 1) + ts[k].pnl
    OBVIOUS
  <2>1. k \in 0 .. n /\ k - 1 \in 0 .. n
    BY <1>2
  <2>2. SumOf(f, 1 .. k - 1) \in Int /\ f[k] \in Int /\ f[k] = ts[k].pnl
    BY <1>1, <1>3, <2>1
  <2> QED
    BY <1>2, <1>4, <1>6, <2>1, <2>2
<1> QED
  BY <1>7, <1>8, <1>9 DEF n

LEMMA BalanceAppends ==
    ASSUME NEW ts \in Seq(Trade), NEW t \in Trade
    PROVE  /\ \A k \in 0 .. Len(ts) : Balance(Append(ts, t), k) = Balance(ts, k)
           /\ Balance(Append(ts, t), Len(ts) + 1) = Balance(ts, Len(ts)) + t.pnl
<1> DEFINE us == Append(ts, t)
           n == Len(ts)
<1>1. us \in Seq(Trade) /\ Len(us) = n + 1 /\ n \in Nat /\ us[n + 1] = t
      /\ \A k \in 1 .. n : us[k] = ts[k]
  OBVIOUS
<1>2. \A k \in 1 .. n : ts[k].pnl \in Int
  <2>1. \A k \in 1 .. n : ts[k] \in Trade
    OBVIOUS
  <2> QED
    BY <2>1 DEF Trade
<1> HIDE DEF us, n
<1>3. ASSUME NEW k \in 0 .. n PROVE SumOf(PnL(us), 1 .. k) = SumOf(PnL(ts), 1 .. k)
  <2>1. IsFiniteSet(1 .. k) /\ \A i \in 1 .. k : i \in 1 .. n /\ i \in 1 .. n + 1
    BY <1>1, FS_Interval
  <2>2. DOMAIN ts = 1 .. n /\ DOMAIN us = 1 .. n + 1
    BY <1>1 DEF n
  <2>3. \A i \in 1 .. k : PnL(ts)[i] = ts[i].pnl /\ PnL(us)[i] = ts[i].pnl
    BY <1>1, <2>1, <2>2 DEF PnL
  <2>4. \A i \in 1 .. k : PnL(us)[i] \in Int /\ PnL(us)[i] = PnL(ts)[i]
    BY <1>2, <2>1, <2>3
  <2> QED
    BY <2>1, <2>4, SumIsOfValues
<1>4. \A k \in 0 .. n : Balance(us, k) = Balance(ts, k)
  BY <1>3 DEF Balance
<1>5. Balance(us, n + 1) = Balance(us, n) + us[n + 1].pnl
  <2>1. n + 1 \in 1 .. Len(us) /\ (n + 1) - 1 = n
    BY <1>1
  <2>2. Balance(us, n + 1) = Balance(us, (n + 1) - 1) + us[n + 1].pnl
    BY <1>1, <2>1, BalanceSteps
  <2> QED
    BY <2>1, <2>2
<1>6. n \in 0 .. n
  BY <1>1
<1> QED
  BY <1>1, <1>4, <1>5, <1>6 DEF us, n

LEMMA FeeMoves ==
    ASSUME NEW b \in Int, NEW fee \in Int, NEW credit \in Int
    PROVE  (b - fee) + credit = b + (credit - fee)
OBVIOUS

LEMMA BarBefore ==
    ASSUME NEW i \in Int, NEW j \in Int, 1 <= i, i < j
    PROVE  i = 1 \/ i - 1 \in 1 .. j - 1
OBVIOUS

\* The next trade: its pnl is the difference of two balances.
LEMMA TradeJoinsBooks ==
    ASSUME SimTypeOK, Ordered, Holding, OnCurve, position # Null,
           equity = Balance(trades, Len(trades)) - position.fee,
           NEW t \in Trade, t.pnl = t.credit - position.fee, t.opened = position.opened,
           t.closed = bar',
           trades' = Append(trades, t), position' = Null, equity' = equity + t.credit,
           curve'[bar'] = equity', \A i \in 1 .. position.opened - 1 : curve'[i] = curve[i]
    PROVE  equity' = Balance(trades', Len(trades')) /\ OnCurve'
<1> DEFINE n == Len(trades)
<1>1. trades \in Seq(Trade) /\ n \in Nat /\ position \in Positions /\ equity \in Int
  BY DEF SimTypeOK
<1>2. /\ DOMAIN trades = 1 .. n /\ DOMAIN trades' = 1 .. n + 1 /\ Len(trades') = n + 1
      /\ trades'[n + 1] = t /\ \A k \in 1 .. n : trades'[k] = trades[k]
  BY <1>1
<1>3. t.credit \in Int /\ t.pnl \in Int /\ position.fee \in Int /\ position.opened \in Int
  BY <1>1 DEF Trade, Positions
<1>4. /\ \A k \in 0 .. n : Balance(trades', k) = Balance(trades, k)
      /\ Balance(trades', n + 1) = Balance(trades, n) + t.pnl /\ Balance(trades, n) \in Int
  <2>1. n \in 0 .. n
    BY <1>1
  <2> QED
    BY <1>1, <2>1, BalanceAppends, BalanceSteps
<1>5. \A k \in 1 .. n : trades[k].closed \in Int /\ trades[k].opened \in Int
  BY <1>2, TradesHaveBars
<1>6. equity = Balance(trades, n) - position.fee
  OBVIOUS
<1>7. n \in 0 .. n /\ (n + 1) - 1 = n /\ n + 1 = Len(trades')
  BY <1>1, <1>2
<1> HIDE DEF n
<1>8. equity' = Balance(trades', n + 1)
  <2>1. equity' = (Balance(trades, n) - position.fee) + t.credit
    BY <1>6
  <2>2. Balance(trades', n + 1) = Balance(trades, n) + (t.credit - position.fee)
    BY <1>4
  <2> QED
    BY <1>3, <1>4, <2>1, <2>2, FeeMoves
<1>9. ASSUME NEW k \in 1 .. n PROVE Shown(curve', trades', k)
  <2>1. /\ 1 <= trades[k].opened /\ trades[k].opened <= trades[k].closed
        /\ trades[k].closed < position.opened
    BY <1>2 DEF Ordered, Holding
  <2>2. trades[k].closed \in 1 .. position.opened - 1
    BY <1>3, <1>5, <2>1
  <2>3. trades[k].opened = 1 \/ trades[k].opened - 1 \in 1 .. position.opened - 1
    <3>1. trades[k].opened \in Int /\ trades[k].closed \in Int
      BY <1>5
    <3>2. trades[k].opened < position.opened
      BY <1>3, <2>1, <3>1
    <3> QED
      BY <1>3, <2>1, <3>1, <3>2, BarBefore
  <2>4. k \in 0 .. n /\ k - 1 \in 0 .. n
    BY <1>1
  <2>5. Shown(curve, trades, k)
    BY <1>2 DEF OnCurve
  <2>6. trades'[k] = trades[k]
    BY <1>2
  <2>7. Balance(trades', k) = Balance(trades, k) /\ Balance(trades', k - 1) = Balance(trades, k - 1)
    BY <1>4, <2>4
  <2>8. curve'[trades[k].closed] = curve[trades[k].closed]
    BY <2>2
  <2>9. trades[k].opened = 1 \/ curve'[trades[k].opened - 1] = curve[trades[k].opened - 1]
    BY <2>3
  <2>10. /\ curve[trades[k].closed] = Balance(trades, k)
         /\ IF trades[k].opened = 1 THEN k = 1
            ELSE curve[trades[k].opened - 1] = Balance(trades, k - 1)
    BY <2>5 DEF Shown
  <2>11. curve'[trades'[k].closed] = Balance(trades', k)
    BY <2>6, <2>7, <2>8, <2>10
  <2>12. IF trades'[k].opened = 1 THEN k = 1
         ELSE curve'[trades'[k].opened - 1] = Balance(trades', k - 1)
    <3>1. CASE trades[k].opened = 1
      BY <2>6, <2>10, <3>1
    <3>2. CASE trades[k].opened # 1
      BY <2>6, <2>7, <2>9, <2>10, <3>2
    <3> QED
      BY <3>1, <3>2
  <2> QED
    BY <2>11, <2>12 DEF Shown
<1>10. Shown(curve', trades', n + 1)
  <2>1. curve'[t.closed] = Balance(trades', n + 1)
    BY <1>8
  <2>2. CASE position.opened = 1
    <3>1. n + 1 = 1
      BY <2>2 DEF OnCurve, n
    <3> QED
      BY <1>2, <2>1, <2>2, <3>1 DEF Shown
  <2>3. CASE position.opened # 1
    <3>1. curve[position.opened - 1] = Balance(trades, n)
      BY <2>3 DEF OnCurve, n
    <3>2. position.opened - 1 \in 1 .. position.opened - 1
      BY <1>3, <2>3 DEF Holding
    <3> QED
      BY <1>2, <1>4, <1>7, <2>1, <2>3, <3>1, <3>2 DEF Shown
  <2> QED
    BY <2>2, <2>3
<1>11. \A k \in DOMAIN trades' : Shown(curve', trades', k)
  <2>1. \A k \in 1 .. n + 1 : k = n + 1 \/ k \in 1 .. n
    BY <1>1
  <2> QED
    BY <1>2, <1>9, <1>10, <2>1
<1> QED
  BY <1>7, <1>8, <1>11 DEF OnCurve

\* The curve only grows: what it showed of the trades it goes on showing.
LEMMA TradesStayShown ==
    ASSUME SimTypeOK, Ordered, OnCurve, \A i \in 1 .. bar : curve'[i] = curve[i]
    PROVE  \A k \in DOMAIN trades : Shown(curve', trades, k)
<1> SUFFICES ASSUME NEW k \in DOMAIN trades PROVE Shown(curve', trades, k)
  OBVIOUS
<1>1. /\ 1 <= trades[k].opened /\ trades[k].opened <= trades[k].closed /\ trades[k].closed <= bar
      /\ trades[k].opened \in Int /\ trades[k].closed \in Int /\ bar \in Int
  BY TradesHaveBars DEF Ordered, SimTypeOK
<1>2. trades[k].closed \in 1 .. bar /\ (trades[k].opened = 1 \/ trades[k].opened - 1 \in 1 .. bar)
  BY <1>1
<1>3. Shown(curve, trades, k)
  BY DEF OnCurve
<1> QED
  BY <1>2, <1>3 DEF Shown

LEMMA AccountsNext ==
    ASSUME SimTypeOK, Timely, Accounts, Moves
    PROVE  Accounts'
<1>1. bar \in Nat /\ bar + 1 \in Int /\ equity \in Int /\ trades \in Seq(Trade)
  BY DEF SimTypeOK
<1>2. Ordered /\ Holding
  BY DEF Timely
<1>3. Balance(trades, Len(trades)) \in Int
  <2>1. Len(trades) \in 0 .. Len(trades)
    BY <1>1
  <2> QED
    BY <1>1, <2>1, BalanceSteps
<1>4. CASE Begins
  <2>1. /\ bar' = 0 /\ equity' = InitialEquity /\ position' = Null
        /\ trades' = <<>>
    BY <1>4 DEF Begins, Starts
  <2>2. Balance(<<>>, Len(<<>>)) = InitialEquity /\ InitialEquity - 0 = InitialEquity
    <3>1. <<>> \in Seq(Trade) /\ Len(<<>>) = 0
      OBVIOUS
    <3>2. Balance(<<>>, 0) = InitialEquity
      BY <3>1, BalanceSteps
    <3> QED
      BY <3>1, <3>2, SimAssumption
  <2>3. equity' = Balance(trades', Len(trades')) - (IF position' = Null THEN 0 ELSE position'.fee)
    BY <2>1, <2>2
  <2>4. OnCurve'
    BY <2>1 DEF OnCurve
  <2> QED
    BY <2>3, <2>4 DEF Accounts
<1>5. CASE SimReset
  BY <1>5 DEF SimReset, Accounts
<1>6. CASE Enters
  <2>1. /\ trades' = trades /\ position' = Opened /\ equity' = equity - Opened.fee
        /\ position = Null /\ phase = "running" /\ bar' = bar + 1
        /\ Running /\ Seen(Mark(Opened, equity - Opened.fee, Candle.close))
    BY <1>6 DEF Enters, Seen, Running
  <2>2. /\ Opened \in Positions /\ Opened.opened = bar + 1
        /\ Mark(Opened, equity - Opened.fee, Candle.close) \in Int
    BY <1>6, OpenedIsPosition DEF Enters
  <2>3. Opened # Null
    BY <2>2, SimAssumption
  <2>4. \A i \in 1 .. bar : curve'[i] = curve[i]
    BY <2>1, <2>2, SeenTypes
  <2> HIDE DEF Opened
  <2>5. equity = Balance(trades, Len(trades)) /\ OnCurve
    BY <1>1, <1>3, <2>1 DEF Accounts
  <2>6. equity' = Balance(trades', Len(trades')) - (IF position' = Null THEN 0 ELSE position'.fee)
    BY <2>1, <2>3, <2>5
  <2>7. \A k \in DOMAIN trades : Shown(curve', trades, k)
    BY <1>2, <2>4, <2>5, TradesStayShown
  <2>8. IF position'.opened = 1 THEN trades' = <<>>
        ELSE curve'[position'.opened - 1] = Balance(trades', Len(trades'))
    <3>1. CASE bar = 0
      <4>1. DOMAIN trades = {}
        <5> SUFFICES ASSUME NEW k \in DOMAIN trades PROVE FALSE
          OBVIOUS
        <5>1. /\ 1 <= trades[k].opened /\ trades[k].opened <= trades[k].closed /\ trades[k].closed <= 0
              /\ trades[k].opened \in Int /\ trades[k].closed \in Int
          BY <1>2, <3>1, TradesHaveBars DEF Ordered
        <5> QED
          BY <5>1
      <4>2. trades = <<>>
        BY <1>1, <4>1
      <4> QED
        BY <2>1, <2>2, <3>1, <4>2
    <3>2. CASE bar # 0
      <4>1. bar \in 1 .. bar /\ bar > 0 /\ (bar + 1) - 1 = bar /\ bar + 1 # 1
        BY <1>1, <3>2
      <4>2. curve'[bar] = equity
        BY <2>1, <2>4, <2>5, <4>1 DEF OnCurve
      <4> QED
        BY <2>1, <2>2, <2>5, <4>1, <4>2
    <3> QED
      BY <3>1, <3>2
  <2>9. OnCurve'
    BY <2>1, <2>3, <2>7, <2>8 DEF OnCurve
  <2> QED
    BY <2>6, <2>9 DEF Accounts
<1>7. CASE Waits
  <2>1. /\ trades' = trades /\ position' = Null /\ equity' = equity
        /\ position = Null /\ phase = "running" /\ Running /\ Seen(equity)
    BY <1>7 DEF Waits, Running
  <2>2. (\A i \in 1 .. bar : curve'[i] = curve[i]) /\ curve'[bar'] = equity
    BY <1>1, <2>1, SeenTypes
  <2>3. equity = Balance(trades, Len(trades)) - (IF position = Null THEN 0 ELSE position.fee) /\ OnCurve
    BY <2>1 DEF Accounts
  <2>4. \A k \in DOMAIN trades : Shown(curve', trades, k)
    BY <1>2, <2>2, <2>3, TradesStayShown
  <2>5. OnCurve'
    BY <2>1, <2>2, <2>4 DEF OnCurve
  <2> QED
    BY <2>1, <2>3, <2>5 DEF Accounts
<1>8. CASE Holds
  <2>1. /\ trades' = trades /\ position' = position /\ equity' = equity
        /\ position # Null /\ phase = "running" /\ Running
        /\ Seen(Mark(position, equity, Candle.close))
    BY <1>8 DEF Holds, Running
  <2>2. position \in Positions /\ position.opened \in Int
    BY <2>1 DEF SimTypeOK, Positions
  <2>3. Mark(position, equity, Candle.close) \in Int
    <3>1. Candle.close \in Int
      BY <2>1, CandleIsBar DEF Running
    <3>2. Gross(position.side, position.size, position.entry, Candle.close) \in Int
      BY <2>2, <3>1, GrossIsInt DEF Positions
    <3> QED
      BY <1>1, <3>2 DEF Mark
  <2>4. \A i \in 1 .. bar : curve'[i] = curve[i]
    BY <2>1, <2>3, SeenTypes
  <2>5. equity = Balance(trades, Len(trades)) - (IF position = Null THEN 0 ELSE position.fee) /\ OnCurve
    BY <2>1 DEF Accounts
  <2>6. \A k \in DOMAIN trades : Shown(curve', trades, k)
    BY <1>2, <2>4, <2>5, TradesStayShown
  <2>7. position.opened = 1 \/ position.opened - 1 \in 1 .. bar
    BY <1>1, <1>2, <2>1, <2>2 DEF Holding
  <2>8. OnCurve'
    BY <2>1, <2>4, <2>5, <2>6, <2>7 DEF OnCurve
  <2> QED
    BY <2>1, <2>5, <2>8 DEF Accounts
<1>9. CASE Exits
  <2> DEFINE t == Closing(ExitPrice, bar + 1)
  <2>1. /\ position' = Null /\ bar' = bar + 1 /\ phase = "running"
        /\ trades' = Append(trades, t) /\ equity' = equity + t.credit
        /\ position # Null /\ ExitPrice # Null /\ Running /\ Seen(equity + t.credit)
    BY <1>9 DEF Exits, Closes, Seen, Running
  <2>2. position \in Positions /\ position.opened \in Int /\ ExitPrice \in Int
    BY <2>1, ExitPriceTells DEF SimTypeOK, Positions
  <2>3. /\ t \in Trade /\ t.opened = position.opened /\ t.closed = bar + 1
        /\ t.pnl = t.credit - position.fee
    BY <1>1, <2>2, ClosingIsTrade
  <2> HIDE DEF t
  <2>4. equity + t.credit \in Int
    <3>1. t.credit \in Int
      BY <2>3 DEF Trade
    <3> QED
      BY <1>1, <3>1
  <2>5. (\A i \in 1 .. bar : curve'[i] = curve[i]) /\ curve'[bar'] = equity'
    BY <2>1, <2>4, SeenTypes
  <2>6. \A i \in 1 .. position.opened - 1 : curve'[i] = curve[i]
    <3>1. \A i \in 1 .. position.opened - 1 : i \in 1 .. bar
      BY <1>1, <1>2, <2>1, <2>2 DEF Holding
    <3> QED
      BY <2>5, <3>1
  <2>7. equity = Balance(trades, Len(trades)) - position.fee /\ OnCurve
    BY <2>1 DEF Accounts
  <2>8. equity' = Balance(trades', Len(trades')) /\ OnCurve'
    BY <1>2, <2>1, <2>3, <2>5, <2>6, <2>7, TradeJoinsBooks
  <2>9. equity' \in Int
    BY <2>1, <2>4
  <2> QED
    BY <2>1, <2>8, <2>9 DEF Accounts
<1>10. CASE Finishes /\ position = Null
  <2>1. UNCHANGED <<spec, bars, bar, equity, position, trades, curve>> /\ phase = "running"
    BY <1>10 DEF Finishes
  <2>2. equity = Balance(trades, Len(trades)) - (IF position = Null THEN 0 ELSE position.fee) /\ OnCurve
    BY <2>1 DEF Accounts
  <2>3. OnCurve'
    BY <2>1, <2>2 DEF OnCurve
  <2> QED
    BY <2>1, <2>2, <2>3 DEF Accounts
<1>11. CASE Finishes /\ position # Null
  <2> DEFINE price == Slipped(Last(bars).close, position.side, FALSE)
             t == Closing(price, Len(bars))
  <2>1. /\ bar' = bar /\ bar = Len(bars) /\ phase = "running"
        /\ position' = Null /\ trades' = Append(trades, t) /\ equity' = equity + t.credit
        /\ curve' = ReplaceAt(curve, Len(curve), equity + t.credit)
    BY <1>11 DEF Finishes, Closes
  <2>2. position \in Positions /\ position.opened \in Int
    BY <1>11 DEF SimTypeOK, Positions
  <2>3. 1 <= position.opened /\ position.opened <= bar
    BY <1>2, <1>11 DEF Holding
  <2>4. price \in Int
    <3>1. Last(bars) \in Bar
      BY <1>1, <2>1, <2>2, <2>3 DEF Last, SimTypeOK
    <3>2. Last(bars).close \in Int
      BY <3>1 DEF Bar
    <3> QED
      BY <3>2, SlippedIsInt
  <2> HIDE DEF price
  <2>5. /\ t \in Trade /\ t.opened = position.opened /\ t.closed = bar
        /\ t.pnl = t.credit - position.fee
    BY <1>1, <2>1, <2>2, <2>4, ClosingIsTrade
  <2> HIDE DEF t
  <2>6. equity + t.credit \in Int
    <3>1. t.credit \in Int
      BY <2>5 DEF Trade
    <3> QED
      BY <1>1, <3>1
  <2>7. curve'[bar] = equity' /\ \A i \in 1 .. bar - 1 : curve'[i] = curve[i]
    <3>1. curve \in Seq(Int) /\ Len(curve) = bar /\ bar \in 1 .. bar
          /\ \A i \in 1 .. bar - 1 : i \in 1 .. bar /\ i # bar
      BY <1>1, <2>2, <2>3 DEF SimTypeOK
    <3>2. curve' = [curve EXCEPT ![bar] = equity + t.credit]
      BY <2>1, <3>1 DEF ReplaceAt
    <3> DEFINE point == equity + t.credit
    <3>3. point \in Int /\ equity' = point
      BY <2>1, <2>6
    <3>4. curve' = [curve EXCEPT ![bar] = point]
      BY <3>2
    <3> HIDE DEF point
    <3>5. \A j \in 1 .. bar : curve'[j] = IF j = bar THEN point ELSE curve[j]
      BY <3>1, <3>3, <3>4, ExceptSeq
    <3> QED
      BY <3>1, <3>3, <3>5
  <2>8. \A i \in 1 .. position.opened - 1 : curve'[i] = curve[i]
    <3>1. \A i \in 1 .. position.opened - 1 : i \in 1 .. bar - 1
      BY <1>1, <2>2, <2>3
    <3> QED
      BY <2>7, <3>1
  <2>9. equity = Balance(trades, Len(trades)) - position.fee /\ OnCurve
    BY <1>11, <2>1 DEF Accounts
  <2>10. equity' = Balance(trades', Len(trades')) /\ OnCurve'
    BY <1>2, <1>11, <2>1, <2>5, <2>7, <2>8, <2>9, TradeJoinsBooks
  <2>11. equity' \in Int
    BY <2>1, <2>6
  <2> QED
    BY <2>1, <2>10, <2>11 DEF Accounts
<1>12. CASE UNCHANGED simVars
  BY <1>12 DEF simVars, Accounts, OnCurve
<1> QED
  BY <1>4, <1>5, <1>6, <1>7, <1>8, <1>9, <1>10, <1>11, <1>12 DEF Moves, SimStep

-----------------------------------------------------------------------------
(* What the metrics of a report say, for any trades and any curve.         *)

LEMMA SumOfZeros ==
    ASSUME NEW f, NEW S, IsFiniteSet(S), \A x \in S : f[x] = 0
    PROVE  SumOf(f, S) = 0
<1> DEFINE Good == {T \in SUBSET S : SumOf(f, T) = 0}
<1>1. ASSUME NEW T \in SUBSET S, \A x \in T : T \ {x} \in Good PROVE T \in Good
  <2>1. IsFiniteSet(T)
    BY FS_Subset
  <2>2. CASE T = {}
    BY <2>1, <2>2, SumUnfolds
  <2>3. CASE T # {}
    <3>1. Chosen(T) \in T /\ SumOf(f, T) = f[Chosen(T)] + SumOf(f, T \ {Chosen(T)})
      BY <2>1, <2>3, SumUnfolds
    <3>2. SumOf(f, T \ {Chosen(T)}) = 0 /\ f[Chosen(T)] = 0
      BY <1>1, <3>1
    <3>3. SumOf(f, T) = 0
      BY <3>1, <3>2
    <3> QED
      BY <3>3
  <2> QED
    BY <2>2, <2>3
<1>2. \A T \in SUBSET S : T \in Good
  <2> HIDE DEF Good
  <2> QED
    BY <1>1, SubsetInduction
<1> QED
  BY <1>2

LEMMA PnLIsInt ==
    ASSUME NEW ts \in Seq(Trade)
    PROVE  /\ DOMAIN ts = 1 .. Len(ts) /\ IsFiniteSet(DOMAIN ts)
           /\ \A k \in DOMAIN ts : PnL(ts)[k] \in Int /\ PnL(ts)[k] = ts[k].pnl
<1>1. DOMAIN ts = 1 .. Len(ts) /\ Len(ts) \in Nat /\ \A k \in DOMAIN ts : ts[k] \in Trade
  OBVIOUS
<1> QED
  BY <1>1, FS_Interval DEF PnL, Trade

\* All that was won and lost is what the winners won and the losers lost.
LEMMA WonAndLost ==
    ASSUME NEW ts \in Seq(Trade)
    PROVE  LET f == PnL(ts)
           IN  /\ SumOf(f, DOMAIN ts) = SumOf(f, Winners(ts)) + SumOf(f, Losers(ts))
               /\ SumOf(f, Winners(ts)) \in Int /\ SumOf(f, Losers(ts)) \in Int
<1> DEFINE f == PnL(ts)
           D == DOMAIN ts
           W == Winners(ts)
           L == Losers(ts)
           rest == D \ W
           zeros == rest \ L
<1>1. IsFiniteSet(D) /\ \A k \in D : f[k] \in Int /\ f[k] = ts[k].pnl
  BY PnLIsInt
<1>2. W \subseteq D /\ L \subseteq rest /\ \A k \in zeros : k \in D /\ f[k] = 0
  <2>1. \A k \in D : k \in W <=> f[k] > 0
    BY <1>1 DEF Winners
  <2>2. \A k \in D : k \in L <=> f[k] < 0
    BY <1>1 DEF Losers
  <2>3. W \subseteq D /\ L \subseteq D
    BY DEF Winners, Losers
  <2> QED
    BY <1>1, <2>1, <2>2, <2>3
<1> HIDE DEF f, D, W, L
<1>3. /\ IsFiniteSet(W) /\ IsFiniteSet(rest) /\ IsFiniteSet(L) /\ IsFiniteSet(zeros)
  BY <1>1, <1>2, FS_Subset
<1>4. SumOf(f, D) = SumOf(f, W) + SumOf(f, rest)
  BY <1>1, <1>2, SumOfParts
<1>5. SumOf(f, rest) = SumOf(f, L) + SumOf(f, zeros)
  BY <1>1, <1>2, <1>3, SumOfParts
<1>6. SumOf(f, zeros) = 0
  BY <1>2, <1>3, SumOfZeros
<1>7. SumOf(f, W) \in Int /\ SumOf(f, L) \in Int
  BY <1>1, <1>2, <1>3, SumIsInt
<1> HIDE DEF rest, zeros
<1>8. SumOf(f, D) = SumOf(f, W) + SumOf(f, L)
  BY <1>4, <1>5, <1>6, <1>7
<1> QED
  BY <1>7, <1>8 DEF f, D, W, L

\* If all the trades won, the sum is above zero.
LEMMA AllWinnersWin ==
    ASSUME NEW ts \in Seq(Trade), WinRate(ts)[1] = WinRate(ts)[2]
    PROVE  SumOf(PnL(ts), DOMAIN ts) > 0
<1> DEFINE f == PnL(ts)
           D == DOMAIN ts
<1>1. ts # <<>> /\ Cardinality(Winners(ts)) = Len(ts)
  BY DEF WinRate
<1>2. /\ D = 1 .. Len(ts) /\ IsFiniteSet(D) /\ Len(ts) \in Nat /\ 1 \in D
      /\ \A k \in D : f[k] \in Int /\ f[k] = ts[k].pnl
  BY <1>1, PnLIsInt
<1>3. Cardinality(D) = Len(ts)
  <2> DEFINE n == Len(ts)
  <2>1. n \in Nat /\ ~(1 > n)
    BY <1>2
  <2> HIDE DEF n
  <2>2. Cardinality(1 .. n) = n - 1 + 1
    BY <2>1, FS_Interval
  <2>3. Cardinality(1 .. n) = n
    BY <2>1, <2>2
  <2> QED
    BY <1>2, <2>3 DEF n
<1>4. Winners(ts) = D
  BY <1>1, <1>2, <1>3, FS_Subset DEF Winners
<1>5. \A k \in D : f[k] > 0
  BY <1>2, <1>4 DEF Winners
<1> HIDE DEF f, D
<1>6. \A k \in D : f[k] \in Int /\ f[k] >= 0
  BY <1>2, <1>5
<1>7. SumOf(f, D) \in Int /\ f[1] <= SumOf(f, D)
  BY <1>2, <1>6, SumSigns
<1>8. SumOf(f, D) > 0
  BY <1>2, <1>5, <1>7
<1> QED
  BY <1>8 DEF f, D

LEMMA PeakIsHighest ==
    ASSUME NEW c \in Seq(Int), NEW k \in 1 .. Len(c)
    PROVE  /\ PeakAt(c, k) \in Int /\ PeakAt(c, k) >= 0
           /\ \A j \in 1 .. k : c[j] <= PeakAt(c, k)
<1> DEFINE points == {c[j] : j \in 1 .. k}
           f == [j \in 1 .. k |-> c[j]]
           S == {0} \union points
<1>1. k \in Nat /\ \A j \in 1 .. k : c[j] \in Int
  OBVIOUS
<1>2. IsFiniteSet(points)
  <2>1. f \in Surjection(1 .. k, points)
    BY DEF Surjection
  <2> QED
    BY <1>1, <2>1, FS_Interval, FS_Surjection
<1>3. IsFiniteSet(S) /\ S # {}
  BY <1>2, FS_AddElement, FS_Union, FS_Singleton
<1>4. \A z \in S : z \in Int
  BY <1>1
<1>5. Max(S) \in S /\ \A z \in S : z <= Max(S)
  BY <1>3, <1>4, MaxIsLargest
<1>6. PeakAt(c, k) = Max(S)
  BY DEF PeakAt
<1>7. 0 \in S /\ \A j \in 1 .. k : c[j] \in S
  OBVIOUS
<1> HIDE DEF S
<1> QED
  BY <1>4, <1>5, <1>6, <1>7

LEMMA FallIsShare ==
    ASSUME NEW c \in Seq(Int), NEW k \in 1 .. Len(c)
    PROVE  LET p == FallAt(c, k) IN p[1] \in Int /\ p[2] \in Int /\ p[2] > 0
<1>1. PeakAt(c, k) \in Int /\ PeakAt(c, k) >= 0 /\ c[k] \in Int
  BY PeakIsHighest
<1>2. CASE PeakAt(c, k) = 0
  BY <1>2 DEF FallAt
<1>3. CASE PeakAt(c, k) # 0
  <2>1. FallAt(c, k)[1] = PeakAt(c, k) - c[k] /\ FallAt(c, k)[2] = PeakAt(c, k)
    BY <1>3 DEF FallAt
  <2> QED
    BY <1>1, <1>3, <2>1
<1> QED
  BY <1>2, <1>3

\* Of three shares, a smaller one of a smaller one is smaller.
LEMMA SharesOrder ==
    ASSUME NEW r, NEW s, NEW t,
           \A z \in {r, s, t} : z[1] \in Int /\ z[2] \in Int /\ z[2] > 0,
           NoMore(r, s), NoMore(s, t)
    PROVE  NoMore(r, t)
<1> DEFINE a == r[1]
           b == r[2]
           x == s[1]
           y == s[2]
           u == t[1]
           v == t[2]
<1>0. /\ a \in Int /\ b \in Int /\ x \in Int /\ y \in Int /\ u \in Int /\ v \in Int
      /\ b > 0 /\ y > 0 /\ v > 0 /\ a * y <= x * b /\ x * v <= u * y
  BY DEF NoMore
<1> SUFFICES a * v <= u * b
  BY DEF NoMore
<1> HIDE DEF a, b, x, y, u, v
<1>1. (a * y) * v <= (x * b) * v
  <2> DEFINE m == a * y
             n == x * b
  <2>1. m \in Int /\ n \in Int /\ m <= n
    BY <1>0
  <2> HIDE DEF m, n
  <2>2. m * v <= n * v
    BY <1>0, <2>1
  <2> QED
    BY <2>2 DEF m, n
<1>2. (x * v) * b <= (u * y) * b
  <2> DEFINE m == x * v
             n == u * y
  <2>1. m \in Int /\ n \in Int /\ m <= n
    BY <1>0
  <2> HIDE DEF m, n
  <2>2. m * b <= n * b
    BY <1>0, <2>1
  <2> QED
    BY <2>2 DEF m, n
<1>3. (x * b) * v = (x * v) * b /\ (a * y) * v = (a * v) * y /\ (u * y) * b = (u * b) * y
  BY <1>0
<1> DEFINE p == a * v
           q == u * b
<1>4. p * y <= q * y
  <2> DEFINE d == (x * b) * v
             e == (a * y) * v
             g == (u * y) * b
  <2>1. d \in Int /\ e \in Int /\ g \in Int /\ e <= d /\ d <= g /\ e = p * y /\ g = q * y
    BY <1>0, <1>1, <1>2, <1>3
  <2> HIDE DEF d, e, g
  <2>2. e <= g
    BY <2>1
  <2> HIDE DEF p, q
  <2> QED
    BY <2>1, <2>2
<1>5. p \in Int /\ q \in Int
  BY <1>0
<1> HIDE DEF p, q
<1>6. ASSUME p > q PROVE FALSE
  <2>1. p - q \in Int /\ p - q > 0
    BY <1>5, <1>6
  <2>2. (p - q) * y > 0
    BY <1>0, <2>1
  <2>3. (p - q) * y = p * y - q * y
    BY <1>0, <1>5
  <2> QED
    <3> DEFINE m == p * y
               n == q * y
    <3>1. m \in Int /\ n \in Int /\ m <= n /\ m - n > 0
      BY <1>0, <1>4, <1>5, <2>2, <2>3
    <3> HIDE DEF m, n
    <3> QED
      BY <3>1
<1> QED
  BY <1>5, <1>6 DEF p, q

LEMMA DeepestExists ==
    ASSUME NEW c \in Seq(Int), c # <<>>
    PROVE  \E m \in 1 .. Len(c) : \A k \in 1 .. Len(c) : NoMore(FallAt(c, k), FallAt(c, m))
<1> DEFINE N == Len(c)
           Deepest(n) == \E m \in 1 .. n : \A k \in 1 .. n : NoMore(FallAt(c, k), FallAt(c, m))
           Good == {n \in Nat : 1 <= n /\ n <= N => Deepest(n)}
<1>1. N \in Nat /\ N >= 1
  OBVIOUS
<1>2. \A k \in 1 .. N : FallAt(c, k)[1] \in Int /\ FallAt(c, k)[2] \in Int /\ FallAt(c, k)[2] > 0
  BY FallIsShare
<1> HIDE DEF N
<1>3. \A k \in 1 .. N : NoMore(FallAt(c, k), FallAt(c, k))
  <2> SUFFICES ASSUME NEW k \in 1 .. N PROVE NoMore(FallAt(c, k), FallAt(c, k))
    OBVIOUS
  <2> DEFINE n == FallAt(c, k)[1] * FallAt(c, k)[2]
  <2>1. n \in Int
    BY <1>2
  <2>2. n <= n
    BY <2>1
  <2> QED
    BY <2>2 DEF NoMore
<1>4. 0 \in Good
  OBVIOUS
<1>5. ASSUME NEW n \in Nat, n \in Good PROVE n + 1 \in Good
  <2> SUFFICES ASSUME n + 1 <= N PROVE Deepest(n + 1)
    OBVIOUS
  <2>1. CASE n = 0
    <3>1. 1 .. n + 1 = {1} /\ 1 \in 1 .. N
      BY <1>1, <2>1
    <3> QED
      BY <1>3, <3>1
  <2>2. CASE n # 0
    <3>1. PICK m \in 1 .. n : \A k \in 1 .. n : NoMore(FallAt(c, k), FallAt(c, m))
      BY <1>1, <1>5, <2>2
    <3>2. /\ m \in 1 .. N /\ n + 1 \in 1 .. N /\ m \in 1 .. n + 1 /\ n + 1 \in 1 .. n + 1
          /\ \A k \in 1 .. n + 1 : k = n + 1 \/ k \in 1 .. n
          /\ \A k \in 1 .. n : k \in 1 .. N
      BY <1>1
    <3> DEFINE p == FallAt(c, m)
               q == FallAt(c, n + 1)
    <3>3. p[1] \in Int /\ p[2] \in Int /\ p[2] > 0 /\ q[1] \in Int /\ q[2] \in Int /\ q[2] > 0
      BY <1>2, <3>2
    <3> HIDE DEF p, q
    <3>4. CASE NoMore(q, p)
      <4>1. \A k \in 1 .. n + 1 : NoMore(FallAt(c, k), FallAt(c, m))
        BY <3>1, <3>2, <3>4 DEF p, q
      <4> QED
        BY <3>2, <4>1
    <3>5. CASE NoMore(p, q)
      <4>1. ASSUME NEW k \in 1 .. n PROVE NoMore(FallAt(c, k), q)
        <5> DEFINE r == FallAt(c, k)
        <5>1. r[1] \in Int /\ r[2] \in Int /\ r[2] > 0 /\ NoMore(r, p)
          BY <1>2, <3>1, <3>2 DEF p
        <5> HIDE DEF r
        <5>2. NoMore(r, q)
          BY <3>3, <3>5, <5>1, SharesOrder
        <5> QED
          BY <5>2 DEF r
      <4>2. NoMore(FallAt(c, n + 1), q)
        BY <1>3, <3>2 DEF q
      <4>3. \A k \in 1 .. n + 1 : NoMore(FallAt(c, k), FallAt(c, n + 1))
        BY <3>2, <4>1, <4>2 DEF q
      <4> QED
        BY <3>2, <4>3
    <3>6. NoMore(p, q) \/ NoMore(q, p)
      <4> DEFINE u == p[1] * q[2]
                 v == q[1] * p[2]
      <4>1. u \in Int /\ v \in Int
        BY <3>3
      <4>2. u <= v \/ v <= u
        BY <4>1
      <4> QED
        BY <4>2 DEF NoMore
    <3> QED
      BY <3>4, <3>5, <3>6
  <2> QED
    BY <2>1, <2>2
<1>6. N \in Good
  <2> HIDE DEF Good
  <2> QED
    BY <1>1, <1>4, <1>5, NatSetInduction
<1> QED
  BY <1>1, <1>6 DEF N

\* A curve that starts above zero and has no drawdown never falls.
LEMMA NoDrawdownNoFall ==
    ASSUME NEW c \in Seq(Int), c # <<>>, c[1] > 0, MaxDrawdown(c)[1] = 0
    PROVE  \A k \in 1 .. Len(c) : \A j \in 1 .. k : c[j] <= c[k]
<1> DEFINE Falls == {FallAt(c, k) : k \in DOMAIN c}
           d == CHOOSE d \in Falls : \A k \in DOMAIN c : NoMore(FallAt(c, k), d)
<1>1. DOMAIN c = 1 .. Len(c) /\ Len(c) \in Nat
  OBVIOUS
<1>2. \E e \in Falls : \A k \in DOMAIN c : NoMore(FallAt(c, k), e)
  <2>1. PICK m \in 1 .. Len(c) : \A k \in 1 .. Len(c) : NoMore(FallAt(c, k), FallAt(c, m))
    BY DeepestExists
  <2> QED
    BY <1>1, <2>1
<1>3. d \in Falls /\ \A k \in DOMAIN c : NoMore(FallAt(c, k), d)
  BY <1>2
<1>4. d[1] \in Int /\ d[2] \in Int /\ d[2] > 0
  <2>1. PICK m \in 1 .. Len(c) : d = FallAt(c, m)
    BY <1>1, <1>3
  <2> HIDE DEF d
  <2> QED
    BY <2>1, FallIsShare
<1>5. MaxDrawdown(c) = IF d[1] > d[2] THEN <<1, 1>> ELSE d
  BY DEF MaxDrawdown
<1> HIDE DEF d
<1>6. d[1] = 0
  <2>1. CASE d[1] > d[2]
    BY <1>5, <2>1
  <2>2. CASE ~(d[1] > d[2])
    BY <1>5, <2>2
  <2> QED
    BY <2>1, <2>2
<1>7. ASSUME NEW k \in 1 .. Len(c), NEW j \in 1 .. k PROVE c[j] <= c[k]
  <2>1. /\ PeakAt(c, k) \in Int /\ c[k] \in Int /\ c[j] \in Int /\ c[1] \in Int
        /\ c[j] <= PeakAt(c, k) /\ c[1] <= PeakAt(c, k)
    <3>1. j \in 1 .. Len(c) /\ 1 \in 1 .. k /\ 1 \in 1 .. Len(c)
      OBVIOUS
    <3> QED
      BY <3>1, PeakIsHighest
  <2>2. PeakAt(c, k) # 0
    BY <2>1
  <2> DEFINE p == FallAt(c, k)
  <2>3. p[1] = PeakAt(c, k) - c[k]
    BY <2>2 DEF FallAt
  <2>4. p[1] * d[2] <= d[1] * p[2] /\ p[1] \in Int /\ p[2] \in Int
    BY <1>1, <1>3, FallIsShare DEF NoMore
  <2> HIDE DEF p
  <2>5. d[1] * p[2] = 0
    BY <1>6, <2>4
  <2>6. p[1] * d[2] <= 0
    BY <2>4, <2>5
  <2>7. p[1] <= 0
    <3> DEFINE x == p[1]
               y == d[2]
    <3>1. x \in Int /\ y \in Int /\ y > 0 /\ x * y <= 0
      BY <1>4, <2>4, <2>6
    <3> HIDE DEF x, y
    <3>2. x > 0 => x * y > 0
      BY <3>1
    <3>3. x <= 0
      BY <3>1, <3>2
    <3> QED
      BY <3>3 DEF x
  <2> QED
    BY <2>1, <2>3, <2>7
<1> QED
  BY <1>7

-----------------------------------------------------------------------------
(* An indicator over the first bars is the start of the one over them all. *)

Agree(f, h, n) == \A i \in 1 .. n : f[i] = h[i]

LEMMA MeansAgree ==
    ASSUME NEW f, NEW h, NEW n \in Nat, Agree(f, h, n),
           NEW from \in Int, NEW to \in Int, 1 <= from, to <= n
    PROVE  MeanOf(f, from, to) = MeanOf(h, from, to)
<1>1. IsFiniteSet(from .. to) /\ \A x \in from .. to : x \in 1 .. n
  BY FS_Interval
<1>2. \A x \in from .. to : f[x] = h[x]
  BY <1>1 DEF Agree
<1>3. SumOf(f, from .. to) = SumOf(h, from .. to)
  BY <1>1, <1>2, SumIsOfValues
<1>4. /\ MeanOf(f, from, to) = SumOf(f, from .. to) \div (to - from + 1)
      /\ MeanOf(h, from, to) = SumOf(h, from .. to) \div (to - from + 1)
  BY DEF MeanOf, SumOf
<1> QED
  BY <1>3, <1>4

\* What EMA and Wilder's smoothing share: nothing, a first mean, and then the
\* share x of each bar with w times the value before; they add them up in
\* either order.
Recurs(g, p, start, x, w, d, order, i) ==
    IF i < p THEN NaN
    ELSE IF i = p THEN start
    ELSE (IF order = "before" THEN w * g[i - 1] + x[i] ELSE x[i] + w * g[i - 1]) \div d

RecursOn(g, n, p, start, x, w, d, order) ==
    g = [i \in 1 .. n |-> Recurs(g, p, start, x, w, d, order, i)]

LEMMA RecursApplies ==
    ASSUME NEW g, NEW n, NEW p, NEW start, NEW x, NEW w, NEW d, NEW order,
           RecursOn(g, n, p, start, x, w, d, order), NEW i \in 1 .. n
    PROVE  g[i] = Recurs(g, p, start, x, w, d, order, i)
<1>1. g = [k \in 1 .. n |-> Recurs(g, p, start, x, w, d, order, k)]
  BY DEF RecursOn
<1>2. [k \in 1 .. n |-> Recurs(g, p, start, x, w, d, order, k)][i] = Recurs(g, p, start, x, w, d, order, i)
  OBVIOUS
<1> QED
  BY <1>1, <1>2

LEMMA RecursExists ==
    ASSUME NEW p \in Nat \ {0}, NEW start, NEW x, NEW w, NEW d, NEW order
    PROVE  \A n \in Nat : \E g : RecursOn(g, n, p, start, x, w, d, order)
<1> DEFINE Good == {n \in Nat : \E g : RecursOn(g, n, p, start, x, w, d, order)}
<1>1. 0 \in Good
  <2> DEFINE g == [i \in 1 .. 0 |-> 0]
  <2>1. g = [i \in 1 .. 0 |-> Recurs(g, p, start, x, w, d, order, i)]
    <3>1. \A i \in 1 .. 0 : FALSE
      OBVIOUS
    <3> QED
      BY <3>1
  <2> HIDE DEF g
  <2> QED
    BY <2>1 DEF RecursOn
<1>2. ASSUME NEW n \in Nat, n \in Good PROVE n + 1 \in Good
  <2>1. PICK g : RecursOn(g, n, p, start, x, w, d, order)
    BY <1>2
  <2> DEFINE h == [i \in 1 .. n + 1 |-> Recurs(g, p, start, x, w, d, order, i)]
  <2>2. ASSUME NEW i \in 1 .. n + 1
        PROVE  Recurs(h, p, start, x, w, d, order, i) = Recurs(g, p, start, x, w, d, order, i)
    <3>1. CASE i <= p
      BY <3>1 DEF Recurs
    <3>2. CASE ~(i <= p)
      <4>1. i - 1 \in 1 .. n /\ i - 1 \in 1 .. n + 1
        BY <3>2
      <4>2. g[i - 1] = Recurs(g, p, start, x, w, d, order, i - 1)
        BY <2>1, <4>1, RecursApplies
      <4>3. h[i - 1] = Recurs(g, p, start, x, w, d, order, i - 1)
        BY <4>1
      <4> HIDE DEF h
      <4>4. h[i - 1] = g[i - 1]
        BY <4>2, <4>3
      <4> QED
        BY <4>4 DEF Recurs
    <3> QED
      BY <3>1, <3>2
  <2>3. h = [i \in 1 .. n + 1 |-> Recurs(h, p, start, x, w, d, order, i)]
    BY <2>2
  <2> HIDE DEF h
  <2>4. RecursOn(h, n + 1, p, start, x, w, d, order) /\ n + 1 \in Nat
    BY <2>3 DEF RecursOn
  <2> QED
    BY <2>4
<1>3. \A n \in Nat : n \in Good
  <2> HIDE DEF Good
  <2> QED
    BY <1>1, <1>2, NatSetInduction
<1> QED
  BY <1>3

LEMMA RecursAgree ==
    ASSUME NEW p \in Nat \ {0}, NEW w, NEW d, NEW order, NEW N \in Nat, NEW n \in 1 .. N,
           NEW f, NEW start, NEW x, RecursOn(f, N, p, start, x, w, d, order),
           NEW h, NEW first, NEW y, RecursOn(h, n, p, first, y, w, d, order),
           Agree(x, y, n), p <= n => start = first
    PROVE  Agree(f, h, n)
<1> DEFINE Good == {i \in Nat : i \in 1 .. n => f[i] = h[i]}
<1>1. 0 \in Good
  OBVIOUS
<1>2. ASSUME NEW k \in Nat, k \in Good PROVE k + 1 \in Good
  <2> DEFINE i == k + 1
  <2>1. i \in Nat /\ i - 1 = k
    OBVIOUS
  <2> SUFFICES ASSUME i \in 1 .. n PROVE f[i] = h[i]
    BY <2>1
  <2> HIDE DEF i
  <2>2. i \in 1 .. N
    OBVIOUS
  <2>3. /\ f[i] = Recurs(f, p, start, x, w, d, order, i)
        /\ h[i] = Recurs(h, p, first, y, w, d, order, i)
    BY <2>2, RecursApplies
  <2>4. CASE i < p
    BY <2>3, <2>4 DEF Recurs
  <2>5. CASE i = p
    <3>1. start = first
      BY <2>5
    <3> QED
      BY <2>3, <2>5, <3>1 DEF Recurs
  <2>6. CASE i > p
    <3>1. x[i] = y[i] /\ f[i - 1] = h[i - 1]
      BY <1>2, <2>1, <2>6 DEF Agree
    <3> QED
      BY <2>3, <2>6, <3>1 DEF Recurs
  <2> QED
    BY <2>2, <2>4, <2>5, <2>6
<1>3. \A i \in Nat : i \in Good
  <2> HIDE DEF Good
  <2> QED
    BY <1>1, <1>2, NatSetInduction
<1> QED
  BY <1>3 DEF Agree

\* A series f over N bars, and h over the first n of them.
BeginsAs(f, h, N, n) == /\ N \in Nat /\ n \in 1 .. N
                       /\ DOMAIN f = 1 .. N /\ DOMAIN h = 1 .. n
                       /\ Len(f) = N /\ Len(h) = n
                       /\ Agree(f, h, n)

LEMMA SMAAgree ==
    ASSUME NEW f, NEW h, NEW N, NEW n, BeginsAs(f, h, N, n), NEW p \in Nat \ {0}
    PROVE  Agree(SMA(f, p), SMA(h, p), n)
<1> USE DEF BeginsAs
<1> SUFFICES ASSUME NEW i \in 1 .. n PROVE SMA(f, p)[i] = SMA(h, p)[i]
  BY DEF Agree
<1>1. i \in 1 .. N
  OBVIOUS
<1>2. /\ SMA(f, p)[i] = IF i < p THEN NaN ELSE MeanOf(f, i - p + 1, i)
      /\ SMA(h, p)[i] = IF i < p THEN NaN ELSE MeanOf(h, i - p + 1, i)
  BY <1>1 DEF SMA
<1>3. i >= p => MeanOf(f, i - p + 1, i) = MeanOf(h, i - p + 1, i)
  BY MeansAgree
<1> QED
  BY <1>2, <1>3

LEMMA EMAAgree ==
    ASSUME NEW f, NEW h, NEW N, NEW n, BeginsAs(f, h, N, n), NEW p \in Nat \ {0}
    PROVE  Agree(EMA(f, p), EMA(h, p), n)
<1> DEFINE x == [i \in DOMAIN f |-> 2 * f[i]]
           y == [i \in DOMAIN h |-> 2 * h[i]]
<1>1. ASSUME NEW u, NEW m \in Nat, DOMAIN u = 1 .. m
      PROVE  RecursOn(EMA(u, p), m, p, MeanOf(u, 1, p), [i \in DOMAIN u |-> 2 * u[i]], p - 1, p + 1, "after")
  <2> DEFINE z == [i \in DOMAIN u |-> 2 * u[i]]
  <2> DEFINE Code(g) == [i \in DOMAIN u |-> IF i < p THEN NaN
                                            ELSE IF i = p THEN MeanOf(u, 1, p)
                                            ELSE (2 * u[i] + (p - 1) * g[i - 1]) \div (p + 1)]
             Form(g) == [i \in 1 .. m |-> Recurs(g, p, MeanOf(u, 1, p), z, p - 1, p + 1, "after", i)]
  <2>1. ASSUME NEW g PROVE Code(g) = Form(g)
    <3>1. \A i \in 1 .. m : Recurs(g, p, MeanOf(u, 1, p), z, p - 1, p + 1, "after", i)
                            = IF i < p THEN NaN
                              ELSE IF i = p THEN MeanOf(u, 1, p)
                              ELSE (2 * u[i] + (p - 1) * g[i - 1]) \div (p + 1)
      BY <1>1 DEF Recurs
    <3> QED
      BY <1>1, <3>1
  <2>2. EMA(u, p) = CHOOSE g : g = Code(g)
    BY DEF EMA
  <2>3. EMA(u, p) = CHOOSE g : g = Form(g)
    <3> HIDE DEF Code, Form
    <3> QED
      BY <2>1, <2>2
  <2>4. \A g : RecursOn(g, m, p, MeanOf(u, 1, p), z, p - 1, p + 1, "after") <=> g = Form(g)
    BY DEF RecursOn
  <2> HIDE DEF z
  <2>5. \E g : RecursOn(g, m, p, MeanOf(u, 1, p), z, p - 1, p + 1, "after")
    BY RecursExists
  <2> HIDE DEF Form
  <2>6. EMA(u, p) = Form(EMA(u, p))
    BY <2>3, <2>5, <2>4
  <2> QED
    BY <2>4, <2>6 DEF z
<1>2. /\ RecursOn(EMA(f, p), N, p, MeanOf(f, 1, p), x, p - 1, p + 1, "after")
      /\ RecursOn(EMA(h, p), n, p, MeanOf(h, 1, p), y, p - 1, p + 1, "after")
  <2>1. /\ N \in Nat /\ n \in Nat /\ DOMAIN f = 1 .. N /\ DOMAIN h = 1 .. n
        /\ Len(f) = N /\ Len(h) = n
    BY DEF BeginsAs
  <2> QED
    BY <1>1, <2>1
<1>3. Agree(x, y, n)
  <2>1. \A i \in 1 .. n : i \in 1 .. N
    BY DEF BeginsAs
  <2> QED
    BY <2>1 DEF Agree, BeginsAs
<1>4. p <= n => MeanOf(f, 1, p) = MeanOf(h, 1, p)
  BY MeansAgree DEF BeginsAs
<1> HIDE DEF x, y
<1>5. N \in Nat /\ n \in 1 .. N
  BY DEF BeginsAs
<1> QED
  BY <1>2, <1>3, <1>4, <1>5, RecursAgree

LEMMA SmoothedAgree ==
    ASSUME NEW f, NEW h, NEW N, NEW n, BeginsAs(f, h, N, n), NEW p \in Nat \ {0}
    PROVE  Agree(Smoothed(f, p), Smoothed(h, p), n)
<1>1. ASSUME NEW u, NEW m \in Nat, Len(u) = m
      PROVE  RecursOn(Smoothed(u, p), m, p + 1, MeanOf(u, 2, p + 1), u, p - 1, p, "before")
  <2> DEFINE Code(g) == [i \in 1 .. Len(u) |-> IF i <= p THEN NaN
                                               ELSE IF i = p + 1 THEN MeanOf(u, 2, p + 1)
                                               ELSE ((p - 1) * g[i - 1] + u[i]) \div p]
             Form(g) == [i \in 1 .. m |-> Recurs(g, p + 1, MeanOf(u, 2, p + 1), u, p - 1, p, "before", i)]
  <2>1. ASSUME NEW g PROVE Code(g) = Form(g)
    <3>1. \A i \in 1 .. m : i <= p <=> i < p + 1
      OBVIOUS
    <3>2. \A i \in 1 .. m : Recurs(g, p + 1, MeanOf(u, 2, p + 1), u, p - 1, p, "before", i)
                            = IF i <= p THEN NaN
                              ELSE IF i = p + 1 THEN MeanOf(u, 2, p + 1)
                              ELSE ((p - 1) * g[i - 1] + u[i]) \div p
      BY <3>1 DEF Recurs
    <3> QED
      BY <1>1, <3>2
  <2>2. Smoothed(u, p) = CHOOSE g : g = Code(g)
    BY DEF Smoothed
  <2>3. Smoothed(u, p) = CHOOSE g : g = Form(g)
    <3> HIDE DEF Code, Form
    <3> QED
      BY <2>1, <2>2
  <2>4. \A g : RecursOn(g, m, p + 1, MeanOf(u, 2, p + 1), u, p - 1, p, "before") <=> g = Form(g)
    BY DEF RecursOn
  <2>5. p + 1 \in Nat \ {0}
    OBVIOUS
  <2>6. \E g : RecursOn(g, m, p + 1, MeanOf(u, 2, p + 1), u, p - 1, p, "before")
    BY <2>5, RecursExists
  <2> HIDE DEF Form
  <2>7. Smoothed(u, p) = Form(Smoothed(u, p))
    BY <2>3, <2>6, <2>4
  <2> QED
    BY <2>4, <2>7
<1>2. /\ RecursOn(Smoothed(f, p), N, p + 1, MeanOf(f, 2, p + 1), f, p - 1, p, "before")
      /\ RecursOn(Smoothed(h, p), n, p + 1, MeanOf(h, 2, p + 1), h, p - 1, p, "before")
  <2>1. /\ N \in Nat /\ n \in Nat /\ DOMAIN f = 1 .. N /\ DOMAIN h = 1 .. n
        /\ Len(f) = N /\ Len(h) = n
    BY DEF BeginsAs
  <2> QED
    BY <1>1, <2>1
<1>3. p + 1 <= n => MeanOf(f, 2, p + 1) = MeanOf(h, 2, p + 1)
  BY MeansAgree DEF BeginsAs
<1>4. N \in Nat /\ n \in 1 .. N /\ Agree(f, h, n) /\ p + 1 \in Nat \ {0}
  BY DEF BeginsAs
<1> QED
  BY <1>2, <1>3, <1>4, RecursAgree

LEMMA SeriesBegin ==
    ASSUME NEW N \in Nat, NEW n \in 1 .. N, NEW f, NEW h,
           f = [i \in 1 .. N |-> f[i]], h = [i \in 1 .. n |-> h[i]], Agree(f, h, n)
    PROVE  BeginsAs(f, h, N, n)
<1>1. ASSUME NEW u, NEW m \in Nat, u = [i \in 1 .. m |-> u[i]] PROVE Len(u) = m
  <2> DEFINE S == {u[i] : i \in 1 .. m}
  <2>1. u \in [1 .. m -> S]
    BY <1>1
  <2> HIDE DEF S
  <2>2. u \in Seq(S)
    <3>1. Seq(S) = UNION {[1 .. k -> S] : k \in Nat}
      BY SeqDef
    <3> QED
      BY ONLY <2>1, <3>1, m \in Nat
  <2>3. 1 .. Len(u) = 1 .. m /\ Len(u) \in Nat
    BY <2>1, <2>2, LenProperties
  <2>4. Len(u) <= m
    <3>1. Len(u) = 0 \/ Len(u) \in 1 .. Len(u)
      BY <2>3
    <3> QED
      BY <2>3, <3>1
  <2>5. m <= Len(u)
    <3>1. m = 0 \/ m \in 1 .. m
      OBVIOUS
    <3> QED
      BY <2>3, <3>1
  <2> QED
    BY <2>3, <2>4, <2>5
<1>2. Len(f) = N /\ Len(h) = n
  BY <1>1
<1> QED
  BY <1>2 DEF BeginsAs

LEMMA RSIAgree ==
    ASSUME NEW f, NEW h, NEW N, NEW n, BeginsAs(f, h, N, n), NEW p \in Nat \ {0}
    PROVE  Agree(RSI(f, p), RSI(h, p), n)
<1> DEFINE Rises(u) == [i \in 1 .. Len(u) |-> IF i = 1 THEN 0 ELSE Positive(u[i] - u[i - 1])]
           Drops(u) == [i \in 1 .. Len(u) |-> IF i = 1 THEN 0 ELSE Positive(u[i - 1] - u[i])]
           Gain(u) == Smoothed(Rises(u), p)
           Loss(u) == Smoothed(Drops(u), p)
<1>1. /\ N \in Nat /\ n \in 1 .. N /\ Len(f) = N /\ Len(h) = n
      /\ DOMAIN f = 1 .. N /\ DOMAIN h = 1 .. n
      /\ \A i \in 1 .. n : i \in 1 .. N /\ f[i] = h[i] /\ (i # 1 => f[i - 1] = h[i - 1])
  BY DEF BeginsAs, Agree
<1>2. BeginsAs(Rises(f), Rises(h), N, n)
  <2>1. Agree(Rises(f), Rises(h), n)
    BY <1>1 DEF Agree
  <2>2. Rises(f) = [i \in 1 .. N |-> Rises(f)[i]] /\ Rises(h) = [i \in 1 .. n |-> Rises(h)[i]]
    BY <1>1
  <2> HIDE DEF Rises
  <2> QED
    BY <1>1, <2>1, <2>2, SeriesBegin
<1>3. BeginsAs(Drops(f), Drops(h), N, n)
  <2>1. Agree(Drops(f), Drops(h), n)
    BY <1>1 DEF Agree
  <2>2. Drops(f) = [i \in 1 .. N |-> Drops(f)[i]] /\ Drops(h) = [i \in 1 .. n |-> Drops(h)[i]]
    BY <1>1
  <2> HIDE DEF Drops
  <2> QED
    BY <1>1, <2>1, <2>2, SeriesBegin
<1>4. \A i \in 1 .. n : Gain(f)[i] = Gain(h)[i] /\ Loss(f)[i] = Loss(h)[i]
  <2> HIDE DEF Rises, Drops
  <2> QED
    BY <1>2, <1>3, SmoothedAgree DEF Agree
<1> DEFINE Value(g, l) == IF g = NaN THEN NaN ELSE IF l = 0 THEN 100 * Hundredths
                          ELSE (100 * Hundredths * g) \div (g + l)
<1>5. ASSUME NEW u
      PROVE  RSI(u, p) = [i \in DOMAIN u |-> Value(Gain(u)[i], Loss(u)[i])]
  BY DEF RSI
<1> HIDE DEF Gain, Loss, Value
<1>6. \A i \in 1 .. n : RSI(f, p)[i] = RSI(h, p)[i]
  <2> SUFFICES ASSUME NEW i \in 1 .. n PROVE RSI(f, p)[i] = RSI(h, p)[i]
    OBVIOUS
  <2>1. i \in DOMAIN f /\ i \in DOMAIN h
    BY <1>1
  <2>2. RSI(f, p)[i] = Value(Gain(f)[i], Loss(f)[i]) /\ RSI(h, p)[i] = Value(Gain(h)[i], Loss(h)[i])
    BY <1>5, <2>1
  <2> QED
    BY <1>4, <2>2
<1> QED
  BY <1>6 DEF Agree

LEMMA ATRAgree ==
    ASSUME NEW f, NEW h, NEW N, NEW n, BeginsAs(f, h, N, n), NEW p \in Nat \ {0}
    PROVE  Agree(ATR(f, p), ATR(h, p), n)
<1> DEFINE Ranges(u, i) == {u[i].high - u[i].low, Abs(u[i].high - u[i - 1].close),
                            Abs(u[i].low - u[i - 1].close)}
           TrueRange(u) == [i \in 1 .. Len(u) |-> IF i = 1 THEN 0 ELSE Hundredths * Max(Ranges(u, i))]
<1>1. /\ N \in Nat /\ n \in 1 .. N /\ Len(f) = N /\ Len(h) = n
      /\ \A i \in 1 .. n : i \in 1 .. N /\ f[i] = h[i] /\ (i # 1 => f[i - 1] = h[i - 1])
  BY DEF BeginsAs, Agree
<1>2. \A i \in 1 .. n : i # 1 => Ranges(f, i) = Ranges(h, i)
  BY <1>1
<1>3. ATR(f, p) = Smoothed(TrueRange(f), p) /\ ATR(h, p) = Smoothed(TrueRange(h), p)
  BY DEF ATR
<1> HIDE DEF Ranges
<1>4. Agree(TrueRange(f), TrueRange(h), n)
  BY <1>1, <1>2 DEF Agree
<1>5. /\ TrueRange(f) = [i \in 1 .. N |-> TrueRange(f)[i]]
      /\ TrueRange(h) = [i \in 1 .. n |-> TrueRange(h)[i]]
  BY <1>1
<1> HIDE DEF TrueRange
<1>6. BeginsAs(TrueRange(f), TrueRange(h), N, n)
  BY <1>1, <1>4, <1>5, SeriesBegin
<1> QED
  BY <1>3, <1>6, SmoothedAgree

LEMMA MACDAgree ==
    ASSUME NEW f, NEW h, NEW N, NEW n, BeginsAs(f, h, N, n), NEW p \in Nat \ {0}
    PROVE  Agree(MACD(f, p), MACD(h, p), n)
<1>1. /\ DOMAIN f = 1 .. N /\ DOMAIN h = 1 .. n /\ \A i \in 1 .. n : i \in 1 .. N
  BY DEF BeginsAs
<1>2. \A i \in 1 .. n : /\ EMA(f, FastPeriod)[i] = EMA(h, FastPeriod)[i]
                        /\ EMA(f, p)[i] = EMA(h, p)[i]
  BY EMAAgree, EvaluatorAssumption DEF Agree
<1>3. \A i \in 1 .. n : MACD(f, p)[i] = MACD(h, p)[i]
  BY <1>1, <1>2 DEF MACD
<1> QED
  BY <1>3 DEF Agree

LEMMA PricesBegin ==
    ASSUME NEW b, NEW c, NEW N, NEW n, BeginsAs(b, c, N, n), NEW source
    PROVE  BeginsAs(Prices(b, source), Prices(c, source), N, n)
<1>1. /\ N \in Nat /\ n \in 1 .. N /\ DOMAIN b = 1 .. N /\ DOMAIN c = 1 .. n
      /\ \A i \in 1 .. n : i \in 1 .. N /\ b[i] = c[i]
  BY DEF BeginsAs, Agree
<1>2. Agree(Prices(b, source), Prices(c, source), n)
  BY <1>1 DEF Prices, Agree
<1>3. /\ Prices(b, source) = [i \in 1 .. N |-> Prices(b, source)[i]]
      /\ Prices(c, source) = [i \in 1 .. n |-> Prices(c, source)[i]]
  BY <1>1 DEF Prices
<1> QED
  BY <1>1, <1>2, <1>3, SeriesBegin

LEMMA SeriesAgree ==
    ASSUME NEW b, NEW c, NEW N, NEW n, BeginsAs(b, c, N, n),
           NEW ref, ref.kind \in Kinds, ref.period \in Nat \ {0}
    PROVE  Agree(Series(ref, b), Series(ref, c), n)
<1> DEFINE f == Prices(b, ref.source)
           h == Prices(c, ref.source)
<1>1. BeginsAs(f, h, N, n)
  BY PricesBegin
<1>2. CASE ref.kind = "sma"
  <2>1. Series(ref, b) = SMA(f, ref.period) /\ Series(ref, c) = SMA(h, ref.period)
    BY <1>2 DEF Series
  <2> HIDE DEF f, h
  <2> QED
    BY <1>1, <2>1, SMAAgree
<1>3. CASE ref.kind = "ema"
  <2>1. Series(ref, b) = EMA(f, ref.period) /\ Series(ref, c) = EMA(h, ref.period)
    BY <1>3 DEF Series
  <2> HIDE DEF f, h
  <2> QED
    BY <1>1, <2>1, EMAAgree
<1>4. CASE ref.kind = "rsi"
  <2>1. Series(ref, b) = RSI(f, ref.period) /\ Series(ref, c) = RSI(h, ref.period)
    BY <1>4 DEF Series
  <2> HIDE DEF f, h
  <2> QED
    BY <1>1, <2>1, RSIAgree
<1>5. CASE ref.kind = "macd"
  <2>1. Series(ref, b) = MACD(f, ref.period) /\ Series(ref, c) = MACD(h, ref.period)
    BY <1>5 DEF Series
  <2> HIDE DEF f, h
  <2> QED
    BY <1>1, <2>1, MACDAgree
<1>6. CASE ref.kind = "atr"
  <2>1. Series(ref, b) = ATR(b, ref.period) /\ Series(ref, c) = ATR(c, ref.period)
    BY <1>6 DEF Series
  <2> QED
    BY <2>1, ATRAgree
<1>7. CASE ref.kind = "volume"
  <2>1. /\ Series(ref, b) = [i \in DOMAIN b |-> Hundredths * b[i].volume]
        /\ Series(ref, c) = [i \in DOMAIN c |-> Hundredths * c[i].volume]
    BY <1>7 DEF Series
  <2>2. \A i \in 1 .. n : i \in DOMAIN b /\ i \in DOMAIN c /\ b[i] = c[i]
    BY DEF BeginsAs, Agree
  <2>3. \A i \in 1 .. n : Series(ref, b)[i] = Series(ref, c)[i]
    BY <2>1, <2>2
  <2> QED
    BY <2>3 DEF Agree
<1> QED
  BY <1>2, <1>3, <1>4, <1>5, <1>6, <1>7 DEF Kinds

\* A side of a condition: a number, or an indicator the payload accepts.
SideTyped(ref) == ref.kind = "number" \/ (ref.kind \in Kinds /\ ref.period \in Nat \ {0})

LEMMA EvaluatedAgree ==
    ASSUME NEW b, NEW d, NEW N, NEW n, BeginsAs(b, d, N, n), NEW c,
           c.op \in Comparators, SideTyped(c.lhs), SideTyped(c.rhs)
    PROVE  Evaluated(c, n, b) = Evaluated(c, n, d)
<1>1. ASSUME NEW side \in {"lhs", "rhs"}, NEW i \in {n, n - 1}
      PROVE  SideAt(c, side, i, b) = SideAt(c, side, i, d)
  <2>1. CASE c[side].kind = "number"
    BY <2>1 DEF SideAt
  <2>2. CASE c[side].kind # "number" /\ i < 1
    BY <2>2 DEF SideAt
  <2>3. CASE c[side].kind # "number" /\ ~(i < 1)
    <3>1. i \in 1 .. n
      BY <2>3 DEF BeginsAs
    <3>2. c[side].kind \in Kinds /\ c[side].period \in Nat \ {0}
      BY <2>3 DEF SideTyped
    <3>3. Series(c[side], b)[i] = Series(c[side], d)[i]
      BY <3>1, <3>2, SeriesAgree DEF Agree
    <3> QED
      BY <2>3, <3>3 DEF SideAt
  <2> QED
    BY <2>1, <2>2, <2>3
<1>2. /\ SideAt(c, "lhs", n, b) = SideAt(c, "lhs", n, d)
      /\ SideAt(c, "rhs", n, b) = SideAt(c, "rhs", n, d)
      /\ SideAt(c, "lhs", n - 1, b) = SideAt(c, "lhs", n - 1, d)
      /\ SideAt(c, "rhs", n - 1, b) = SideAt(c, "rhs", n - 1, d)
  BY <1>1
<1> QED
  BY <1>2 DEF Evaluated

LEMMA SignalsAgree ==
    ASSUME NEW b, NEW d, NEW N, NEW n, BeginsAs(b, d, N, n), NEW s, SpecTyped(s), Parses(s)
    PROVE  /\ EntrySignal(s, n, b) = EntrySignal(s, n, d)
           /\ ExitSignal(s, n, b) = ExitSignal(s, n, d)
<1>1. ASSUME NEW c \in Conditions(s) PROVE Evaluated(c, n, b) = Evaluated(c, n, d)
  <2>1. ConditionAccepted(c)
    BY DEF Parses, PayloadAccepts, Conditions
  <2>2. \A ref \in {c.lhs, c.rhs} : ref.kind # "number" => ref.period \in Int
    BY DEF SpecTyped, Refs
  <2>3. SideTyped(c.lhs) /\ SideTyped(c.rhs) /\ c.op \in Comparators
    BY <2>1, <2>2 DEF ConditionAccepted, RefAccepted, SideTyped, Kinds
  <2> QED
    BY <2>3, EvaluatedAgree
<1>2. \A c \in ToSet(s.entry) \union ToSet(s.exit) : Evaluated(c, n, b) = Evaluated(c, n, d)
  BY <1>1 DEF Conditions
<1>3. /\ {Evaluated(c, n, b) : c \in ToSet(s.entry)} = {Evaluated(c, n, d) : c \in ToSet(s.entry)}
      /\ {Evaluated(c, n, b) : c \in ToSet(s.exit)} = {Evaluated(c, n, d) : c \in ToSet(s.exit)}
  BY <1>2
<1> QED
  BY <1>3 DEF EntrySignal, ExitSignal

LEMMA NothingSeenAhead ==
    ASSUME BacktestInv
    PROVE  NoLookAhead
<1> SUFFICES ASSUME bar > 0
             PROVE  LET seen == SubSeq(bars, 1, bar)
                    IN  /\ EntrySignal(spec, bar, bars) = EntrySignal(spec, bar, seen)
                        /\ ExitSignal(spec, bar, bars) = ExitSignal(spec, bar, seen)
  BY DEF NoLookAhead
<1>1. bars \in Seq(Bar) /\ bar \in 1 .. Len(bars) /\ SpecTyped(spec) /\ Parses(spec)
  BY DEF BacktestInv, SimTypeOK
<1>2. BeginsAs(bars, SubSeq(bars, 1, bar), Len(bars), bar)
  <2> DEFINE seen == SubSeq(bars, 1, bar)
  <2>1. seen \in Seq(Bar) /\ Len(seen) = bar /\ \A i \in 1 .. bar : seen[i] = bars[i]
    BY <1>1
  <2>2. Len(bars) \in Nat /\ DOMAIN bars = 1 .. Len(bars) /\ DOMAIN seen = 1 .. bar
    BY <1>1, <2>1
  <2> HIDE DEF seen
  <2>3. BeginsAs(bars, seen, Len(bars), bar)
    BY <1>1, <2>1, <2>2 DEF BeginsAs, Agree
  <2> QED
    BY <2>3 DEF seen
<1> QED
  BY <1>1, <1>2, SignalsAgree

-----------------------------------------------------------------------------
(* The theorems.                                                           *)

LEMMA InTimeIsInvariant ==
    ASSUME BacktestInv
    PROVE  ExitsInTime
<1> SUFFICES ASSUME NEW k \in DOMAIN trades
             PROVE  LET t == trades[k]
                        held == {TakeOf(t), StopOf(t)}
                        told(i) == \/ \E level \in held : Reaches(i, level)
                                   \/ ExitSignal(spec, i, bars) = "true"
                    IN  /\ \A i \in t.opened + 1 .. t.closed - 1 : ~told(i)
                        /\ t.closed < Len(bars) => t.closed > t.opened /\ told(t.closed)
                        /\ t.exit \in held \/ t.exit = Slipped(bars[t.closed].close, t.side, FALSE)
                        /\ k > 1 => t.opened > trades[k - 1].closed
  BY DEF ExitsInTime
<1> DEFINE t == trades[k]
<1>1. InTime(spec, bars, t)
  BY DEF BacktestInv, Timely
<1>2. {TakeOf(t), StopOf(t)} = LevelsOf(spec, t)
  BY DEF TakeOf, StopOf, LevelsOf
<1>3. ASSUME NEW i
      PROVE  Tells(spec, bars, LevelsOf(spec, t), i)
               <=> \/ \E level \in {TakeOf(t), StopOf(t)} : Reaches(i, level)
                   \/ ExitSignal(spec, i, bars) = "true"
  BY <1>2 DEF Tells, Reaches
<1>4. k > 1 => t.opened > trades[k - 1].closed
  <2> SUFFICES ASSUME k > 1 PROVE t.opened > trades[k - 1].closed
    OBVIOUS
  <2>1. k \in 1 .. Len(trades) /\ Len(trades) \in Nat
    BY TradesHaveBars DEF BacktestInv, SimTypeOK
  <2>2. k - 1 \in 1 .. Len(trades) /\ k - 1 < k
    BY <2>1
  <2>3. k - 1 \in DOMAIN trades
    BY <2>2, TradesHaveBars DEF BacktestInv
  <2>4. trades[k - 1].closed < trades[k].opened
    BY <2>2, <2>3 DEF BacktestInv, Timely, Ordered
  <2>5. trades[k - 1].closed \in Int /\ trades[k].opened \in Int
    BY <2>3, TradesHaveBars DEF BacktestInv
  <2> QED
    BY <2>4, <2>5
<1> HIDE DEF t
<1>5. \A i \in t.opened + 1 .. t.closed - 1 : ~Tells(spec, bars, LevelsOf(spec, t), i)
  BY <1>1 DEF InTime
<1>6. t.closed < Len(bars) => t.closed > t.opened /\ Tells(spec, bars, LevelsOf(spec, t), t.closed)
  BY <1>1 DEF InTime
<1>7. t.exit \in LevelsOf(spec, t) \/ t.exit = Slipped(bars[t.closed].close, t.side, FALSE)
  BY <1>1 DEF InTime
<1> QED
  BY <1>2, <1>3, <1>4, <1>5, <1>6, <1>7 DEF t

\* Of a report: what the curve shows at its end, and before and after a trade.
LEMMA ReportShows ==
    ASSUME BacktestInv, phase = "report"
    PROVE  /\ curve \in Seq(Int) /\ Len(curve) = bar /\ bar \in Nat /\ bar >= 2 /\ curve # <<>>
           /\ InitialEquity \in Int /\ InitialEquity > 0 /\ curve[1] = InitialEquity
           /\ trades \in Seq(Trade) /\ equity \in Int /\ curve[bar] = equity
           /\ equity = InitialEquity + SumOf(PnL(trades), DOMAIN trades)
           /\ \A k \in DOMAIN trades : Shown(curve, trades, k)
<1>1. /\ curve \in Seq(Int) /\ Len(curve) = bar /\ bar \in 0 .. Len(bars) /\ bars \in Seq(Bar)
      /\ bar = Len(bars) /\ bar >= 2 /\ position = Null /\ trades \in Seq(Trade) /\ equity \in Int
      /\ InitialEquity > 0 /\ curve[1] = InitialEquity
  BY DEF BacktestInv, SimTypeOK, MinCandles
<1>2. bar \in Nat /\ bar > 0 /\ curve # <<>>
  BY <1>1
<1>3. OnCurve /\ equity = Balance(trades, Len(trades)) - 0
  BY <1>1 DEF BacktestInv, Accounts
<1>4. Balance(trades, Len(trades)) = InitialEquity + SumOf(PnL(trades), DOMAIN trades)
  BY <1>1, PnLIsInt DEF Balance
<1>5. Balance(trades, Len(trades)) \in Int
  <2>1. Len(trades) \in 0 .. Len(trades)
    BY <1>1
  <2> QED
    BY <1>1, <2>1, BalanceSteps
<1>6. equity = InitialEquity + SumOf(PnL(trades), DOMAIN trades)
  BY <1>3, <1>4, <1>5
<1>7. curve[bar] = equity /\ \A k \in DOMAIN trades : Shown(curve, trades, k)
  BY <1>1, <1>2, <1>3 DEF OnCurve
<1> QED
  BY <1>1, <1>2, <1>6, <1>7, SimAssumption

\* A curve that never falls has no trade that lost.
LEMMA NoFallNoLoser ==
    ASSUME BacktestInv, phase = "report", MaxDrawdown(curve)[1] = 0
    PROVE  equity - InitialEquity >= 0 /\ Losers(trades) = {}
<1>1. \A k \in 1 .. bar : \A j \in 1 .. k : curve[j] <= curve[k]
  BY ReportShows, NoDrawdownNoFall
<1>2. equity - InitialEquity >= 0
  <2>1. bar \in 1 .. bar /\ 1 \in 1 .. bar
    BY ReportShows
  <2>2. curve[1] <= curve[bar]
    BY <1>1, <2>1
  <2> QED
    BY <2>2, ReportShows
<1>3. ASSUME NEW k \in DOMAIN trades, trades[k].pnl < 0 PROVE FALSE
  <2>1. SimTypeOK /\ Ordered /\ trades \in Seq(Trade)
    BY ReportShows DEF BacktestInv, Timely
  <2>2. /\ k \in 1 .. Len(trades) /\ Len(trades) \in Nat
        /\ trades[k].opened \in Int /\ trades[k].closed \in Int /\ trades[k].pnl \in Int
    BY <2>1, TradesHaveBars
  <2>3. 1 <= trades[k].opened /\ trades[k].opened <= trades[k].closed /\ trades[k].closed <= bar
    BY <2>1 DEF Ordered
  <2>4. k \in 0 .. Len(trades) /\ k - 1 \in 0 .. Len(trades)
    BY <2>2
  <2>5. /\ Balance(trades, k) \in Int /\ Balance(trades, k - 1) \in Int
        /\ Balance(trades, k) = Balance(trades, k - 1) + trades[k].pnl
        /\ Balance(trades, 0) = InitialEquity
    BY <2>1, <2>2, <2>4, BalanceSteps
  <2>6. Balance(trades, k) < Balance(trades, k - 1)
    BY <1>3, <2>2, <2>5
  <2>7. Shown(curve, trades, k)
    BY ReportShows
  <2>8. curve[trades[k].closed] = Balance(trades, k) /\ trades[k].closed \in 1 .. bar
    BY <2>2, <2>3, <2>7, ReportShows DEF Shown
  <2>9. PICK j \in 1 .. trades[k].closed : curve[j] = Balance(trades, k - 1)
    <3>1. CASE trades[k].opened = 1
      <4>1. k - 1 = 0
        BY <2>7, <3>1 DEF Shown
      <4>2. 1 \in 1 .. trades[k].closed
        BY <2>2, <2>3
      <4>3. curve[1] = Balance(trades, k - 1)
        BY <2>5, <4>1, ReportShows
      <4> QED
        BY <4>2, <4>3
    <3>2. CASE trades[k].opened # 1
      <4>1. trades[k].opened - 1 \in 1 .. trades[k].closed
        BY <2>2, <2>3, <3>2
      <4> QED
        BY <2>7, <3>2, <4>1 DEF Shown
    <3> QED
      BY <3>1, <3>2
  <2>10. Balance(trades, k - 1) <= Balance(trades, k)
    BY <1>1, <2>8, <2>9
  <2> QED
    BY <2>5, <2>6, <2>10
<1> QED
  BY <1>2, <1>3 DEF Losers

LEMMA BooksAreInvariant ==
    ASSUME BacktestInv
    PROVE  BooksBalance
<1>1. phase \in {"running", "report"} =>
          equity = InitialEquity + SumOf(PnL(trades), DOMAIN trades)
                     - (IF position = Null THEN 0 ELSE position.fee)
  <2>1. trades \in Seq(Trade)
    BY DEF BacktestInv, SimTypeOK
  <2>2. Balance(trades, Len(trades)) = InitialEquity + SumOf(PnL(trades), DOMAIN trades)
    BY <2>1, PnLIsInt DEF Balance
  <2> SUFFICES ASSUME phase \in {"running", "report"}
               PROVE  equity = InitialEquity + SumOf(PnL(trades), DOMAIN trades)
                                 - (IF position = Null THEN 0 ELSE position.fee)
    OBVIOUS
  <2> DEFINE fee == IF position = Null THEN 0 ELSE position.fee
             gained == SumOf(PnL(trades), DOMAIN trades)
  <2>3. equity = Balance(trades, Len(trades)) - fee
    BY DEF BacktestInv, Accounts
  <2>4. fee \in Int
    BY DEF BacktestInv, SimTypeOK, Positions
  <2>5. gained \in Int
    BY <2>1, PnLIsInt, SumIsInt
  <2>6. Balance(trades, Len(trades)) = InitialEquity + gained
    BY <2>2
  <2> HIDE DEF fee, gained
  <2>7. equity = InitialEquity + gained - fee
    BY <2>3, <2>4, <2>5, <2>6, SimAssumption
  <2> QED
    BY <2>7 DEF fee, gained
<1> DEFINE m == Metrics(InitialEquity, equity, trades, curve)
           total == SumOf(PnL(trades), DOMAIN trades)
           won == SumOf(PnL(trades), Winners(trades))
           lost == SumOf(PnL(trades), Losers(trades))
<1>2. /\ m.total_return[1] = equity - InitialEquity
      /\ m.profit_factor = ProfitFactor(trades) /\ m.win_rate = WinRate(trades)
      /\ m.max_drawdown = MaxDrawdown(curve)
  BY DEF Metrics, TotalReturn
<1> HIDE DEF m
<1>3. ASSUME phase = "report"
      PROVE  /\ m.profit_factor # None =>
                   (m.profit_factor[1] > m.profit_factor[2] <=> m.total_return[1] > 0)
             /\ m.win_rate[1] = m.win_rate[2] => m.total_return[1] > 0
             /\ m.max_drawdown[1] = 0 => m.total_return[1] >= 0 /\ ~\E t \in Losers(trades) : TRUE
  <2>1. trades \in Seq(Trade) /\ InitialEquity \in Int /\ equity = InitialEquity + total
    BY <1>3, ReportShows
  <2>2. total = won + lost /\ won \in Int /\ lost \in Int
    BY <2>1, WonAndLost
  <2>3. ProfitFactor(trades) # None =>
            ProfitFactor(trades)[1] = won /\ ProfitFactor(trades)[2] = -lost
    BY DEF ProfitFactor
  <2> HIDE DEF total, won, lost
  <2>4. total \in Int /\ m.total_return[1] = total
    BY <1>2, <2>1, <2>2
  <2>5. m.profit_factor # None =>
            (m.profit_factor[1] > m.profit_factor[2] <=> m.total_return[1] > 0)
    BY <1>2, <2>2, <2>3, <2>4
  <2>6. m.win_rate[1] = m.win_rate[2] => m.total_return[1] > 0
    <3>1. WinRate(trades)[1] = WinRate(trades)[2] => total > 0
      BY <2>1, AllWinnersWin DEF total
    <3> QED
      BY <1>2, <2>4, <3>1
  <2>7. m.max_drawdown[1] = 0 => m.total_return[1] >= 0 /\ ~\E t \in Losers(trades) : TRUE
    <3>1. MaxDrawdown(curve)[1] = 0 => equity - InitialEquity >= 0 /\ Losers(trades) = {}
      BY <1>3, NoFallNoLoser
    <3> QED
      BY <1>2, <3>1
  <2> QED
    BY <2>5, <2>6, <2>7
<1> QED
  BY <1>1, <1>3 DEF BooksBalance, m

LEMMA BacktestInvHolds == Spec => []BacktestInv
<1>1. Init => BacktestInv
  <2> SUFFICES ASSUME Init PROVE BacktestInv
    OBVIOUS
  <2>1. /\ spec = Null /\ bars = <<>> /\ bar = 0 /\ equity = 0 /\ position = Null
        /\ trades = <<>> /\ curve = <<>> /\ phase = "idle" /\ request = Null /\ at = 0
    BY DEF Init, SimInit
  <2>2. SimTypeOK
    BY <2>1 DEF SimTypeOK
  <2>3. RequestOK /\ Timely /\ Accounts
    BY <2>1 DEF RequestOK, Timely, Ordered, Holding, Accounts
  <2> QED
    BY <2>2, <2>3 DEF BacktestInv
<1>2. BacktestInv /\ [Next]_vars => BacktestInv'
  <2> SUFFICES ASSUME BacktestInv, [Next]_vars PROVE BacktestInv'
    OBVIOUS
  <2>1. SimTypeOK /\ RequestOK /\ Timely /\ Accounts
    BY DEF BacktestInv
  <2>2. RequestOK' /\ Moves
    BY <2>1, RequestOKNext, EveryStepMoves
  <2>3. SimTypeOK' /\ Timely' /\ Accounts'
    BY <2>1, <2>2, SimTypeOKNext, TimelyNext, AccountsNext
  <2> QED
    BY <2>2, <2>3 DEF BacktestInv
<1> QED
  BY <1>1, <1>2, PTL DEF Spec

\* Whatever the strategy and the candles: every trade ends with the first bar
\* that tells it to, and before the next one begins.
THEOREM TradesExitInTime == Spec => []ExitsInTime
<1>1. BacktestInv => ExitsInTime
  BY InTimeIsInvariant
<1> QED
  BY <1>1, BacktestInvHolds, PTL

\* Whatever the strategy, the candles, the fee and the slip: the equity, the
\* trades, the curve and the metrics are accounts of the same money.
THEOREM BacktestBooksBalance == Spec => []BooksBalance
<1>1. BacktestInv => BooksBalance
  BY BooksAreInvariant
<1> QED
  BY <1>1, BacktestInvHolds, PTL

\* Whatever the strategy and the candles: a signal of a bar depends on no bar
\* after it, for all six indicators and all six comparisons.
THEOREM SignalsDoNotLookAhead == Spec => []NoLookAhead
<1>1. BacktestInv => NoLookAhead
  BY NothingSeenAhead
<1> QED
  BY <1>1, BacktestInvHolds, PTL
=============================================================================
