-------------------------- MODULE CapaProblem_proofs --------------------------
(***************************************************************************)
(* Proofs about GradingMethods, CapaProblem and CapaVisibility, for every  *)
(* problem, grading method, rule, setting and number of attempts.          *)
(*                                                                         *)
(* First the grading methods: whatever the method, the score of a problem  *)
(* is a number of points that its attempts could have earned, and one more *)
(* attempt moves it by the rule of the method only.                        *)
(***************************************************************************)
EXTENDS Integers, CapaVisibility, GradingMethodsCheck, FiniteSetTheorems, SequenceTheorems, TLAPS

\* Every non-empty set of naturals up to B has a least element: its initial
\* segments, ordered by strict inclusion, are well-founded.
LEMMA LeastElement ==
    ASSUME NEW B \in Nat, NEW T \in SUBSET (0 .. B), T # {}
    PROVE  \E n \in T : \A t \in T : n <= t
<1> DEFINE Segments == {0 .. x : x \in T}
<1>1. \A x \in T : IsFiniteSet(0 .. x) /\ 0 .. x \subseteq 0 .. B
  BY FS_Interval
<1>2. Segments \subseteq FiniteSubsetsOf(0 .. B) /\ Segments # {}
  BY <1>1 DEF FiniteSubsetsOf
<1>3. PICK U \in Segments : \A V \in Segments : <<V, U>> \notin StrictSubsetOrdering(0 .. B)
  <2> HIDE DEF Segments
  <2> QED
    BY <1>2, FS_StrictSubsetOrderingWellFounded, WFMin
<1>4. PICK n \in T : U = 0 .. n
  OBVIOUS
<1>5. ASSUME NEW t \in T, t < n
      PROVE  FALSE
  <2>1. 0 .. t \in Segments /\ 0 .. t \subseteq 0 .. n /\ n \notin 0 .. t /\ n \in 0 .. n
    BY <1>5
  <2>2. <<0 .. t, U>> \in StrictSubsetOrdering(0 .. B)
    BY <1>1, <1>4, <2>1 DEF StrictSubsetOrdering
  <2> QED
    BY <1>3, <2>1, <2>2
<1> QED
  BY <1>5

\* The greatest element of a bounded, non-empty set of naturals is in it.
LEMMA MaxInSet ==
    ASSUME NEW B \in Nat, NEW S \in SUBSET (0 .. B), S # {}
    PROVE  Max(S) \in S /\ \A y \in S : Max(S) >= y
<1> DEFINE T == {B - x : x \in S}
<1>1. T \in SUBSET (0 .. B)
  OBVIOUS
<1>2. T # {}
  OBVIOUS
<1>3. PICK n \in T : \A t \in T : n <= t
  <2> HIDE DEF T
  <2> QED BY <1>1, <1>2, LeastElement
<1>4. PICK x \in S : n = B - x
  OBVIOUS
<1>5. \A y \in S : x >= y
  BY <1>3, <1>4
<1> QED
  BY <1>5 DEF Max

\* Multiplying by a positive number can be undone below a product.
LEMMA CancelFactor ==
    ASSUME NEW q \in Nat, NEW n \in Nat \ {0}, NEW B \in Nat, q * n <= B * n
    PROVE  q <= B
<1> SUFFICES ASSUME q > B
             PROVE  FALSE
  OBVIOUS
<1>1. PICK d \in Nat : q = B + 1 + d
  <2>1. q - B - 1 \in Nat /\ q = B + 1 + (q - B - 1)
    OBVIOUS
  <2> QED BY <2>1
<1>2. q * n = B * n + n + d * n
  BY <1>1
<1>3. d * n \in Nat /\ B * n \in Nat
  OBVIOUS
<1> QED
  BY <1>2, <1>3

\* Multiplying by a positive number keeps the order.
LEMMA MonotoneFactor ==
    ASSUME NEW a \in Nat, NEW b \in Nat, NEW n \in Nat \ {0}, a <= b
    PROVE  a * n <= b * n
<1>1. PICK d \in Nat : b = a + d
  <2>1. b - a \in Nat /\ b = a + (b - a)
    OBVIOUS
  <2> QED BY <2>1
<1>2. b * n = a * n + d * n /\ d * n \in Nat /\ a * n \in Nat
  BY <1>1
<1> QED
  BY <1>2

\* Rounding a mean of scores between 0 and B gives a score between 0 and B.
LEMMA RoundedInRange ==
    ASSUME NEW B \in Nat, NEW n \in Nat \ {0}, NEW sum \in Nat, sum <= n * B, NEW up
    PROVE  Rounded(sum, n, up) \in 0 .. B
<1> DEFINE q == sum \div n
           r == sum % n
<1>1. q \in Nat /\ r \in 0 .. (n - 1) /\ sum = n * q + r
  OBVIOUS
<1> HIDE DEF q, r
<1>2. q * n <= B * n
  BY <1>1
<1>3. q <= B
  BY <1>1, <1>2, CancelFactor
<1>4. CASE r = 0
  <2>1. Rounded(sum, n, up) = q
    BY <1>4 DEF Rounded, q, r
  <2> QED
    BY <1>1, <1>3, <2>1
<1>5. CASE r # 0
  <2>1. q # B
    BY <1>1, <1>5
  <2>2. Rounded(sum, n, up) \in {q, q + 1}
    BY DEF Rounded, q, r
  <2> QED
    BY <1>1, <1>3, <2>1, <2>2
<1> QED
  BY <1>4, <1>5

LEMMA CardinalityOfInterval ==
    ASSUME NEW n \in Nat
    PROVE  IsFiniteSet(1 .. n) /\ Cardinality(1 .. n) = n
<1>1. IsFiniteSet(1 .. n)
  BY FS_Interval
<1>2. Cardinality(1 .. n) = IF 1 > n THEN 0 ELSE n - 1 + 1
  BY FS_Interval
<1> QED
  BY <1>1, <1>2

\* A history of n scores of at most B earns at most n * B altogether.
LEMMA TotalEarnedBound ==
    ASSUME NEW B \in Nat, NEW h \in Seq(0 .. B)
    PROVE  TotalEarned(h) \in Nat /\ TotalEarned(h) <= Len(h) * B
<1> DEFINE earned == UNION {{i} \X (1 .. h[i]) : i \in DOMAIN h}
           all    == (1 .. Len(h)) \X (1 .. B)
<1>1. IsFiniteSet(1 .. Len(h)) /\ Cardinality(1 .. Len(h)) = Len(h)
  <2>1. Len(h) \in Nat
    OBVIOUS
  <2> QED
    BY <2>1, CardinalityOfInterval
<1>2. IsFiniteSet(1 .. B) /\ Cardinality(1 .. B) = B
  BY CardinalityOfInterval
<1>3. IsFiniteSet(all) /\ Cardinality(all) = Len(h) * B
  BY <1>1, <1>2, FS_Product, ZenonT(60)
<1>4. earned \subseteq all
  <2> SUFFICES ASSUME NEW i \in DOMAIN h, NEW j \in 1 .. h[i]
               PROVE  <<i, j>> \in all
    OBVIOUS
  <2>1. i \in 1 .. Len(h) /\ h[i] \in 0 .. B
    BY ElementOfSeq, LenProperties
  <2> QED
    BY <2>1
<1>5. IsFiniteSet(earned) /\ Cardinality(earned) <= Cardinality(all)
  BY <1>3, <1>4, FS_Subset
<1>6. Cardinality(earned) \in Nat
  BY <1>5, FS_CardinalityType
<1> QED
  BY <1>3, <1>5, <1>6 DEF TotalEarned

(***************************************************************************)
(* The score that GradingMethodHandler.get_score returns for a history of  *)
(* attempts that each earned between 0 and B lies between 0 and B, for     *)
(* each of the four methods.                                               *)
(***************************************************************************)
THEOREM MethodInRange ==
    ASSUME NEW B \in Nat, NEW h \in Seq(0 .. B), h # << >>, NEW m \in Methods
    PROVE  get_score(m, h) \in 0 .. B
<1>1. Len(h) \in Nat \ {0} /\ DOMAIN h = 1 .. Len(h) /\ \A i \in DOMAIN h : h[i] \in 0 .. B
  BY EmptySeq, LenProperties, ElementOfSeq
<1>2. CASE m = "last_score"
  BY <1>1, <1>2 DEF get_score, handle_last_score
<1>3. CASE m = "first_score"
  BY <1>1, <1>3 DEF get_score, handle_first_score
<1>4. CASE m = "highest_score"
  <2>1. Range(h) \in SUBSET (0 .. B) /\ Range(h) # {}
    BY <1>1 DEF Range
  <2>2. Max(Range(h)) \in Range(h)
    BY <2>1, MaxInSet
  <2> QED
    BY <1>4, <2>1, <2>2 DEF get_score, handle_highest_score
<1>5. CASE m = "average_score"
  <2>1. Rounded(TotalEarned(h), Len(h), TieUp(h)) \in 0 .. B
    BY <1>1, TotalEarnedBound, RoundedInRange
  <2> QED
    BY <1>5, <2>1 DEF get_score, handle_average_score
<1> QED
  BY <1>2, <1>3, <1>4, <1>5 DEF Methods
--------------------------------------------------------------------------------
(***************************************************************************)
(* The average, of any history.                                            *)
(***************************************************************************)
Earned(h) == UNION {{i} \X (1 .. h[i]) : i \in DOMAIN h}

\* The hundredths of a longer history are those of the shorter one and of its last attempt.
LEMMA EarnedWithOneMore ==
    ASSUME NEW h \in Seq(Nat), NEW s \in Nat, IsFiniteSet(Earned(h))
    PROVE  /\ IsFiniteSet(Earned(Append(h, s)))
           /\ TotalEarned(Append(h, s)) = TotalEarned(h) + s
<1> DEFINE n == Len(h)
           last == {n + 1} \X (1 .. s)
<1>1. n \in Nat /\ DOMAIN h = 1 .. n /\ DOMAIN Append(h, s) = 1 .. (n + 1)
  BY AppendProperties, LenProperties
<1>2. Append(h, s)[n + 1] = s /\ \A i \in 1 .. n : Append(h, s)[i] = h[i] /\ i # n + 1
  BY <1>1, AppendProperties
<1> HIDE DEF n
<1>3. Earned(Append(h, s)) = Earned(h) \cup last
  <2>1. 1 .. (n + 1) = (1 .. n) \cup {n + 1}
    BY <1>1
  <2>2. \A i \in 1 .. n : {i} \X (1 .. Append(h, s)[i]) = {i} \X (1 .. h[i])
    BY <1>2
  <2> QED
    BY <1>1, <1>2, <2>1, <2>2 DEF Earned
<1>4. Earned(h) \cap last = {}
  <2>1. \A e \in Earned(h) : e[1] \in 1 .. n
    BY <1>1 DEF Earned
  <2>2. \A e \in last : e[1] = n + 1
    OBVIOUS
  <2> QED
    BY <1>1, <2>1, <2>2
<1>5. IsFiniteSet(last) /\ Cardinality(last) = s
  <2>1. IsFiniteSet({n + 1}) /\ Cardinality({n + 1}) = 1
    BY FS_Singleton
  <2>2. IsFiniteSet(1 .. s) /\ Cardinality(1 .. s) = s
    BY CardinalityOfInterval
  <2>3. IsFiniteSet(last) /\ Cardinality(last) = 1 * s
    BY <2>1, <2>2, FS_Product, SMTT(40)
  <2> QED
    BY <2>3
<1> HIDE DEF last
<1>6. Cardinality(Earned(h) \cap last) = 0
  BY <1>4, FS_EmptySet
<1>7. Cardinality(Earned(h)) \in Nat
  BY FS_CardinalityType
<1>8. /\ IsFiniteSet(Earned(h) \cup last)
      /\ Cardinality(Earned(h) \cup last)
           = Cardinality(Earned(h)) + Cardinality(last) - Cardinality(Earned(h) \cap last)
  BY <1>5, FS_Union
<1>9. Cardinality(Earned(Append(h, s))) = Cardinality(Earned(h)) + s
  BY <1>3, <1>5, <1>6, <1>7, <1>8
<1> QED
  BY <1>3, <1>8, <1>9 DEF TotalEarned, Earned

\* Rounding gives a nearest whole number.
LEMMA RoundedIsNearest ==
    ASSUME NEW t \in Nat, NEW n \in Nat \ {0}, NEW up, NEW a, a = Rounded(t, n, up)
    PROVE  /\ a \in Nat /\ a * n \in Nat
           /\ 2 * t <= 2 * (a * n) + n /\ 2 * (a * n) <= 2 * t + n
<1> DEFINE q == t \div n
           r == t % n
<1>1. q \in Nat /\ r \in 0 .. (n - 1) /\ t = n * q + r
  OBVIOUS
<1>2. a = IF 2 * r < n \/ (2 * r = n /\ ~up) THEN q ELSE q + 1
  BY DEF Rounded
<1> HIDE DEF q, r
<1>3. q * n \in Nat /\ q * n = n * q /\ (q + 1) * n = q * n + n
  BY <1>1
<1>4. CASE a = q
  <2>1. 2 * r <= n
    BY <1>1, <1>2, <1>4
  <2> HIDE DEF q, r
  <2>2. t = a * n + r /\ a * n \in Nat
    BY <1>1, <1>3, <1>4
  <2> QED
    BY <1>1, <1>4, <2>1, <2>2
<1>5. CASE a = q + 1
  <2>1. 2 * r >= n
    BY <1>1, <1>2, <1>5
  <2>2. t + n = a * n + r /\ a * n \in Nat
    BY <1>1, <1>3, <1>5
  <2> QED
    BY <1>1, <1>5, <2>1, <2>2
<1> QED
  BY <1>2, <1>4, <1>5

\* What is above a half below b is rounded to b or more, and what is below a half above b to b or less.
LEMMA RoundedAtLeast ==
    ASSUME NEW t \in Nat, NEW n \in Nat \ {0}, NEW b \in Nat, NEW up,
           2 * (b * n) < 2 * t + n
    PROVE  b <= Rounded(t, n, up)
<1> DEFINE a == Rounded(t, n, up)
<1>1. a \in Nat /\ a * n \in Nat /\ 2 * t <= 2 * (a * n) + n
  BY RoundedIsNearest
<1> HIDE DEF a
<1>2. (a + 1) * n = a * n + n /\ b * n \in Nat
  BY <1>1
<1>3. ~(a + 1 <= b)
  <2> SUFFICES ASSUME a + 1 <= b
               PROVE  FALSE
    OBVIOUS
  <2>1. (a + 1) * n <= b * n
    BY <1>1, MonotoneFactor
  <2> QED
    BY <1>1, <1>2, <2>1
<1> QED
  BY <1>1, <1>3 DEF a

LEMMA RoundedAtMost ==
    ASSUME NEW t \in Nat, NEW n \in Nat \ {0}, NEW b \in Nat, NEW up,
           2 * t < 2 * (b * n) + n
    PROVE  Rounded(t, n, up) <= b
<1> DEFINE a == Rounded(t, n, up)
<1>1. a \in Nat /\ a * n \in Nat /\ 2 * (a * n) <= 2 * t + n
  BY RoundedIsNearest
<1> HIDE DEF a
<1>2. (b + 1) * n = b * n + n /\ b * n \in Nat
  OBVIOUS
<1>3. ~(b + 1 <= a)
  <2> SUFFICES ASSUME b + 1 <= a
               PROVE  FALSE
    OBVIOUS
  <2>1. (b + 1) * n <= a * n
    BY <1>1, MonotoneFactor
  <2> QED
    BY <1>1, <1>2, <2>1
<1> QED
  BY <1>1, <1>3 DEF a
--------------------------------------------------------------------------------
USE ScoresAssumption

LEMMA RangeWithOneMore ==
    ASSUME NEW h \in Seq(Nat), NEW s \in Nat
    PROVE  Range(Append(h, s)) = Range(h) \cup {s}
<1> DEFINE n == Len(h)
<1>1. /\ DOMAIN h = 1 .. n /\ DOMAIN Append(h, s) = 1 .. (n + 1) /\ n \in Nat
      /\ Append(h, s)[n + 1] = s /\ \A i \in 1 .. n : Append(h, s)[i] = h[i]
  BY LenProperties, AppendProperties
<1> HIDE DEF n
<1>2. 1 .. (n + 1) = (1 .. n) \cup {n + 1}
  BY <1>1
<1> QED
  BY <1>1, <1>2 DEF Range

\* The history is of scores, and total is what get_score sums up.
Kept ==
    /\ history \in Seq(Nat) /\ history # << >>
    /\ IsFiniteSet(Earned(history)) /\ TotalEarned(history) = total
    /\ total \in Nat
    /\ \E B \in Nat : Range(history) \subseteq 0 .. B

LEMMA KeptInductive ==
    /\ FirstAttempt => Kept
    /\ Kept /\ [NextAttempt]_historyVars => Kept'
<1>1. ASSUME FirstAttempt
      PROVE  Kept
  <2>1. PICK s \in ScoreValues : history = <<s>> /\ total = s
    BY <1>1 DEF FirstAttempt
  <2>2. s \in Nat /\ << >> \in Seq(Nat) /\ Append(<< >>, s) = <<s>>
    BY <2>1
  <2>3. Earned(<< >>) = {}
    BY DEF Earned
  <2>4. IsFiniteSet(Earned(<< >>)) /\ TotalEarned(<< >>) = 0
    BY <2>3, FS_EmptySet DEF TotalEarned, Earned
  <2>5. IsFiniteSet(Earned(<<s>>)) /\ TotalEarned(<<s>>) = 0 + s
    BY <2>2, <2>4, EarnedWithOneMore
  <2>6. Range(<<s>>) \subseteq 0 .. s
    BY <2>2 DEF Range
  <2> QED
    BY <2>1, <2>2, <2>5, <2>6 DEF Kept
<1>2. ASSUME Kept, [NextAttempt]_historyVars
      PROVE  Kept'
  <2>1. CASE UNCHANGED historyVars
    BY <1>2, <2>1 DEF historyVars, Kept, Earned, TotalEarned
  <2>2. CASE NextAttempt
    <3>1. PICK s \in ScoreValues : history' = Append(history, s) /\ total' = total + s
      BY <2>2 DEF NextAttempt
    <3>2. IsFiniteSet(Earned(history')) /\ TotalEarned(history') = total + s
      BY <1>2, <3>1, EarnedWithOneMore DEF Kept
    <3>3. history' \in Seq(Nat) /\ history' # << >>
      BY <1>2, <3>1, AppendProperties DEF Kept
    <3>4. IsFiniteSet(Earned(history))' /\ (TotalEarned(history) = total)'
      BY <3>1, <3>2 DEF Earned, TotalEarned
    <3>5. PICK B \in Nat : Range(history) \subseteq 0 .. B
      BY <1>2 DEF Kept
    <3>6. B + s \in Nat /\ Range(history') \subseteq 0 .. (B + s)
      BY <1>2, <3>1, <3>5, RangeWithOneMore DEF Kept
    <3>7. total' \in Nat
      BY <1>2, <3>1 DEF Kept
    <3> QED
      BY <3>3, <3>4, <3>6, <3>7 DEF Kept
  <2> QED
    BY <1>2, <2>1, <2>2
<1> QED
  BY <1>1, <1>2

LEMMA AlwaysKept == HistorySpec => []Kept
BY KeptInductive, PTL DEF HistorySpec

(***************************************************************************)
(* average_score is the mean of the attempts to the nearest hundredth, for *)
(* every history of every length and wherever the ties go.                 *)
(***************************************************************************)
THEOREM AverageIsAlwaysNearest == HistorySpec => []AverageIsNearest
<1>1. Kept => AverageIsNearest
  <2> SUFFICES ASSUME Kept
               PROVE  AverageIsNearest
    OBVIOUS
  <2> DEFINE n == Len(history)
             a == get_score("average_score", history)
  <2>1. n \in Nat \ {0}
    BY EmptySeq, LenProperties DEF Kept
  <2>2. total \in Nat /\ a = Rounded(total, n, TieUp(history))
    BY DEF Kept, get_score, handle_average_score
  <2> HIDE DEF n, a
  <2>3. /\ a \in Nat /\ a * n \in Nat
        /\ 2 * total <= 2 * (a * n) + n /\ 2 * (a * n) <= 2 * total + n
    BY <2>1, <2>2, RoundedIsNearest
  <2> DEFINE excess == IF a * n >= total THEN a * n - total ELSE total - a * n
  <2>4. 2 * excess <= n
    <3>1. CASE a * n >= total
      <4>1. excess = a * n - total
        BY <3>1
      <4> HIDE DEF excess
      <4> QED
        BY <2>1, <2>2, <2>3, <3>1, <4>1
    <3>2. CASE ~(a * n >= total)
      <4>1. excess = total - a * n
        BY <3>2
      <4> HIDE DEF excess
      <4> QED
        BY <2>1, <2>2, <2>3, <3>2, <4>1
    <3> QED
      BY <3>1, <3>2
  <2> QED
    BY <2>4 DEF AverageIsNearest, n, a
<1> QED
  BY <1>1, AlwaysKept, PTL

(***************************************************************************)
(* One more attempt never changes the first score, raises the highest to   *)
(* its own at most, is the last, and draws the average towards its score   *)
(* and never past it, in spite of the rounding.                            *)
(***************************************************************************)
THEOREM AttemptAlwaysMovesScore == HistorySpec => AttemptMovesScore
<1>1. ASSUME Kept, Kept', NextAttempt
      PROVE  MovesByItsRule
  <2> DEFINE n == Len(history)
             a == get_score("average_score", history)
             b == get_score("average_score", history')
  <2>1. PICK s \in ScoreValues : history' = Append(history, s) /\ total' = total + s
    BY <1>1 DEF NextAttempt
  <2>2. s \in Nat /\ n \in Nat \ {0} /\ Len(history') = n + 1 /\ history'[n + 1] = s
        /\ history'[1] = history[1] /\ total \in Nat
    BY <1>1, <2>1, EmptySeq, LenProperties, AppendProperties DEF Kept
  <2>3. get_score("first_score", history') = get_score("first_score", history)
        /\ get_score("last_score", history') = s
    BY <2>2 DEF get_score, handle_first_score, handle_last_score
  <2>4. LET old == get_score("highest_score", history)
            new == get_score("highest_score", history')
        IN  new >= old /\ new \in {old, s}
    <3>1. /\ get_score("highest_score", history) = Max(Range(history))
          /\ get_score("highest_score", history') = Max(Range(history'))
      BY DEF get_score, handle_highest_score
    <3>2. Range(history') = Range(history) \cup {s} /\ Range(history) # {}
      <4>1. 1 \in DOMAIN history
        BY <1>1, <2>2, LenProperties DEF Kept
      <4>2. history \in Seq(Nat) /\ Range(history) # {}
        BY <1>1, <4>1 DEF Kept, Range
      <4> QED
        BY <2>1, <2>2, <4>2, RangeWithOneMore
    <3>3. PICK B \in Nat : Range(history) \subseteq 0 .. B /\ s \in 0 .. B
      <4>1. PICK C \in Nat : Range(history') \subseteq 0 .. C
        BY <1>1 DEF Kept
      <4> QED
        BY <3>2, <4>1
    <3>4. Max(Range(history)) \in Range(history)
          /\ \A y \in Range(history) : Max(Range(history)) >= y
      BY <3>2, <3>3, MaxInSet
    <3>5. Max(Range(history')) \in Range(history')
          /\ \A y \in Range(history') : Max(Range(history')) >= y
      BY <3>2, <3>3, MaxInSet
    <3> QED
      BY <3>1, <3>2, <3>3, <3>4, <3>5
  <2>5. a = Rounded(total, n, TieUp(history)) /\ b = Rounded(total + s, n + 1, TieUp(history'))
    BY <1>1, <2>1, <2>2 DEF Kept, get_score, handle_average_score
  <2> HIDE DEF n, a, b
  <2>11. total + s \in Nat /\ n + 1 \in Nat \ {0}
    BY <2>2
  <2>6. /\ a \in Nat /\ a * n \in Nat
        /\ 2 * total <= 2 * (a * n) + n /\ 2 * (a * n) <= 2 * total + n
    BY <2>2, <2>5, RoundedIsNearest
  <2>7. b \in Nat
    BY <2>5, <2>11, RoundedIsNearest
  <2>8. a * (n + 1) = a * n + a /\ s * (n + 1) = s * n + s /\ s * n \in Nat
    BY <2>2, <2>6
  <2>9. ASSUME s >= a
        PROVE  b \in a .. s
    <3>1. a * n <= s * n
      BY <2>2, <2>6, <2>9, MonotoneFactor
    <3>2. a <= b
      <4>1. 2 * (a * (n + 1)) < 2 * (total + s) + (n + 1)
        BY <2>2, <2>6, <2>8, <2>9
      <4> QED
        BY <2>5, <2>6, <2>11, <4>1, RoundedAtLeast
    <3>3. b <= s
      <4>1. 2 * (total + s) < 2 * (s * (n + 1)) + (n + 1)
        BY <2>2, <2>6, <2>8, <3>1
      <4> QED
        BY <2>2, <2>5, <2>11, <4>1, RoundedAtMost
    <3> QED
      BY <2>2, <2>6, <2>7, <3>2, <3>3
  <2>10. ASSUME s <= a
         PROVE  b \in s .. a
    <3>1. s * n <= a * n
      BY <2>2, <2>6, <2>10, MonotoneFactor
    <3>2. s <= b
      <4>1. 2 * (s * (n + 1)) < 2 * (total + s) + (n + 1)
        BY <2>2, <2>6, <2>8, <3>1
      <4> QED
        BY <2>2, <2>5, <2>11, <4>1, RoundedAtLeast
    <3>3. b <= a
      <4>1. 2 * (total + s) < 2 * (a * (n + 1)) + (n + 1)
        BY <2>2, <2>6, <2>8, <2>10
      <4> QED
        BY <2>5, <2>6, <2>11, <4>1, RoundedAtMost
    <3> QED
      BY <2>2, <2>6, <2>7, <3>2, <3>3
  <2> QED
    BY <2>2, <2>3, <2>4, <2>9, <2>10 DEF MovesByItsRule, a, b, n
<1>2. Kept /\ Kept' /\ [NextAttempt]_historyVars => [MovesByItsRule]_historyVars
  BY <1>1
<1> QED
  BY <1>2, AlwaysKept, PTL DEF HistorySpec, AttemptMovesScore

--------------------------------------------------------------------------------
USE AnswersAssumption, SettingsAssumption, PointsAssumption

\* A grade is a correct map, and is worth a score.
LEMMA GradeType ==
    ASSUME TypeOK, NEW a \in Answers
    PROVE  Grade(a) \in CorrectMaps
  BY DEF TypeOK, Grade, CorrectMaps

LEMMA MapScoreType ==
    ASSUME NEW map \in CorrectMaps
    PROVE  score_from_lcp(map) \in Scores
  BY DEF CorrectMaps, score_from_lcp, Scores

LEMMA NoMapType == NoMap \in CorrectMaps /\ score_from_lcp(NoMap) = 0
  BY DEF NoMap, CorrectMaps, score_from_lcp

\* The grading method turns any non-empty history into a score.
LEMMA MethodType ==
    ASSUME NEW h \in Seq(Scores), h # << >>
    PROVE  get_score(GradingMethod, h) \in Scores
<1>1. 100 * MaxPoints \in Nat
  OBVIOUS
<1> QED
  BY <1>1, MethodInRange DEF Scores

LEMMA PublishedType ==
    ASSUME TypeOK, NEW new \in Scores, NEW b \in BOOLEAN
    PROVE  Published(new, b) \in Scores
  BY DEF TypeOK, Published

\* A fresh problem has the right types.
LEMMA FreshType ==
    ASSUME FreshProblem
    PROVE  /\ done' \in BOOLEAN
           /\ score' \in Scores
           /\ student_answers' \in Answers \cup {NoAnswer}
           /\ has_saved_answers' \in BOOLEAN
           /\ correct_map' \in CorrectMaps
           /\ correct_map_history' \in Seq(CorrectMaps)
<1>1. 0 \in Scores
  BY DEF Scores
<1>2. << >> \in Seq(CorrectMaps)
  BY EmptySeq
<1> QED
  BY <1>1, <1>2, NoMapType DEF FreshProblem
--------------------------------------------------------------------------------
(***************************************************************************)
(* Type correctness.                                                       *)
(***************************************************************************)
LEMMA InitType == Init => TypeOK
<1> SUFFICES ASSUME Init
             PROVE  TypeOK
  OBVIOUS
<1>0. /\ 0 \in Scores
      /\ << >> \in Seq(CorrectMaps) /\ << >> \in Seq(Answers) /\ << >> \in Seq(Scores)
  BY EmptySeq DEF Scores
<1>1. CASE NewLearner
  BY <1>0, <1>1, NoMapType DEF Init, TypeOK, NewLearner
<1>2. CASE LearnerWithoutHistory
  <2>1. student_answers \in Answers /\ Grade(student_answers) \in CorrectMaps
    BY <1>2 DEF LearnerWithoutHistory, Init, Grade, CorrectMaps
  <2>2. score \in Scores
    BY <1>2, <2>1, MapScoreType DEF LearnerWithoutHistory
  <2> QED
    BY <1>0, <1>2, <2>1, <2>2 DEF Init, TypeOK, LearnerWithoutHistory
<1> QED
  BY <1>1, <1>2 DEF Init

LEMMA SubmitGradedType ==
    ASSUME TypeOK, NEW a \in Answers, SubmitGraded(a)
    PROVE  TypeOK'
<1>1. Grade(a) \in CorrectMaps /\ score_from_lcp(Grade(a)) \in Scores
  BY GradeType, MapScoreType
<1>2. score_history' \in Seq(Scores) /\ score_history' # << >>
  <2>1. score_history' = Append(score_history, score_from_lcp(Grade(a)))
    BY DEF SubmitGraded
  <2>2. score_history \in Seq(Scores)
    BY DEF TypeOK
  <2> QED
    BY <1>1, <2>1, <2>2, AppendProperties
<1>3. get_score(GradingMethod, score_history') \in Scores
  BY <1>2, MethodType
<1>4. gradebook' \in Scores
  BY <1>3, PublishedType DEF SubmitGraded
<1>5. /\ attempts' \in Nat /\ graded' \in Seq(Answers) /\ waiting' \in BOOLEAN
      /\ student_answers_history' \in Seq(Answers)
      /\ seed' = seed /\ pastDue' = pastDue /\ key' = key
  BY DEF SubmitGraded, RecordSubmission, TypeOK, settings
<1>6. CASE a \in CorruptAnswers
  BY <1>2, <1>4, <1>5, <1>6, FreshType DEF SubmitGraded, TypeOK
<1>7. CASE a \notin CorruptAnswers
  <2>1. correct_map_history' \in Seq(CorrectMaps)
    <3>1. correct_map_history' = Append(correct_map_history, Grade(a))
      BY <1>7 DEF SubmitGraded
    <3>2. correct_map_history \in Seq(CorrectMaps)
      BY DEF TypeOK
    <3> QED
      BY <1>1, <3>1, <3>2, AppendProperties
  <2> QED
    BY <1>1, <1>2, <1>3, <1>4, <1>5, <1>7, <2>1 DEF SubmitGraded, TypeOK
<1> QED
  BY <1>6, <1>7

LEMMA RescoreHistoryType ==
    ASSUME TypeOK, NEW b \in BOOLEAN, Rescore(b)
    PROVE  /\ correct_map_history' \in Seq(CorrectMaps)
           /\ correct_map' \in CorrectMaps
           /\ score_history' \in Seq(Scores) /\ score_history' # << >>
<1> DEFINE n == IF Len(student_answers_history) < Len(correct_map_history)
                THEN Len(student_answers_history) ELSE Len(correct_map_history)
           scores == [i \in PairedAttempts |-> score_from_lcp(correct_map_history'[i])]
<1>1. n \in Nat /\ PairedAttempts = 1 .. n
  BY DEF TypeOK, PairedAttempts
<1>2. \A i \in PairedAttempts : student_answers_history[i] \in Answers
  BY DEF TypeOK, PairedAttempts
<1>3. correct_map_history' \in [PairedAttempts -> CorrectMaps]
  BY <1>2, GradeType DEF Rescore
<1>4. correct_map_history' \in Seq(CorrectMaps)
  BY <1>1, <1>3, IsASeq
<1>5. correct_map' \in CorrectMaps
  BY <1>4, EmptySeq, ElementOfSeq, LenProperties DEF Rescore, TypeOK
<1>6. scores \in [PairedAttempts -> Scores]
  BY <1>3, MapScoreType
<1>7. scores \in Seq(Scores)
  BY <1>1, <1>6, IsASeq
<1>8. score_history' \in Seq(Scores) /\ score_history' # << >>
  <2> HIDE DEF scores
  <2>1. score_history' = SeededHistory(score, scores)
    BY DEF Rescore, scores
  <2> QED
    BY <1>7, <2>1 DEF SeededHistory, TypeOK
<1> QED
  BY <1>4, <1>5, <1>8

LEMMA RescoreType ==
    ASSUME TypeOK, NEW b \in BOOLEAN, Rescore(b)
    PROVE  TypeOK'
<1>1. gradebook' \in Scores
  BY RescoreHistoryType, MethodType, PublishedType DEF Rescore
<1> QED
  BY <1>1, RescoreHistoryType DEF Rescore, TypeOK, settings

LEMMA NextType == TypeOK /\ [Next]_vars => TypeOK'
<1> SUFFICES ASSUME TypeOK, [Next]_vars
             PROVE  TypeOK'
  OBVIOUS
<1>1. ASSUME NEW a \in Answers, SubmitTooSoon(a)
      PROVE  TypeOK'
  BY <1>1 DEF SubmitTooSoon, RecordSubmission, TypeOK, lcpState, settings
<1>2. ASSUME NEW a \in Answers, SubmitMalformed(a)
      PROVE  TypeOK'
  BY <1>2, MapScoreType, AppendProperties DEF SubmitMalformed, RecordSubmission, TypeOK, settings
<1>3. ASSUME NEW a \in Answers, SubmitGraded(a)
      PROVE  TypeOK'
  BY <1>3, SubmitGradedType
<1>4. ASSUME NEW a \in Answers, Save(a)
      PROVE  TypeOK'
  BY <1>4, FreshType, MapScoreType DEF Save, TypeOK, settings
<1>5. CASE Reset
  <2>1. seed' \in Seeds
    BY <1>5 DEF Reset, NewSeeds, TypeOK
  <2>2. gradebook' \in Scores
    BY <1>5 DEF Reset, Published, TypeOK, Scores
  <2> QED
    BY <1>5, <2>1, <2>2, FreshType DEF Reset, TypeOK, settings
<1>6. CASE View
  BY <1>6, FreshType DEF View, TypeOK, settings
<1>7. ASSUME NEW b \in BOOLEAN, Rescore(b)
      PROVE  TypeOK'
  BY <1>7, RescoreType
<1>8. CASE WaitEnds
  BY <1>8 DEF WaitEnds, TypeOK, block, lcpState, settings
<1>9. CASE DueDateChange
  BY <1>9 DEF DueDateChange, TypeOK, block, lcpState
<1>10. CASE Publish
  BY <1>10 DEF Publish, TypeOK, block, lcpState
<1>11. CASE UNCHANGED vars
  BY <1>11 DEF vars, TypeOK, lcpState, settings
<1> QED
  BY <1>1, <1>2, <1>3, <1>4, <1>5, <1>6, <1>7, <1>8, <1>9, <1>10, <1>11 DEF Next

(***************************************************************************)
(* Every reachable state of the block is well-typed: in particular every   *)
(* score it holds or publishes is between nothing and full points.         *)
(***************************************************************************)
THEOREM TypeCorrect == Spec => []TypeOK
<1> QED
  BY InitType, NextType, PTL DEF Spec
--------------------------------------------------------------------------------
(***************************************************************************)
(* The histories.  Neither AttemptsAccounted nor AlignedWhenSameLength is  *)
(* inductive: a fresh problem empties correct_map_history, and histories   *)
(* that are both empty then must pair nothing with nothing, and a rescore  *)
(* of a problem without a history records one score.                       *)
(***************************************************************************)
HistoryInv ==
    /\ AttemptsAccounted
    /\ AlignedWhenSameLength
    /\ done => attempts >= 1
    /\ Len(graded) <= Len(student_answers_history)

LEMMA InitHistory == Init => HistoryInv
<1> SUFFICES ASSUME Init
             PROVE  HistoryInv
  OBVIOUS
<1>1. CASE NewLearner
  BY <1>1, EmptySeq DEF Init, NewLearner, HistoryInv, AttemptsAccounted, AlignedWhenSameLength
<1>2. CASE LearnerWithoutHistory
  BY <1>2, EmptySeq DEF Init, LearnerWithoutHistory, HistoryInv, AttemptsAccounted,
                        AlignedWhenSameLength
<1> QED
  BY <1>1, <1>2 DEF Init

\* A submission is recorded at the end, and is an attempt within max_attempts.
LEMMA RecordedHistory ==
    ASSUME TypeOK, HistoryInv, NEW a \in Answers, RecordSubmission(a)
    PROVE  /\ Len(student_answers_history') = Len(student_answers_history) + 1
           /\ student_answers_history' = Append(student_answers_history, a)
           /\ MaxAttempts # Unlimited => attempts + 1 <= MaxAttempts
  BY AppendProperties DEF RecordSubmission, TypeOK, closed, used_all_attempts

LEMMA SubmitGradedHistory ==
    ASSUME TypeOK, HistoryInv, NEW a \in Answers, SubmitGraded(a)
    PROVE  HistoryInv'
<1>1. /\ Len(student_answers_history') = Len(student_answers_history) + 1
      /\ student_answers_history' = Append(student_answers_history, a)
      /\ MaxAttempts # Unlimited => attempts' <= MaxAttempts
      /\ attempts' = attempts + 1
  BY RecordedHistory DEF SubmitGraded
<1>2. graded' = Append(graded, a) /\ Len(graded') = Len(graded) + 1
  BY AppendProperties DEF SubmitGraded, TypeOK
<1>3. Len(score_history') = Len(score_history) + 1
  <2>1. score_from_lcp(Grade(a)) \in Scores /\ score_history \in Seq(Scores)
    BY GradeType, MapScoreType DEF TypeOK
  <2>2. score_history' = Append(score_history, score_from_lcp(Grade(a)))
    BY DEF SubmitGraded
  <2> QED
    BY <2>1, <2>2, AppendProperties
<1>4. /\ attempts \in Nat /\ Len(student_answers_history) \in Nat
      /\ Len(correct_map_history) \in Nat /\ Len(graded) \in Nat /\ Len(score_history) \in Nat
  BY LenProperties DEF TypeOK
<1>5. CASE a \in CorruptAnswers
  <2>1. Len(correct_map_history') = 0
    BY <1>5, EmptySeq DEF SubmitGraded, FreshProblem
  <2> QED
    BY <1>1, <1>2, <1>3, <1>4, <2>1 DEF HistoryInv, AttemptsAccounted, AlignedWhenSameLength
<1>6. CASE a \notin CorruptAnswers
  <2>1. Len(correct_map_history') = Len(correct_map_history) + 1
    <3>1. correct_map_history' = Append(correct_map_history, Grade(a))
      BY <1>6 DEF SubmitGraded
    <3>2. correct_map_history \in Seq(CorrectMaps)
      BY DEF TypeOK
    <3> QED
      BY <3>1, <3>2, GradeType, AppendProperties
  <2> QED
    BY <1>1, <1>2, <1>3, <1>4, <2>1 DEF HistoryInv, AttemptsAccounted, AlignedWhenSameLength
<1> QED
  BY <1>5, <1>6

\* A problem that is replaced by a fresh one keeps its answers and its attempts.
LEMMA FreshHistory ==
    ASSUME TypeOK, HistoryInv, FreshProblem,
           UNCHANGED <<attempts, student_answers_history, score_history, graded>>
    PROVE  HistoryInv'
<1>1. Len(correct_map_history') = 0 /\ ~done'
  BY EmptySeq DEF FreshProblem
<1>2. Len(student_answers_history) = 0 => student_answers_history = graded
  BY EmptySeq, LenProperties DEF TypeOK, HistoryInv
<1>3. Len(graded) \in Nat /\ Len(student_answers_history) \in Nat
  BY LenProperties DEF TypeOK
<1> QED
  BY <1>1, <1>2, <1>3 DEF HistoryInv, AttemptsAccounted, AlignedWhenSameLength

\* Under the invariant a rescore keeps the number of graded attempts.
LEMMA RescoreLength ==
    ASSUME TypeOK, HistoryInv, NEW b \in BOOLEAN, Rescore(b)
    PROVE  /\ PairedAttempts = 1 .. Len(correct_map_history)
           /\ Len(correct_map_history') = Len(correct_map_history)
           /\ Len(score_history') = IF Len(correct_map_history) = 0
                                    THEN 1 ELSE Len(correct_map_history)
<1> DEFINE n == Len(correct_map_history)
           scores == [i \in PairedAttempts |-> score_from_lcp(correct_map_history'[i])]
<1>1. n \in Nat /\ PairedAttempts = 1 .. n
  BY LenProperties DEF TypeOK, PairedAttempts, HistoryInv, AlignedWhenSameLength
<1>2. \A i \in PairedAttempts : student_answers_history[i] \in Answers
  BY DEF TypeOK, PairedAttempts
<1>3. correct_map_history' \in [1 .. n -> CorrectMaps]
  BY <1>1, <1>2, GradeType DEF Rescore
<1>4. Len(correct_map_history') = n
  BY <1>1, <1>3, IsASeq
<1>5. scores \in [1 .. n -> Scores]
  BY <1>1, <1>3, MapScoreType
<1>6. scores \in Seq(Scores) /\ Len(scores) = n
  BY <1>1, <1>5, IsASeq
<1>7. Len(score_history') = IF n = 0 THEN 1 ELSE n
  <2>1. score_history' = SeededHistory(score, scores)
    BY DEF Rescore
  <2> HIDE DEF scores
  <2> QED
    BY <1>6, <2>1, EmptySeq DEF SeededHistory, TypeOK
<1> QED
  BY <1>1, <1>4, <1>7

LEMMA NextHistory == TypeOK /\ HistoryInv /\ [Next]_vars => HistoryInv'
<1> SUFFICES ASSUME TypeOK, HistoryInv, [Next]_vars
             PROVE  HistoryInv'
  OBVIOUS
<1> USE DEF HistoryInv, AttemptsAccounted, AlignedWhenSameLength
<1>0. /\ attempts \in Nat /\ Len(student_answers_history) \in Nat
      /\ Len(correct_map_history) \in Nat /\ Len(graded) \in Nat
  BY LenProperties DEF TypeOK
<1>1. ASSUME NEW a \in Answers, SubmitTooSoon(a)
      PROVE  HistoryInv'
  BY <1>0, <1>1, RecordedHistory DEF SubmitTooSoon, lcpState
<1>2. ASSUME NEW a \in Answers, SubmitMalformed(a)
      PROVE  HistoryInv'
  BY <1>0, <1>2, RecordedHistory DEF SubmitMalformed
<1>3. ASSUME NEW a \in Answers, SubmitGraded(a)
      PROVE  HistoryInv'
  BY <1>3, SubmitGradedHistory
<1>4. ASSUME NEW a \in Answers, Save(a)
      PROVE  HistoryInv'
  BY <1>4, FreshHistory DEF Save
<1>5. CASE Reset
  BY <1>5, FreshHistory DEF Reset
<1>6. CASE View
  BY <1>6, FreshHistory DEF View
<1>7. ASSUME NEW b \in BOOLEAN, Rescore(b)
      PROVE  HistoryInv'
  BY <1>0, <1>7, RescoreLength DEF Rescore
<1>8. CASE WaitEnds
  BY <1>8 DEF WaitEnds, block, lcpState
<1>9. CASE DueDateChange
  BY <1>9 DEF DueDateChange, block, lcpState
<1>10. CASE Publish
  BY <1>10 DEF Publish, block, lcpState
<1>11. CASE UNCHANGED vars
  BY <1>11 DEF vars, lcpState
<1> QED
  BY <1>1, <1>2, <1>3, <1>4, <1>5, <1>6, <1>7, <1>8, <1>9, <1>10, <1>11 DEF Next

LEMMA HistoryInvariant == Spec => [](TypeOK /\ HistoryInv)
<1> QED
  BY InitType, InitHistory, NextType, NextHistory, PTL DEF Spec

(***************************************************************************)
(* No learner spends more attempts than max_attempts, and no history of    *)
(* graded attempts outgrows the attempts counter.                          *)
(***************************************************************************)
THEOREM AttemptsAreAccounted == Spec => []AttemptsAccounted
<1>1. HistoryInv => AttemptsAccounted
  BY DEF HistoryInv
<1> QED
  BY <1>1, HistoryInvariant, PTL

(***************************************************************************)
(* Histories of the same length pair every attempt with its own answer.    *)
(***************************************************************************)
THEOREM SameLengthIsAligned == Spec => []AlignedWhenSameLength
<1>1. HistoryInv => AlignedWhenSameLength
  BY DEF HistoryInv
<1> QED
  BY <1>1, HistoryInvariant, PTL
--------------------------------------------------------------------------------
(***************************************************************************)
(* The grade on display.  DoneMeansGraded needs that an ungraded map is    *)
(* worth nothing, since a save or a malformed submission of a problem that *)
(* was never attempted writes its score from that map.                     *)
(***************************************************************************)
GradedInv ==
    /\ DoneMeansGraded
    /\ correct_map.of = NoAnswer => score_from_lcp(correct_map) = 0

LEMMA GradedMap ==
    ASSUME NEW a \in Answers
    PROVE  Grade(a).of # NoAnswer
  BY DEF Grade

LEMMA FreshGraded ==
    ASSUME FreshProblem
    PROVE  /\ ~done' /\ score' = 0
           /\ correct_map'.of = NoAnswer /\ score_from_lcp(correct_map') = 0
  BY NoMapType DEF FreshProblem, NoMap

LEMMA InitGraded == Init => GradedInv
<1> SUFFICES ASSUME Init
             PROVE  GradedInv
  OBVIOUS
<1>1. CASE NewLearner
  BY <1>1, NoMapType DEF Init, NewLearner, GradedInv, DoneMeansGraded, NoMap
<1>2. CASE LearnerWithoutHistory
  BY <1>2, GradedMap DEF Init, LearnerWithoutHistory, GradedInv, DoneMeansGraded
<1> QED
  BY <1>1, <1>2 DEF Init

LEMMA RescoreGraded ==
    ASSUME TypeOK, HistoryInv, GradedInv, NEW b \in BOOLEAN, Rescore(b)
    PROVE  GradedInv'
<1>1. done /\ attempts >= 1 /\ UNCHANGED <<done, attempts, score>>
  BY DEF Rescore, HistoryInv
<1>2. correct_map.of # NoAnswer
  BY <1>1 DEF GradedInv, DoneMeansGraded
<1>3. correct_map'.of # NoAnswer
  <2>1. CASE correct_map_history' = << >>
    BY <1>2, <2>1 DEF Rescore
  <2>2. CASE correct_map_history' # << >>
    <3> DEFINE n == Len(correct_map_history')
    <3>1. n \in Nat \ {0} /\ PairedAttempts = 1 .. n
      <4>1. correct_map_history' \in Seq(CorrectMaps)
        BY RescoreType DEF TypeOK
      <4> QED
        BY <2>2, <4>1, RescoreLength, EmptySeq, LenProperties
    <3>2. n \in PairedAttempts /\ student_answers_history[n] \in Answers
      BY <3>1 DEF TypeOK, PairedAttempts
    <3>3. correct_map' = Grade(student_answers_history[n])
      BY <2>2, <3>2 DEF Rescore
    <3> QED
      BY <3>2, <3>3, GradedMap
  <2> QED
    BY <2>1, <2>2
<1> QED
  BY <1>1, <1>3 DEF GradedInv, DoneMeansGraded, TypeOK

LEMMA NextGraded == TypeOK /\ HistoryInv /\ GradedInv /\ [Next]_vars => GradedInv'
<1> SUFFICES ASSUME TypeOK, HistoryInv, GradedInv, [Next]_vars
             PROVE  GradedInv'
  OBVIOUS
<1>0. attempts \in Nat
  BY DEF TypeOK
<1>1. ASSUME NEW a \in Answers, SubmitTooSoon(a)
      PROVE  GradedInv'
  BY <1>1 DEF SubmitTooSoon, lcpState, GradedInv, DoneMeansGraded, score_from_lcp
<1>2. ASSUME NEW a \in Answers, SubmitMalformed(a)
      PROVE  GradedInv'
  BY <1>2 DEF SubmitMalformed, GradedInv, DoneMeansGraded, score_from_lcp
<1>3. ASSUME NEW a \in Answers, SubmitGraded(a)
      PROVE  GradedInv'
  <2>1. attempts' # 0
    BY <1>0, <1>3 DEF SubmitGraded
  <2>2. CASE a \in CorruptAnswers
    BY <1>3, <2>1, <2>2, FreshGraded DEF SubmitGraded, GradedInv, DoneMeansGraded
  <2>3. CASE a \notin CorruptAnswers
    BY <1>3, <2>1, <2>3, GradedMap DEF SubmitGraded, GradedInv, DoneMeansGraded
  <2> QED
    BY <2>2, <2>3
<1>4. ASSUME NEW a \in Answers, Save(a)
      PROVE  GradedInv'
  <2>1. CASE a \in CorruptAnswers
    BY <1>4, <2>1, FreshGraded DEF Save, GradedInv, DoneMeansGraded
  <2>2. CASE a \notin CorruptAnswers
    BY <1>4, <2>2 DEF Save, GradedInv, DoneMeansGraded, score_from_lcp
  <2> QED
    BY <2>1, <2>2
<1>5. CASE Reset
  <2>1. attempts' # 0
    BY <1>5 DEF Reset, HistoryInv, TypeOK
  <2> QED
    BY <1>5, <2>1, FreshGraded DEF Reset, GradedInv, DoneMeansGraded
<1>6. CASE View
  BY <1>6, FreshGraded DEF View, GradedInv, DoneMeansGraded
<1>7. ASSUME NEW b \in BOOLEAN, Rescore(b)
      PROVE  GradedInv'
  BY <1>7, RescoreGraded
<1>8. CASE WaitEnds
  BY <1>8 DEF WaitEnds, block, lcpState, GradedInv, DoneMeansGraded, score_from_lcp
<1>9. CASE DueDateChange
  BY <1>9 DEF DueDateChange, block, lcpState, GradedInv, DoneMeansGraded, score_from_lcp
<1>10. CASE Publish
  BY <1>10 DEF Publish, block, lcpState, GradedInv, DoneMeansGraded, score_from_lcp
<1>11. CASE UNCHANGED vars
  BY <1>11 DEF vars, lcpState, GradedInv, DoneMeansGraded, score_from_lcp
<1> QED
  BY <1>1, <1>2, <1>3, <1>4, <1>5, <1>6, <1>7, <1>8, <1>9, <1>10, <1>11 DEF Next

LEMMA GradedInvariant == Spec => [](TypeOK /\ HistoryInv /\ GradedInv)
<1> QED
  BY InitType, InitHistory, InitGraded, NextType, NextHistory, NextGraded, PTL DEF Spec

(***************************************************************************)
(* A problem is done exactly when its map holds a grade, and an unattempted*)
(* one has earned nothing.                                                 *)
(***************************************************************************)
THEOREM DoneIsGraded == Spec => []DoneMeansGraded
<1>1. GradedInv => DoneMeansGraded
  BY DEF GradedInv
<1> QED
  BY <1>1, GradedInvariant, PTL
--------------------------------------------------------------------------------
(***************************************************************************)
(* The refinement: under the invariants each handler is a step of          *)
(* CapaAttempts, or does not touch what that specification promises.       *)
(***************************************************************************)
LEMMA InitPromise == Init /\ TypeOK /\ GradedInv => Attempts!Init
  BY DEF Init, TypeOK, GradedInv, DoneMeansGraded, Attempts!Init

LEMMA OpenMeansNotClosed == TypeOK /\ ~closed => Attempts!Open
  BY DEF TypeOK, closed, used_all_attempts, Attempts!Open

LEMMA NextPromise ==
    TypeOK /\ TypeOK' /\ HistoryInv /\ [Next]_vars => [Attempts!Next]_(Attempts!avars)
<1> SUFFICES ASSUME TypeOK, TypeOK', HistoryInv, [Next]_vars
             PROVE  [Attempts!Next]_(Attempts!avars)
  OBVIOUS
<1> USE DEF Attempts!Next, Attempts!avars
<1>1. ASSUME NEW a \in Answers, SubmitTooSoon(a)
      PROVE  UNCHANGED Attempts!avars
  BY <1>1 DEF SubmitTooSoon, lcpState, settings
<1>2. ASSUME NEW a \in Answers, SubmitMalformed(a)
      PROVE  UNCHANGED Attempts!avars
  BY <1>2 DEF SubmitMalformed, settings
<1>3. ASSUME NEW a \in Answers, SubmitGraded(a)
      PROVE  Attempts!Attempt
  <2>1. Attempts!Open /\ ~NeedsReset
    BY <1>3, OpenMeansNotClosed DEF SubmitGraded, RecordSubmission
  <2> QED
    BY <1>3, <2>1 DEF SubmitGraded, TypeOK, NeedsReset, settings, Attempts!Attempt
<1>4. ASSUME NEW a \in Answers, Save(a)
      PROVE  Attempts!Recover \/ UNCHANGED Attempts!avars
  BY <1>4 DEF Save, FreshProblem, TypeOK, settings, Attempts!Recover
<1>5. CASE Reset
  <2>1. gradebook' = 0
    BY <1>5 DEF Reset, Published
  <2> QED
    BY <1>5, <2>1, OpenMeansNotClosed DEF Reset, FreshProblem, settings, Attempts!Renew
<1>6. CASE View
  BY <1>6 DEF View, FreshProblem, TypeOK, settings, Attempts!Recover
<1>7. ASSUME NEW b \in BOOLEAN, Rescore(b)
      PROVE  Attempts!Regrade(b)
  <2>1. gradebook' \in Scores /\ (b => gradebook' >= gradebook)
    <3>1. gradebook' = Published(get_score(GradingMethod, score_history'), b)
      BY <1>7 DEF Rescore
    <3>2. get_score(GradingMethod, score_history') \in Scores
      BY <1>7, RescoreHistoryType, MethodType
    <3> QED
      BY <3>1, <3>2 DEF Published, TypeOK, Scores
  <2> QED
    BY <1>7, <2>1 DEF Rescore, settings, Attempts!Regrade
<1>8. CASE WaitEnds
  BY <1>8 DEF WaitEnds, block, lcpState, settings
<1>9. CASE DueDateChange
  BY <1>9 DEF DueDateChange, block, lcpState, Attempts!DueDateChange
<1>10. CASE Publish
  BY <1>10 DEF Publish, block, lcpState
<1>11. CASE UNCHANGED vars
  BY <1>11 DEF vars, lcpState, settings
<1> QED
  BY <1>1, <1>2, <1>3, <1>4, <1>5, <1>6, <1>7, <1>8, <1>9, <1>10, <1>11 DEF Next

(***************************************************************************)
(* The block implements CapaAttempts for every value of the constants.     *)
(***************************************************************************)
THEOREM BlockKeepsThePromise == Spec => KeepsThePromise
<1> QED
  BY InitType, InitGraded, InitPromise, NextPromise, GradedInvariant, PTL
     DEF Spec, KeepsThePromise, Attempts!Spec
--------------------------------------------------------------------------------
(***************************************************************************)
(* The histories tell the story of the map on display.  For the learners   *)
(* whose histories are equally long, each map is of the answer graded at   *)
(* its place: with it a rescore shows the grade of the answers on display. *)
(***************************************************************************)
MapsAreOfGraded ==
    Len(correct_map_history) = Len(student_answers_history)
        => \A i \in 1 .. Len(correct_map_history) : correct_map_history[i].of = graded[i]
StoryInv == HistoriesAgree /\ MapsAreOfGraded

LEMMA FreshStory ==
    ASSUME FreshProblem
    PROVE  StoryInv'
<1>1. Len(correct_map_history') = 0
  BY EmptySeq DEF FreshProblem
<1> QED
  BY <1>1 DEF StoryInv, HistoriesAgree, MapsAreOfGraded

LEMMA SubmitGradedStory ==
    ASSUME TypeOK, HistoryInv, StoryInv, NEW a \in Answers, SubmitGraded(a)
    PROVE  StoryInv'
<1>1. CASE a \in CorruptAnswers
  BY <1>1, FreshStory DEF SubmitGraded
<1>2. CASE a \notin CorruptAnswers
  <2> DEFINE g == Grade(a)
             n == Len(correct_map_history)
             s == Len(score_history)
             points == score_from_lcp(g)
  <2>1. /\ g \in CorrectMaps /\ points \in Scores /\ g.of = a
        /\ correct_map_history \in Seq(CorrectMaps) /\ score_history \in Seq(Scores)
        /\ student_answers_history \in Seq(Answers) /\ graded \in Seq(Answers)
    BY GradeType, MapScoreType DEF TypeOK, Grade
  <2>2. /\ correct_map_history' = Append(correct_map_history, g) /\ correct_map' = g /\ done'
        /\ score_history' = Append(score_history, points)
        /\ graded' = Append(graded, a)
        /\ student_answers_history' = Append(student_answers_history, a)
    BY <1>2 DEF SubmitGraded, RecordSubmission
  <2> HIDE DEF g, points
  <2>3. /\ n \in Nat /\ s \in Nat
        /\ Len(correct_map_history') = n + 1 /\ Len(score_history') = s + 1
        /\ Len(student_answers_history') = Len(student_answers_history) + 1
        /\ correct_map_history'[n + 1] = g /\ score_history'[s + 1] = points
        /\ \A i \in 1 .. n : correct_map_history'[i] = correct_map_history[i]
        /\ \A i \in 1 .. s : score_history'[i] = score_history[i]
    BY <2>1, <2>2, AppendProperties, LenProperties
  <2>4. HistoriesAgree'
    <3>1. s - n >= 0
      BY <2>3, EmptySeq DEF StoryInv, HistoriesAgree
    <3>2. ASSUME NEW i \in 1 .. n + 1
          PROVE  score_history'[s - n + i] = score_from_lcp(correct_map_history'[i])
      <4>1. CASE i = n + 1
        BY <2>3, <4>1 DEF points
      <4>2. CASE i \in 1 .. n
        <5>1. n > 0 /\ s - n + i \in 1 .. s
          BY <2>3, <3>1, <4>2
        <5>2. \A j \in 1 .. n : score_history[s - n + j] = score_from_lcp(correct_map_history[j])
          BY <5>1 DEF StoryInv, HistoriesAgree
        <5> QED
          BY <2>3, <4>2, <5>1, <5>2
      <4> QED
        BY <2>3, <4>1, <4>2
    <3> QED
      <4>1. Len(score_history') - Len(correct_map_history') = s - n /\ s - n \in Int
        BY <2>3
      <4> QED
        BY <2>2, <2>3, <3>1, <3>2, <4>1 DEF HistoriesAgree
  <2>5. MapsAreOfGraded'
    <3> SUFFICES ASSUME n = Len(student_answers_history)
                 PROVE  \A i \in 1 .. n + 1 : correct_map_history'[i].of = graded'[i]
      BY <2>3, LenProperties DEF MapsAreOfGraded, TypeOK
    <3>1. Len(graded) = n
      BY DEF HistoryInv, AlignedWhenSameLength
    <3>2. graded'[n + 1] = a /\ \A i \in 1 .. n : graded'[i] = graded[i]
      BY <2>1, <2>2, <3>1, AppendProperties
    <3>3. \A i \in 1 .. n : correct_map_history[i].of = graded[i]
      BY DEF StoryInv, MapsAreOfGraded
    <3> QED
      BY <2>1, <2>3, <3>2, <3>3
  <2> QED
    BY <2>4, <2>5 DEF StoryInv
<1> QED
  BY <1>1, <1>2

LEMMA RescoreStory ==
    ASSUME TypeOK, HistoryInv, StoryInv, NEW b \in BOOLEAN, Rescore(b)
    PROVE  StoryInv'
<1> DEFINE n == Len(correct_map_history)
           scores == [i \in PairedAttempts |-> score_from_lcp(correct_map_history'[i])]
<1>1. /\ n \in Nat /\ PairedAttempts = 1 .. n /\ Len(correct_map_history') = n
      /\ correct_map_history' \in Seq(CorrectMaps)
  BY RescoreLength, RescoreHistoryType, LenProperties DEF TypeOK
<1>2. CASE n = 0
  BY <1>1, <1>2 DEF StoryInv, HistoriesAgree, MapsAreOfGraded
<1>3. CASE n > 0
  <2>1. scores \in Seq(Scores) /\ Len(scores) = n
    <3>1. scores \in [1 .. n -> Scores]
      BY <1>1, MapScoreType, ElementOfSeq
    <3> QED
      BY <1>1, <3>1, IsASeq
  <2>2. score_history' = SeededHistory(score, scores)
    BY DEF Rescore
  <2>3. score_history' = scores
    BY <1>3, <2>1, <2>2, EmptySeq DEF SeededHistory
  <2>4. correct_map' = correct_map_history'[n] /\ done' = done
    BY <1>1, <1>3, EmptySeq DEF Rescore
  <2>5. \A i \in 1 .. n : score_history'[i] = score_from_lcp(correct_map_history'[i])
    BY <1>1, <2>3
  <2>6. Len(score_history') = n
    BY <2>1, <2>3
  <2> HIDE DEF scores
  <2>7. HistoriesAgree'
    <3>1. done
      BY <1>3 DEF StoryInv, HistoriesAgree
    <3>2. \A i \in 1 .. n : score_history'[0 + i] = score_from_lcp(correct_map_history'[i])
      BY <2>5
    <3> QED
      BY <1>1, <2>4, <2>6, <3>1, <3>2 DEF HistoriesAgree
  <2>8. MapsAreOfGraded'
    <3> SUFFICES ASSUME n = Len(student_answers_history)
                 PROVE  \A i \in 1 .. n : correct_map_history'[i].of = graded[i]
      BY <1>1 DEF MapsAreOfGraded, Rescore
    <3>1. student_answers_history = graded
      BY DEF HistoryInv, AlignedWhenSameLength
    <3>2. correct_map_history' = [i \in 1 .. n |-> Grade(graded[i])]
      BY <1>1, <3>1 DEF Rescore
    <3> QED
      BY <3>2 DEF Grade
  <2> QED
    BY <2>7, <2>8 DEF StoryInv
<1> QED
  BY <1>1, <1>2, <1>3

LEMMA InitStory == Init => StoryInv
BY EmptySeq DEF Init, StoryInv, HistoriesAgree, MapsAreOfGraded

LEMMA NextStory == TypeOK /\ HistoryInv /\ StoryInv /\ [Next]_vars => StoryInv'
<1> SUFFICES ASSUME TypeOK, HistoryInv, StoryInv, [Next]_vars
             PROVE  StoryInv'
  OBVIOUS
<1> USE DEF StoryInv, HistoriesAgree, MapsAreOfGraded, score_from_lcp
<1>0. Len(correct_map_history) \in Nat /\ Len(student_answers_history) \in Nat
  BY LenProperties DEF TypeOK
<1>1. ASSUME NEW a \in Answers, SubmitTooSoon(a)
      PROVE  StoryInv'
  <2>1. Len(student_answers_history') = Len(student_answers_history) + 1
        /\ Len(correct_map_history) <= Len(student_answers_history)
    BY <1>1, RecordedHistory DEF SubmitTooSoon, HistoryInv, AlignedWhenSameLength
  <2> QED
    BY <1>0, <1>1, <2>1 DEF SubmitTooSoon, lcpState
<1>2. ASSUME NEW a \in Answers, SubmitMalformed(a)
      PROVE  StoryInv'
  <2>1. Len(student_answers_history') = Len(student_answers_history) + 1
        /\ Len(correct_map_history) <= Len(student_answers_history)
    BY <1>2, RecordedHistory DEF SubmitMalformed, HistoryInv, AlignedWhenSameLength
  <2> QED
    BY <1>0, <1>2, <2>1 DEF SubmitMalformed
<1>3. ASSUME NEW a \in Answers, SubmitGraded(a)
      PROVE  StoryInv'
  BY <1>3, SubmitGradedStory
<1>4. ASSUME NEW a \in Answers, Save(a)
      PROVE  StoryInv'
  <2>1. CASE a \in CorruptAnswers
    BY <1>4, <2>1, FreshStory DEF Save
  <2>2. CASE a \notin CorruptAnswers
    BY <1>4, <2>2 DEF Save
  <2> QED
    BY <2>1, <2>2
<1>5. CASE Reset
  BY <1>5, FreshStory DEF Reset
<1>6. CASE View
  BY <1>6, FreshStory DEF View
<1>7. ASSUME NEW b \in BOOLEAN, Rescore(b)
      PROVE  StoryInv'
  BY <1>7, RescoreStory
<1>8. CASE WaitEnds \/ DueDateChange \/ Publish
  BY <1>8 DEF WaitEnds, DueDateChange, Publish, block, lcpState
<1>9. CASE UNCHANGED vars
  BY <1>9 DEF vars, lcpState
<1> QED
  BY <1>1, <1>2, <1>3, <1>4, <1>5, <1>6, <1>7, <1>8, <1>9 DEF Next

LEMMA StoryInvariant == Spec => [](TypeOK /\ HistoryInv /\ GradedInv /\ StoryInv)
BY GradedInvariant, InitStory, NextStory, PTL DEF Spec

(***************************************************************************)
(* The map on display is the last of the map history, and the newest       *)
(* scores are the points of those maps.                                    *)
(***************************************************************************)
THEOREM HistoriesAlwaysAgree == Spec => []HistoriesAgree
<1>1. StoryInv => HistoriesAgree
  BY DEF StoryInv
<1> QED
  BY <1>1, StoryInvariant, PTL

(***************************************************************************)
(* A rescore of equally long histories grades the attempts again, in order. *)
(***************************************************************************)
THEOREM RescoreIsOfTheAttempts == Spec => RescoreGradesTheAttempts
<1>1. ASSUME TypeOK, HistoryInv, NEW b, Rescore(b), graded # << >>,
             Len(correct_map_history) = Len(student_answers_history)
      PROVE  score_history' = [i \in DOMAIN graded |-> 100 * Points(key, seed, graded[i])]
  <2> DEFINE scores == [i \in PairedAttempts |-> score_from_lcp(correct_map_history'[i])]
  <2>1. student_answers_history = graded /\ graded \in Seq(Answers)
    BY <1>1 DEF HistoryInv, AlignedWhenSameLength, TypeOK
  <2>2. PairedAttempts = DOMAIN graded
    BY <1>1, <2>1, LenProperties DEF PairedAttempts
  <2>3. correct_map_history' = [i \in DOMAIN graded |-> Grade(graded[i])]
    BY <1>1, <2>1, <2>2 DEF Rescore
  <2>4. scores = [i \in DOMAIN graded |-> 100 * Points(key, seed, graded[i])]
    BY <2>2, <2>3 DEF score_from_lcp, Grade
  <2>5. score_history' = SeededHistory(score, scores)
    BY <1>1 DEF Rescore
  <2>6. scores # << >>
    <3>1. DOMAIN scores = DOMAIN graded /\ DOMAIN graded # {}
      BY <1>1, <2>1, <2>2, EmptySeq, LenProperties
    <3> QED
      BY <3>1
  <2> QED
    BY <2>4, <2>5, <2>6 DEF SeededHistory
<1>2. TypeOK /\ HistoryInv /\ [Next]_vars =>
        [\A only_if_higher \in BOOLEAN :
             /\ Rescore(only_if_higher)
             /\ graded # << >>
             /\ Len(correct_map_history) = Len(student_answers_history)
             => score_history' = [i \in DOMAIN graded |-> 100 * Points(key, seed, graded[i])]]_vars
  BY <1>1
<1> QED
  BY <1>2, HistoryInvariant, PTL DEF Spec, RescoreGradesTheAttempts

(***************************************************************************)
(* Only a rescore of histories of unequal length puts a grade beside other *)
(* answers than the ones it is of.                                         *)
(***************************************************************************)
THEOREM OnlySkewedRescoreEverMislabels == Spec => OnlySkewedRescoreMislabels
<1>1. ASSUME TypeOK, HistoryInv, StoryInv, [Next]_vars, DisplayAgrees, ~DisplayAgrees'
      PROVE  /\ Len(correct_map_history) < Len(student_answers_history)
             /\ \E only_if_higher \in BOOLEAN : Rescore(only_if_higher)
  <2> USE DEF DisplayAgrees
  <2>1. ASSUME NEW a \in Answers
        PROVE  ~SubmitTooSoon(a) /\ ~SubmitMalformed(a) /\ ~SubmitGraded(a) /\ ~Save(a)
    <3>1. ~SubmitTooSoon(a)
      BY <1>1 DEF SubmitTooSoon, lcpState
    <3>2. ~SubmitMalformed(a)
      BY <1>1 DEF SubmitMalformed
    <3>3. ~SubmitGraded(a)
      <4>1. CASE a \in CorruptAnswers
        BY <1>1, <4>1, FreshGraded DEF SubmitGraded
      <4>2. ASSUME a \notin CorruptAnswers, SubmitGraded(a)
            PROVE  correct_map'.of = student_answers'
        <5>1. correct_map' = Grade(a) /\ student_answers' = a
          BY <4>2 DEF SubmitGraded
        <5> QED
          BY <5>1 DEF Grade
      <4> QED
        BY <1>1, <4>1, <4>2
    <3>4. ~Save(a)
      BY <1>1 DEF Save, FreshProblem
    <3> QED
      BY <3>1, <3>2, <3>3, <3>4
  <2>2. ~Reset /\ ~View
    BY <1>1 DEF Reset, View, FreshProblem
  <2>3. ~WaitEnds /\ ~DueDateChange /\ ~Publish /\ ~UNCHANGED vars
    BY <1>1 DEF WaitEnds, DueDateChange, Publish, block, lcpState, vars
  <2>4. PICK b \in BOOLEAN : Rescore(b)
    BY <1>1, <2>1, <2>2, <2>3 DEF Next
  <2> DEFINE n == Len(correct_map_history)
  <2>5. n \in Nat /\ n <= Len(student_answers_history) /\ Len(student_answers_history) \in Nat
    BY <1>1, LenProperties DEF TypeOK, HistoryInv, AlignedWhenSameLength
  <2>6. ASSUME n = Len(student_answers_history)
        PROVE  correct_map'.of = correct_map.of
    <3>1. /\ Len(correct_map_history') = n /\ correct_map_history' \in Seq(CorrectMaps)
          /\ \A i \in 1 .. n : correct_map_history'[i] = Grade(student_answers_history[i])
      BY <1>1, <2>4, RescoreLength, RescoreHistoryType DEF Rescore
    <3>2. CASE n = 0
      BY <2>4, <3>1, <3>2, EmptySeq DEF Rescore
    <3>3. CASE n > 0
      <4>1. correct_map.of = graded[n]
        BY <1>1, <2>5, <2>6, <3>3 DEF StoryInv, HistoriesAgree, MapsAreOfGraded
      <4>2. correct_map' = Grade(student_answers_history[n])
        BY <2>4, <2>5, <3>1, <3>3, EmptySeq DEF Rescore
      <4>3. student_answers_history = graded
        BY <1>1, <2>6 DEF HistoryInv, AlignedWhenSameLength
      <4> QED
        BY <4>1, <4>2, <4>3 DEF Grade
    <3> QED
      BY <2>5, <3>2, <3>3
  <2>7. n # Len(student_answers_history)
    BY <1>1, <2>4, <2>6 DEF Rescore
  <2> QED
    BY <2>4, <2>5, <2>7
<1>2. TypeOK /\ HistoryInv /\ StoryInv /\ [Next]_vars =>
        [DisplayAgrees /\ ~DisplayAgrees'
         => /\ Len(correct_map_history) < Len(student_answers_history)
            /\ \E only_if_higher \in BOOLEAN : Rescore(only_if_higher)]_vars
  BY <1>1
<1> QED
  BY <1>2, StoryInvariant, PTL DEF Spec, OnlySkewedRescoreMislabels

(***************************************************************************)
(* Once it is closed, only the staff's rescore moves a grade.              *)
(***************************************************************************)
THEOREM ClosedIsAlwaysFinal == Spec => ClosedIsFinal
<1>1. ASSUME Next, closed, student_answers \notin CorruptAnswers, MaxAttempts # 0,
             ~\E only_if_higher \in BOOLEAN : Rescore(only_if_higher)
      PROVE  UNCHANGED <<attempts, done, correct_map, correct_map_history,
                         score_history, gradebook, graded>>
  <2>1. ASSUME NEW a \in Answers
        PROVE  ~RecordSubmission(a) /\ ~Save(a)
    BY <1>1 DEF RecordSubmission, Save
  <2>2. CASE WaitEnds \/ DueDateChange \/ Publish
    BY <2>2 DEF WaitEnds, DueDateChange, Publish, block, lcpState
  <2> QED
    BY <1>1, <2>1, <2>2 DEF Next, SubmitTooSoon, SubmitMalformed, SubmitGraded, Reset, View
<1>2. [Next]_vars =>
        [closed /\ student_answers \notin CorruptAnswers
         => \/ UNCHANGED <<attempts, done, correct_map, correct_map_history,
                           score_history, gradebook, graded>>
            \/ MaxAttempts = 0
            \/ \E only_if_higher \in BOOLEAN : Rescore(only_if_higher)]_vars
  BY <1>1
<1> QED
  BY <1>2, PTL DEF Spec, ClosedIsFinal
--------------------------------------------------------------------------------
(***************************************************************************)
(* With the last score counting, only a rescore leaves the block's score   *)
(* behind the map on display.                                              *)
(***************************************************************************)
THEOREM ScoreAlwaysFollowsMap == Spec => ScoreFollowsMap
<1>1. ASSUME TypeOK, Next, GradingMethod = "last_score", correct_map' # correct_map,
             ~\E only_if_higher \in BOOLEAN : Rescore(only_if_higher)
      PROVE  score' = score_from_lcp(correct_map')
  <2>1. ASSUME FreshProblem
        PROVE  score' = score_from_lcp(correct_map')
    BY <2>1, NoMapType DEF FreshProblem
  <2>2. ASSUME NEW a \in Answers, SubmitGraded(a), a \notin CorruptAnswers
        PROVE  score' = score_from_lcp(correct_map')
    <3> DEFINE points == score_from_lcp(Grade(a))
    <3>1. score_history \in Seq(Scores) /\ points \in Scores
      BY <1>1, GradeType, MapScoreType DEF TypeOK
    <3>2. score_history' = Append(score_history, points) /\ correct_map' = Grade(a)
          /\ score' = get_score(GradingMethod, score_history')
      BY <2>2 DEF SubmitGraded
    <3> HIDE DEF points
    <3>3. score_history'[Len(score_history')] = points
      BY <3>1, <3>2, AppendProperties
    <3> QED
      BY <1>1, <3>2, <3>3 DEF get_score, handle_last_score, points
  <2>3. ASSUME NEW a \in Answers, SubmitTooSoon(a) \/ SubmitMalformed(a) \/ SubmitGraded(a) \/ Save(a)
        PROVE  score' = score_from_lcp(correct_map')
    BY <1>1, <2>1, <2>2, <2>3 DEF SubmitTooSoon, SubmitMalformed, SubmitGraded, Save, lcpState
  <2>4. CASE Reset \/ View
    BY <2>1, <2>4 DEF Reset, View
  <2>5. CASE WaitEnds \/ DueDateChange \/ Publish
    BY <1>1, <2>5 DEF WaitEnds, DueDateChange, Publish, block, lcpState
  <2> QED
    BY <1>1, <2>3, <2>4, <2>5 DEF Next
<1>2. TypeOK /\ [Next]_vars =>
        [GradingMethod = "last_score" /\ correct_map' # correct_map
         => \/ score' = score_from_lcp(correct_map')
            \/ \E only_if_higher \in BOOLEAN : Rescore(only_if_higher)]_vars
  BY <1>1
<1> QED
  BY <1>2, TypeCorrect, PTL DEF Spec, ScoreFollowsMap
--------------------------------------------------------------------------------
(***************************************************************************)
(* Whoever is shown the answer under a rule that waits for the end cannot  *)
(* submit it, or has full points already.                                  *)
(***************************************************************************)
THEOREM AnswerAlwaysWaits == Spec => []AnswerWaitsForTheEnd
<1>1. TypeOK => AnswerWaitsForTheEnd
  BY DEF AnswerWaitsForTheEnd, answer_available, correctness_available, ShownBy,
         should_enable_submit_button, closed, is_correct
<1> QED
  BY <1>1, TypeCorrect, PTL

(***************************************************************************)
(* Attempts are never taken back, and so an answer shown for their number  *)
(* stays.                                                                  *)
(***************************************************************************)
LEMMA AttemptsStay == TypeOK /\ [Next]_vars => attempts' >= attempts /\ attempts' \in Nat
<1> SUFFICES ASSUME TypeOK, [Next]_vars
             PROVE  attempts' = attempts \/ attempts' = attempts + 1
  BY DEF TypeOK
<1>1. ASSUME NEW a \in Answers, SubmitTooSoon(a) \/ SubmitMalformed(a) \/ SubmitGraded(a) \/ Save(a)
      PROVE  attempts' = attempts \/ attempts' = attempts + 1
  BY <1>1 DEF SubmitTooSoon, SubmitMalformed, SubmitGraded, Save
<1>2. CASE Reset \/ View \/ \E b \in BOOLEAN : Rescore(b)
  BY <1>2 DEF Reset, View, Rescore
<1>3. CASE WaitEnds \/ DueDateChange \/ Publish \/ UNCHANGED vars
  BY <1>3 DEF WaitEnds, DueDateChange, Publish, block, vars
<1> QED
  BY <1>1, <1>2, <1>3 DEF Next

(***************************************************************************)
(* An answer that is shown for the number of attempts stays shown.         *)
(***************************************************************************)
THEOREM AnswerAlwaysStays == Spec => AnswerStaysVisible
<1>1. ASSUME TypeOK, [Next]_vars, NEW n \in Required,
             NEW m \in {"attempted_no_past_due", "after_attempts", "after_all_attempts"},
             answer_available(m, n, "always", FALSE)
      PROVE  answer_available(m, n, "always", FALSE)'
  <2>1. attempts' >= attempts /\ attempts \in Nat /\ attempts' \in Nat
    BY <1>1, AttemptsStay DEF TypeOK
  <2>2. required_attempts(n) \in Nat
    BY DEF required_attempts, Required
  <2>3. CASE m = "attempted_no_past_due"
    BY <1>1, <2>1, <2>3 DEF answer_available, correctness_available, ShownBy, is_attempted
  <2>4. CASE m = "after_attempts"
    BY <1>1, <2>1, <2>2, <2>4
       DEF answer_available, correctness_available, ShownBy, required_attempts
  <2>5. CASE m = "after_all_attempts"
    BY <1>1, <2>1, <2>5 DEF answer_available, correctness_available, ShownBy, used_all_attempts
  <2> QED
    BY <1>1, <2>3, <2>4, <2>5
<1>2. TypeOK /\ [Next]_vars =>
        [\A m \in {"attempted_no_past_due", "after_attempts", "after_all_attempts"},
            n \in Required :
             answer_available(m, n, "always", FALSE)
             => answer_available(m, n, "always", FALSE)']_vars
  BY <1>1
<1> QED
  BY <1>2, TypeCorrect, PTL DEF Spec, AnswerStaysVisible
--------------------------------------------------------------------------------
(***************************************************************************)
(* An offered button is accepted, but for the two settings that offer a    *)
(* refused one: where no attempt is allowed, nothing is ever done that     *)
(* could be reset.                                                         *)
(***************************************************************************)
THEOREM OfferedIsAlwaysAccepted == Spec => []OfferedIsAccepted
<1>1. TypeOK /\ HistoryInv => OfferedIsAccepted
  <2> SUFFICES ASSUME TypeOK, HistoryInv,
                      NEW force_save_button \in BOOLEAN, NEW show_reset_button \in BOOLEAN
               PROVE  /\ should_show_save_button(force_save_button)
                         => SaveAccepted \/ (force_save_button /\ NeedsReset)
                      /\ should_show_reset_button(show_reset_button)
                         => ResetAccepted \/ (show_reset_button /\ ~done)
    BY DEF OfferedIsAccepted
  <2>1. MaxAttempts = 0 => ~done
    BY DEF TypeOK, HistoryInv, AttemptsAccounted
  <2>2. should_show_save_button(force_save_button)
        => SaveAccepted \/ (force_save_button /\ NeedsReset)
    BY DEF should_show_save_button, SaveAccepted, is_survey_question
  <2>3. should_show_reset_button(show_reset_button)
        => ResetAccepted \/ (show_reset_button /\ ~done)
    BY <2>1 DEF should_show_reset_button, ResetAccepted, is_survey_question
  <2> QED
    BY <2>2, <2>3
<1> QED
  BY <1>1, HistoryInvariant, PTL

(***************************************************************************)
(* What is not done has no score: nothing but a graded attempt writes one, *)
(* since a map that grades nothing is worth nothing.                       *)
(***************************************************************************)
ScoreIsEarned == score # 0 => done

LEMMA InitEarned == Init => ScoreIsEarned
BY DEF Init, NewLearner, LearnerWithoutHistory, ScoreIsEarned

LEMMA NextEarned == TypeOK /\ GradedInv /\ ScoreIsEarned /\ [Next]_vars => ScoreIsEarned'
<1> SUFFICES ASSUME TypeOK, GradedInv, ScoreIsEarned, [Next]_vars
             PROVE  ScoreIsEarned'
  OBVIOUS
<1>1. ASSUME FreshProblem
      PROVE  ScoreIsEarned'
  BY <1>1 DEF FreshProblem, ScoreIsEarned
<1>2. score_from_lcp(correct_map) # 0 => done
  BY DEF GradedInv, DoneMeansGraded
<1>3. ASSUME NEW a \in Answers, SubmitTooSoon(a) \/ SubmitMalformed(a)
      PROVE  ScoreIsEarned'
  BY <1>2, <1>3 DEF SubmitTooSoon, SubmitMalformed, lcpState, ScoreIsEarned
<1>4. ASSUME NEW a \in Answers, SubmitGraded(a)
      PROVE  ScoreIsEarned'
  BY <1>1, <1>4 DEF SubmitGraded, ScoreIsEarned
<1>5. ASSUME NEW a \in Answers, Save(a)
      PROVE  ScoreIsEarned'
  BY <1>1, <1>2, <1>5 DEF Save, ScoreIsEarned
<1>6. CASE Reset \/ View
  BY <1>1, <1>6 DEF Reset, View
<1>7. ASSUME NEW b \in BOOLEAN, Rescore(b)
      PROVE  ScoreIsEarned'
  BY <1>7 DEF Rescore, ScoreIsEarned
<1>8. CASE WaitEnds \/ DueDateChange \/ Publish \/ UNCHANGED vars
  BY <1>8 DEF WaitEnds, DueDateChange, Publish, block, lcpState, vars, ScoreIsEarned
<1> QED
  BY <1>3, <1>4, <1>5, <1>6, <1>7, <1>8 DEF Next

(***************************************************************************)
(* Full points are of an attempt that is on display.                       *)
(***************************************************************************)
THEOREM CorrectIsAlwaysEarned == Spec => []CorrectIsEarned
<1>1. TypeOK /\ HistoryInv /\ ScoreIsEarned => CorrectIsEarned
  BY PointsAssumption DEF TypeOK, HistoryInv, ScoreIsEarned, CorrectIsEarned, is_correct, is_attempted
<1> QED
  BY <1>1, InitEarned, NextEarned, GradedInvariant, PTL DEF Spec

(***************************************************************************)
(* The score falls only with an attempt, a fresh problem, or a write of    *)
(* the points of another map: a rescore does not write it.                 *)
(***************************************************************************)
LEMMA ScoreFallsForCause ==
    ASSUME TypeOK, ScoreIsEarned, [Next]_vars, score' < score
    PROVE  ScoreFalls
<1>1. /\ score \in Nat /\ score' \in Nat /\ attempts \in Nat
      /\ done /\ score' # score
  BY NextType, PointsAssumption DEF TypeOK, Scores, ScoreIsEarned
<1>2. ASSUME NEW a \in Answers, SubmitTooSoon(a) \/ SubmitMalformed(a)
      PROVE  ScoreFalls
  <2>1. ~SubmitTooSoon(a)
    BY <1>1 DEF SubmitTooSoon
  <2>2. score' = score_from_lcp(correct_map)
    BY <1>2, <2>1 DEF SubmitMalformed
  <2> QED
    BY <1>1, <2>2 DEF ScoreFalls
<1>3. ASSUME NEW a \in Answers, SubmitGraded(a)
      PROVE  ScoreFalls
  BY <1>1, <1>3 DEF SubmitGraded, ScoreFalls
<1>4. ASSUME NEW a \in Answers, Save(a)
      PROVE  ScoreFalls
  <2>1. CASE a \in CorruptAnswers
    BY <1>1, <1>4, <2>1 DEF Save, FreshProblem, ScoreFalls
  <2>2. CASE a \notin CorruptAnswers
    <3>1. score' = score_from_lcp(correct_map)
      BY <1>4, <2>2 DEF Save
    <3> QED
      BY <1>1, <3>1 DEF ScoreFalls
  <2> QED
    BY <2>1, <2>2
<1>5. CASE Reset \/ View
  BY <1>1, <1>5 DEF Reset, View, FreshProblem, ScoreFalls
<1>6. ASSUME NEW b \in BOOLEAN
      PROVE  ~Rescore(b)
  BY <1>1 DEF Rescore
<1>7. ~(WaitEnds \/ DueDateChange \/ Publish \/ UNCHANGED vars)
  BY <1>1 DEF WaitEnds, DueDateChange, Publish, block, vars
<1> QED
  BY <1>2, <1>3, <1>4, <1>5, <1>6, <1>7 DEF Next

(***************************************************************************)
(* An answer that was shown is taken back only when the due date is moved  *)
(* or when the score falls, and falls for one of its three causes.         *)
(***************************************************************************)
THEOREM AnswerAlwaysTakenBackForCause == Spec => AnswerTakenBackForCause
<1>1. ASSUME TypeOK, ScoreIsEarned, [Next]_vars,
             NEW r \in Rules, NEW c \in ShowCorrectnessModes,
             answer_available(r[1], r[2], c, FALSE), ~answer_available(r[1], r[2], c, FALSE)',
             ~(pastDue /\ ~pastDue')
      PROVE  r[1] \in RulesForTheCorrect /\ ScoreFalls
  <2>1. /\ attempts' >= attempts /\ attempts \in Nat /\ attempts' \in Nat
        /\ score \in Scores /\ score' \in Scores
        /\ pastDue \in BOOLEAN /\ pastDue' \in BOOLEAN
    BY <1>1, AttemptsStay, NextType DEF TypeOK
  <2>2. r[1] \in ShowAnswerModes /\ required_attempts(r[2]) \in Nat
    <3>1. r[1] \in ShowAnswerModes /\ r[2] \in {0} \cup Required
      BY DEF Rules, ShowAnswerModes
    <3> QED
      BY <3>1 DEF required_attempts, Required
  <2>3. pastDue => pastDue'
    BY <1>1, <2>1
  <2>4. used_all_attempts => used_all_attempts'
    BY <2>1 DEF used_all_attempts
  <2>5. correctness_available(c, FALSE) => correctness_available(c, FALSE)'
    BY <2>3 DEF correctness_available
  <2>6. /\ ShownBy(r[1], r[2]) /\ ~ShownBy(r[1], r[2])'
        /\ r[1] \notin {"", "never"}
    BY <1>1, <2>5 DEF answer_available
  <2>7. closed => closed'
    BY <2>3, <2>4 DEF closed
  <2>8. r[1] \in RulesForTheCorrect /\ is_correct /\ ~is_correct'
    <3>1. CASE r[1] \in {"attempted", "attempted_no_past_due"}
      <4>1. is_attempted => is_attempted'
        BY <2>1 DEF is_attempted
      <4> QED
        BY <2>3, <2>6, <3>1, <4>1 DEF ShownBy
    <3>2. CASE r[1] = "after_attempts"
      BY <2>1, <2>2, <2>6, <3>2 DEF ShownBy, required_attempts
    <3>3. CASE r[1] \in {"closed", "past_due", "always", "after_all_attempts"}
      BY <2>3, <2>4, <2>6, <2>7, <3>3 DEF ShownBy
    <3>4. CASE r[1] \in RulesForTheCorrect
      BY <2>3, <2>4, <2>6, <2>7, <3>4 DEF ShownBy, RulesForTheCorrect
    <3> QED
      BY <2>2, <2>6, <3>1, <3>2, <3>3, <3>4 DEF ShowAnswerModes, RulesForTheCorrect
  <2>9. score' < score
    BY <2>1, <2>8, PointsAssumption DEF is_correct, Scores
  <2> QED
    BY <1>1, <2>8, <2>9, ScoreFallsForCause
<1>2. TypeOK /\ ScoreIsEarned /\ [Next]_vars =>
        [\A r \in Rules, c \in ShowCorrectnessModes :
             answer_available(r[1], r[2], c, FALSE) /\ ~answer_available(r[1], r[2], c, FALSE)'
             => \/ pastDue /\ ~pastDue'
                \/ r[1] \in RulesForTheCorrect /\ ScoreFalls]_vars
  BY <1>1
<1> QED
  BY <1>2, InitEarned, NextEarned, GradedInvariant, PTL DEF Spec, AnswerTakenBackForCause
================================================================================
