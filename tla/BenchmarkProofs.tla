-------------------------- MODULE BenchmarkProofs --------------------------
(***************************************************************************)
(* Proofs about the two procedures at the ends of an experiment, for every *)
(* value of their constants.                                               *)
(*                                                                         *)
(* FitText: that doubling and halving step over no fitting length rests on *)
(* what the two bounds enclose: everything up to low is too short,         *)
(* everything from high on is too long.                                    *)
(*                                                                         *)
(* Evaluation: that assign finds an assignment whenever there is one rests *)
(* on what a failed try leaves behind: the calls it visited belong to      *)
(* patterns that fit no other calls, and there is one pattern more.        *)
(***************************************************************************)
EXTENDS FitText, Evaluation, SetLemmas

-----------------------------------------------------------------------------
(* FitText *)

\* How far the search is.
Phases == {"start", "grow", "bisect", "fits", "refused"}

\* The smaller and the larger of two numbers.
LEMMA MinOfTwo ==
  \A a, b \in Nat : Min({a, b}) = IF a <= b THEN a ELSE b
<1> SUFFICES ASSUME NEW a \in Nat, NEW b \in Nat
             PROVE  Min({a, b}) = IF a <= b THEN a ELSE b
  OBVIOUS
<1> DEFINE least == IF a <= b THEN a ELSE b
<1>1. least \in {a, b} /\ \A y \in {a, b} : least <= y
  OBVIOUS
<1>2. \A x \in {a, b} : (\A y \in {a, b} : x <= y) => x = least
  OBVIOUS
<1>3. Min({a, b}) \in {a, b} /\ \A y \in {a, b} : Min({a, b}) <= y
  <2> HIDE DEF least
  <2> QED BY <1>1 DEF Min
<1> QED BY <1>2, <1>3

\* The larger of two numbers.
LEMMA MaxOfTwo ==
  \A a, b \in Nat : Max({a, b}) = IF a >= b THEN a ELSE b
<1> SUFFICES ASSUME NEW a \in Nat, NEW b \in Nat
             PROVE  Max({a, b}) = IF a >= b THEN a ELSE b
  OBVIOUS
<1> DEFINE largest == IF a >= b THEN a ELSE b
<1>1. largest \in {a, b} /\ \A y \in {a, b} : largest >= y
  OBVIOUS
<1>2. \A x \in {a, b} : (\A y \in {a, b} : x >= y) => x = largest
  OBVIOUS
<1>3. Max({a, b}) \in {a, b} /\ \A y \in {a, b} : Max({a, b}) >= y
  <2> HIDE DEF largest
  <2> QED BY <1>1 DEF Max
<1> QED BY <1>2, <1>3

-----------------------------------------------------------------------------
(* What a counter tells *)

\* The search has a counter and a target.
Counted == count \in Counter /\ target \in Target

\* A count is a number at every length, and a counter that never falls on its
\* domain never falls at all: it stays where it is beyond the domain.
LEMMA TokensAreCounts ==
  ASSUME Counted
  PROVE  /\ target \in Nat
         /\ \A n \in Nat : Tokens(n) \in Nat
         /\ Monotone => \A m, n \in Nat : m <= n => Tokens(m) <= Tokens(n)
<1> DEFINE last == Max(DOMAIN count)
<1>1. /\ last \in Nat /\ DOMAIN count = 0..last
      /\ \A n \in DOMAIN count : count[n] \in Nat
  BY FitAssumption DEF Counted
<1>2. target \in Nat
  BY FitAssumption DEF Counted
<1>3. \A n \in Nat : Tokens(n) = count[IF n <= last THEN n ELSE last]
  BY <1>1, MinOfTwo DEF Tokens
<1> HIDE DEF last
<1>4. \A n \in Nat : (IF n <= last THEN n ELSE last) \in DOMAIN count
  BY <1>1
<1>5. \A n \in Nat : Tokens(n) \in Nat
  BY <1>1, <1>3, <1>4
<1>6. ASSUME Monotone, NEW m \in Nat, NEW n \in Nat, m <= n
      PROVE  Tokens(m) <= Tokens(n)
  <2> DEFINE at(k) == IF k <= last THEN k ELSE last
  <2>1. at(m) \in DOMAIN count /\ at(n) \in DOMAIN count /\ at(m) <= at(n)
    BY <1>1, <1>4, <1>6
  <2>2. count[at(m)] <= count[at(n)]
    <3> HIDE DEF at
    <3> QED BY <1>6, <2>1 DEF Monotone
  <2> QED BY <1>3, <2>2
<1> QED BY <1>2, <1>5, <1>6

\* Near, with the two sides of the target apart.
LEMMA NearMeans ==
  ASSUME Counted
  PROVE  \A n \in Nat : Near(n) <=> /\ target - Tolerance <= Tokens(n)
                                    /\ Tokens(n) <= target + Tolerance
<1> SUFFICES ASSUME NEW n \in Nat
             PROVE  Near(n) <=> /\ target - Tolerance <= Tokens(n)
                                /\ Tokens(n) <= target + Tolerance
  OBVIOUS
<1>1. target \in Nat /\ Tokens(n) \in Nat /\ Tolerance \in Nat
  BY FitAssumption, TokensAreCounts
<1> QED BY <1>1 DEF Near, Distance

\* Below a length that is too short everything is too short, above one that is
\* too long everything is too long.
LEMMA TooShortBelow ==
  ASSUME Counted, Monotone
  PROVE  \A m, n \in Nat : m <= n /\ Tokens(n) < target /\ ~Near(n) => ~Near(m)
<1> SUFFICES ASSUME NEW m \in Nat, NEW n \in Nat, m <= n, Tokens(n) < target, ~Near(n)
             PROVE  ~Near(m)
  OBVIOUS
<1>1. Tokens(m) <= Tokens(n) /\ Tokens(m) \in Nat /\ Tokens(n) \in Nat /\ target \in Nat
  BY TokensAreCounts
<1>2. Tolerance \in Nat
  BY FitAssumption
<1>3. Tokens(n) < target - Tolerance
  BY <1>1, <1>2, NearMeans
<1> QED BY <1>1, <1>2, <1>3, NearMeans

\* A length with too many tokens has only such lengths above it.
LEMMA TooLongAbove ==
  ASSUME Counted, Monotone
  PROVE  \A m, n \in Nat : m <= n /\ Tokens(m) >= target /\ ~Near(m) => ~Near(n)
<1> SUFFICES ASSUME NEW m \in Nat, NEW n \in Nat, m <= n, Tokens(m) >= target, ~Near(m)
             PROVE  ~Near(n)
  OBVIOUS
<1>1. Tokens(m) <= Tokens(n) /\ Tokens(m) \in Nat /\ Tokens(n) \in Nat /\ target \in Nat
  BY TokensAreCounts
<1>2. Tolerance \in Nat
  BY FitAssumption
<1>3. Tokens(m) > target + Tolerance
  BY <1>1, <1>2, NearMeans
<1> QED BY <1>1, <1>2, <1>3, NearMeans

-----------------------------------------------------------------------------
(* The inductive invariant *)

\* The values of the variables.
FitTyped ==
  /\ phase \in Phases
  /\ Counted
  /\ low \in Nat /\ high \in Nat /\ best \in Nat /\ round \in Nat
  /\ length \in Nat /\ tried \in Nat

\* Too few tokens, and too many.
Short(n) == Tokens(n) < target /\ ~Near(n)

Long(n) == Tokens(n) >= target /\ ~Near(n)

\* While the length is doubled, the one before it is the longest measured and
\* was too short, and so was the bare text.
GrowsFromShort ==
  phase = "grow" =>
    /\ low < high /\ tried = low
    /\ Short(low) /\ Short(0) /\ ~Near(best)

\* While the length is halved in, the bounds lie on the two sides of the target
\* and nothing that fits was measured.
BoundsEnclose ==
  phase = "bisect" =>
    /\ low < high /\ high <= tried
    /\ Short(low) /\ Long(high) /\ ~Near(best)

\* What every step of the search keeps.
FitInv == FitTyped /\ (phase = "start" => tried = 0) /\ GrowsFromShort /\ BoundsEnclose /\ FitIsRight

\* It holds before the first measurement ...
LEMMA FitInitially == FitInit => FitInv
  BY DEF FitInit, FitInv, FitTyped, Phases, Counted, GrowsFromShort, BoundsEnclose, FitIsRight

\* The measures depend on the counter and the target alone, which no step
\* changes.
LEMMA MeasuresStay ==
  ASSUME UNCHANGED <<count, target>>
  PROVE  /\ Counted' <=> Counted
         /\ \A n : (Tokens(n))' = Tokens(n)
         /\ \A n : (Near(n))' <=> Near(n)
         /\ \A n : (Short(n))' <=> Short(n)
         /\ \A n : (Long(n))' <=> Long(n)
         /\ Monotone' <=> Monotone
<1>1. \A n : (Tokens(n))' = Tokens(n)
  BY DEF Tokens
<1>2. \A n : (Near(n))' <=> Near(n)
  BY <1>1 DEF Near, Distance
<1> QED BY <1>1, <1>2 DEF Counted, Short, Long, Monotone

\* What is returned or kept as best after a measurement is the length measured
\* or the one kept before.
LEMMA NearestIsEither == \A n : Nearest(n) \in {n, best}
  BY DEF Nearest

\* ... and after each step.  The first one measures the bare text.
LEMMA StartKeeps == ASSUME FitInv, Start PROVE FitInv'
<1>1. /\ FitTyped /\ tried = 0 /\ tried' \in Nat /\ tried' = 0
      /\ count' = count /\ target' = target
  BY MaxOfTwo DEF FitInv, FitTyped, Start, Measure, Refuse, Return, search
<1>2. CASE Tokens(0) > target + Tolerance /\ Refuse
  <2>1. ~Near(0)
    <3>1. /\ Tokens(0) \in Nat /\ target \in Nat
          /\ Near(0) => Tokens(0) <= target + Tolerance
      BY <1>1, TokensAreCounts, NearMeans DEF FitTyped
    <3>2. Tolerance \in Nat
      BY FitAssumption
    <3> QED BY <1>2, <3>1, <3>2
  <2>2. \A n \in 0..tried' : ~Near(n)
    BY <1>1, <2>1
  <2> QED
    BY <1>1, <1>2, <2>2, MeasuresStay
    DEF FitInv, FitTyped, Phases, Counted, GrowsFromShort, BoundsEnclose, FitIsRight, Refuse, search
<1>3. CASE Near(0) /\ Return(0)
  BY <1>1, <1>3, MeasuresStay
  DEF FitInv, FitTyped, Phases, Counted, GrowsFromShort, BoundsEnclose, FitIsRight, Return, search
<1>4. CASE /\ ~Near(0) /\ Tokens(0) <= target
           /\ low' = 0 /\ high' = Max({1, target - Tokens(0)})
           /\ best' = 0 /\ round' = 0
           /\ phase' = "grow"
           /\ UNCHANGED <<count, target, length>>
  <2>1. /\ Tokens(0) \in Nat /\ target \in Nat /\ Tolerance \in Nat
        /\ Near(0) <=> target - Tolerance <= Tokens(0) /\ Tokens(0) <= target + Tolerance
    BY <1>1, FitAssumption, TokensAreCounts, NearMeans DEF FitTyped
  <2>2. target - Tokens(0) \in Nat /\ Short(0)
    BY <1>4, <2>1 DEF Short
  <2>3. high' \in Nat /\ 0 < high'
    BY <1>4, <2>2, MaxOfTwo
  <2> QED
    BY <1>1, <1>4, <2>2, <2>3, MeasuresStay
    DEF FitInv, FitTyped, Phases, Counted, GrowsFromShort, BoundsEnclose, FitIsRight, Short
<1> QED BY <1>2, <1>3, <1>4 DEF Start

\* Given up, the last length measured was too short: so was every other.
LEMMA GiveUpKeeps == ASSUME FitInv, GiveUp PROVE FitInv'
<1>1. /\ FitTyped /\ tried' = tried /\ count' = count /\ target' = target
      /\ tried = low /\ Short(low) /\ phase' = "refused"
  BY DEF FitInv, GrowsFromShort, GiveUp, Refuse
<1>2. ASSUME Monotone, NEW n \in 0..tried PROVE ~Near(n)
  BY <1>1, <1>2, TooShortBelow DEF Short, FitTyped
<1>3. FitIsRight'
  BY <1>1, <1>2, MeasuresStay DEF FitIsRight
<1> QED
  BY <1>1, <1>3, MeasuresStay
  DEF FitInv, FitTyped, Phases, Counted, GrowsFromShort, BoundsEnclose, GiveUp, Refuse, search

\* A doubled length that is still too short is the new lower bound, one that is too
\* long the upper one.
LEMMA GrowKeeps == ASSUME FitInv, Grow PROVE FitInv'
<1>1. /\ FitTyped /\ phase = "grow" /\ low < high /\ tried = low
      /\ Short(low) /\ Short(0) /\ ~Near(best)
      /\ count' = count /\ target' = target
  BY DEF FitInv, GrowsFromShort, Grow, Refuse, Return, search
<1>2. tried' = high /\ low \in Nat /\ high \in Nat
  BY <1>1, MaxOfTwo DEF FitTyped, Grow, Measure
<1>3. /\ Tokens(high) \in Nat /\ Tokens(0) \in Nat /\ target \in Nat
  BY <1>1, <1>2, TokensAreCounts DEF FitTyped
<1>4. CASE Flat /\ Refuse
  <2>1. ASSUME Monotone, NEW n \in 0..high PROVE ~Near(n)
    <3>1. Tokens(0) <= Tokens(n) /\ Tokens(n) <= Tokens(high) /\ Tokens(n) \in Nat
      BY <1>1, <1>2, <2>1, TokensAreCounts DEF FitTyped
    <3>2. Tokens(n) = Tokens(0)
      BY <1>3, <1>4, <3>1 DEF Flat
    <3> QED BY <1>1, <3>2 DEF Short, Near, Distance
  <2>2. FitIsRight'
    BY <1>1, <1>2, <1>4, <2>1, MeasuresStay DEF FitIsRight, Refuse
  <2> QED
    BY <1>1, <1>2, <1>4, <2>2, MeasuresStay
    DEF FitInv, FitTyped, Phases, Counted, GrowsFromShort, BoundsEnclose, Refuse, search
<1>5. CASE ~Flat /\ Near(high) /\ Return(high)
  BY <1>1, <1>2, <1>5, MeasuresStay
  DEF FitInv, FitTyped, Phases, Counted, GrowsFromShort, BoundsEnclose, FitIsRight, Return, search
<1>6. CASE /\ ~Flat /\ ~Near(high)
           /\ best' = Nearest(high)
           /\ IF Tokens(high) >= target
              THEN phase' = "bisect" /\ UNCHANGED <<low, high, round>>
              ELSE low' = high /\ high' = 2 * high /\ round' = round + 1 /\ UNCHANGED phase
           /\ UNCHANGED <<count, target, length>>
  <2>1. best' \in Nat /\ ~Near(best')
    BY <1>1, <1>2, <1>6, NearestIsEither DEF FitTyped
  <2>2. (Near(best))' <=> Near(best')
    BY <1>1 DEF Near, Distance, Tokens
  <2>3. CASE Tokens(high) >= target
    <3>1. Long(high) /\ low' = low /\ high' = high /\ phase' = "bisect" /\ round' = round
      BY <1>6, <2>3 DEF Long
    <3>2. (Short(low))' /\ (Long(high))'
      BY <1>1, <3>1 DEF Short, Long, Near, Distance, Tokens
    <3> QED
      BY <1>1, <1>2, <1>6, <2>1, <2>2, <3>1, <3>2
      DEF FitInv, FitTyped, Phases, Counted, GrowsFromShort, BoundsEnclose, FitIsRight
  <2>4. CASE ~(Tokens(high) >= target)
    <3>1. /\ Short(high) /\ low' = high /\ high' = 2 * high /\ phase' = "grow"
          /\ round' = round + 1
      BY <1>1, <1>3, <1>6, <2>4 DEF Short
    <3>2. (Short(low))' /\ (Short(0))'
      BY <1>1, <3>1 DEF Short, Near, Distance, Tokens
    <3> QED
      BY <1>1, <1>2, <1>6, <2>1, <2>2, <3>1, <3>2
      DEF FitInv, FitTyped, Phases, Counted, GrowsFromShort, BoundsEnclose, FitIsRight
  <2> QED BY <2>3, <2>4
<1> QED BY <1>4, <1>5, <1>6 DEF Grow

\* The middle takes the place of the bound on its side.
LEMMA BisectKeeps == ASSUME FitInv, Bisect PROVE FitInv'
<1>1. /\ FitTyped /\ phase = "bisect" /\ low < high /\ high <= tried
      /\ Short(low) /\ Long(high) /\ ~Near(best)
      /\ count' = count /\ target' = target
  BY DEF FitInv, BoundsEnclose, Bisect, Return, search
<1>2. /\ low \in Nat /\ high \in Nat /\ Middle \in Nat /\ tried \in Nat
      /\ low < Middle /\ Middle < high
  BY <1>1 DEF FitTyped, Middle, Bisect
<1>3. tried' = tried
  BY <1>1, <1>2, MaxOfTwo DEF Bisect, Measure
<1>4. Tokens(Middle) \in Nat /\ target \in Nat
  BY <1>1, <1>2, TokensAreCounts DEF FitTyped
<1>5. CASE Near(Middle) /\ Return(Middle)
  <2> HIDE DEF Middle
  <2> QED
    BY <1>1, <1>2, <1>3, <1>5, MeasuresStay
    DEF FitInv, FitTyped, Phases, Counted, GrowsFromShort, BoundsEnclose, FitIsRight, Return, search
<1>6. CASE /\ ~Near(Middle)
           /\ best' = Nearest(Middle)
           /\ Narrow
           /\ UNCHANGED <<phase, count, target, round, length>>
  <2>1. best' \in Nat /\ ~Near(best')
    BY <1>1, <1>2, <1>6, NearestIsEither DEF FitTyped
  <2>2. (Near(best))' <=> Near(best')
    BY <1>1 DEF Near, Distance, Tokens
  <2>3. low' \in Nat /\ high' \in Nat /\ low' < high' /\ high' <= tried
    BY <1>1, <1>2, <1>6 DEF Narrow
  <2>4. Short(low') /\ Long(high')
    BY <1>1, <1>2, <1>4, <1>6 DEF Narrow, Short, Long
  <2>5. (Short(low))' /\ (Long(high))'
    BY <1>1, <2>4 DEF Short, Long, Near, Distance, Tokens
  <2> QED
    BY <1>1, <1>3, <1>6, <2>1, <2>2, <2>3, <2>5
    DEF FitInv, FitTyped, Phases, Counted, GrowsFromShort, BoundsEnclose, FitIsRight
<1> QED BY <1>5, <1>6 DEF Bisect

\* Nothing is left between the bounds, and nothing that fits beyond them.
LEMMA SettleKeeps == ASSUME FitInv, Settle PROVE FitInv'
<1>1. /\ FitTyped /\ phase = "bisect" /\ low < high /\ high <= tried /\ high - low <= 1
      /\ Short(low) /\ Long(high) /\ ~Near(best) /\ tried' = tried /\ Refuse
  BY DEF FitInv, BoundsEnclose, Settle
<1>2. ASSUME Monotone, NEW n \in 0..tried PROVE ~Near(n)
  <2>1. n <= low \/ high <= n
    BY <1>1 DEF FitTyped
  <2> QED BY <1>1, <1>2, <2>1, TooShortBelow, TooLongAbove DEF Short, Long, FitTyped
<1>3. FitIsRight'
  BY <1>1, <1>2, MeasuresStay DEF FitIsRight, Refuse
<1> QED
  BY <1>1, <1>3, MeasuresStay
  DEF FitInv, FitTyped, Phases, Counted, GrowsFromShort, BoundsEnclose, Refuse, search

\* Nothing changes, nothing is lost.
LEMMA FitStutterKeeps == ASSUME FitInv, UNCHANGED fitting PROVE FitInv'
<1>1. UNCHANGED <<phase, count, target, low, high, best, round, length, tried>>
  BY DEF fitting, search
<1> QED BY <1>1 DEF FitInv, FitTyped, Counted, GrowsFromShort, BoundsEnclose, FitIsRight,
                    Monotone, Short, Long, Near, Distance, Tokens

\* The search stays in the inductive invariant.
LEMMA FitInvariance == FitSpec => []FitInv
<1>1. FitInit => FitInv
  BY FitInitially
<1>2. FitInv /\ [FitNext]_fitting => FitInv'
  BY StartKeeps, GiveUpKeeps, GrowKeeps, BisectKeeps, SettleKeeps, FitStutterKeeps DEF FitNext
<1> QED BY <1>1, <1>2, PTL DEF FitSpec

-----------------------------------------------------------------------------
(* The theorems about FitText *)

\* _fit_text: a length that is returned is within the tolerance for every
\* counter, and a counter that never falls is refused only if no length up to
\* the longest one measured would have been within it.
THEOREM FitsAreRight == FitSpec => []FitIsRight
<1>1. FitInv => FitIsRight
  BY DEF FitInv
<1> QED BY <1>1, FitInvariance, PTL

\* The last return of _fit_text is never reached: what is nearest when nothing
\* is left between the bounds was measured before, and would have been returned
\* then.  The search that settles always ends in the ValueError.
THEOREM SettlingRefuses == FitSpec => [][Settle => Refuse]_fitting
<1>1. FitInv /\ [FitNext]_fitting => [Settle => Refuse]_fitting
  BY DEF FitInv, BoundsEnclose, Settle
<1> QED BY <1>1, FitInvariance, PTL DEF FitSpec

-----------------------------------------------------------------------------
(* Evaluation: what assign answers *)

\* The calls and the patterns are finite sequences.
Sized(patterns) ==
  /\ Len(calls) \in Nat /\ DOMAIN calls = 1..Len(calls)
  /\ Len(patterns) \in Nat /\ DOMAIN patterns = 1..Len(patterns)

\* What a try answers.
Outcomes(patterns) ==
  [found : BOOLEAN, owner : [DOMAIN calls -> 0..Len(patterns)], visited : SUBSET DOMAIN calls]

\* The calls a try may still look at.
Unvisited(try) == DOMAIN calls \ try.visited

\* What a recursive call of assign has less of: calls not visited, then calls to look at.
Weight(try) == Cardinality(Unvisited(try)) * (Len(calls) + 2) + (Len(calls) + 1 - try.next)

\* Fewer calls not visited outweigh the calls to look at.
LEMMA Lexical ==
  \A l, c, d, r, s \in Nat : d < c /\ r <= l + 1 => d * (l + 2) + r < c * (l + 2) + s
<1> SUFFICES ASSUME NEW l \in Nat, NEW c \in Nat, NEW d \in Nat, NEW r \in Nat, NEW s \in Nat,
                    d < c, r <= l + 1
             PROVE  d * (l + 2) + r < c * (l + 2) + s
  OBVIOUS
<1> DEFINE k == c - d - 1
<1>1. k \in Nat /\ c = d + 1 + k
  OBVIOUS
<1> HIDE DEF k
<1>2. c * (l + 2) = d * (l + 2) + (l + 2) + k * (l + 2)
  BY <1>1
<1>3. k * (l + 2) \in Nat /\ d * (l + 2) \in Nat
  BY <1>1
<1> QED BY <1>2, <1>3

\* The weight of a try is a number.
LEMMA WeightIsNat ==
  ASSUME NEW patterns, Sized(patterns), NEW try \in Tries(patterns)
  PROVE  /\ Cardinality(Unvisited(try)) \in Nat /\ Len(calls) + 1 - try.next \in Nat
         /\ Weight(try) \in Nat
         /\ Weight(try) < (Len(calls) + 1) * (Len(calls) + 2)
<1>1. try.next \in 1..(Len(calls) + 1) /\ Len(calls) \in Nat
  BY DEF Sized, Tries
<1>2. IsFiniteSet(DOMAIN calls) /\ Cardinality(DOMAIN calls) = Len(calls)
  <2>1. \A l \in Nat : IsFiniteSet(1..l) /\ Cardinality(1..l) = l
    BY FS_Interval
  <2> QED BY <1>1, <2>1 DEF Sized
<1>3. /\ IsFiniteSet(Unvisited(try)) /\ Cardinality(Unvisited(try)) \in Nat
      /\ Cardinality(Unvisited(try)) <= Len(calls)
  <2>1. Unvisited(try) \subseteq DOMAIN calls
    BY DEF Unvisited
  <2> QED BY <1>2, <2>1, FS_Subset, FS_CardinalityType
<1> DEFINE c == Cardinality(Unvisited(try))
           l == Len(calls)
           r == Len(calls) + 1 - try.next
<1>4. c \in Nat /\ l \in Nat /\ r \in Nat /\ r <= l + 1 /\ c < l + 1
  BY <1>1, <1>3
<1>5. Weight(try) = c * (l + 2) + r
  BY DEF Weight
<1> HIDE DEF c, l, r
<1>6. c * (l + 2) + r < (l + 1) * (l + 2) + 0 /\ c * (l + 2) \in Nat
  BY <1>4, Lexical
<1>7. Weight(try) \in Nat /\ Weight(try) < (l + 1) * (l + 2)
  <2>1. (l + 1) * (l + 2) \in Nat
    BY <1>4
  <2> QED BY <1>4, <1>5, <1>6, <2>1
<1> QED BY <1>4, <1>7 DEF c, l, r

\* A try that has visited more is lighter, wherever it looks next.
LEMMA VisitingIsLighter ==
  ASSUME NEW patterns, Sized(patterns), NEW try \in Tries(patterns), NEW other \in Tries(patterns),
         NEW n \in Unvisited(try), try.visited \cup {n} \subseteq other.visited
  PROVE  Weight(other) < Weight(try)
<1>1. IsFiniteSet(Unvisited(try))
  <2>1. Unvisited(try) \subseteq DOMAIN calls /\ IsFiniteSet(DOMAIN calls)
    BY FS_Interval DEF Sized, Unvisited
  <2> QED BY <2>1, FS_Subset
<1>2. /\ IsFiniteSet(Unvisited(try) \ {n})
      /\ Cardinality(Unvisited(try) \ {n}) < Cardinality(Unvisited(try))
      /\ Cardinality(Unvisited(try) \ {n}) \in Nat
  BY <1>1, TakeOut
<1>3. Unvisited(other) \subseteq Unvisited(try) \ {n}
  BY DEF Unvisited
<1>4. Cardinality(Unvisited(other)) <= Cardinality(Unvisited(try) \ {n})
  BY <1>2, <1>3, FS_Subset
<1> DEFINE c == Cardinality(Unvisited(try))
           d == Cardinality(Unvisited(other))
           l == Len(calls)
           s == Len(calls) + 1 - try.next
           r == Len(calls) + 1 - other.next
<1>5. c \in Nat /\ d \in Nat /\ r \in Nat /\ s \in Nat
  BY WeightIsNat
<1>6. d < c /\ l \in Nat /\ r <= l + 1
  <2>1. other.next \in 1..(l + 1) /\ l \in Nat
    BY DEF Tries, Sized
  <2>2. r <= l + 1
    BY <2>1
  <2> HIDE DEF r
  <2> QED BY <1>2, <1>4, <1>5, <2>1, <2>2
<1>7. Weight(try) = c * (l + 2) + s /\ Weight(other) = d * (l + 2) + r
  BY DEF Weight
<1> HIDE DEF c, d, l, r, s
<1> QED BY <1>5, <1>6, <1>7, Lexical

\* The three tries that a look can go on with are lighter.
LEMMA SkipIsLighter ==
  ASSUME NEW patterns, Sized(patterns), NEW try \in Tries(patterns), try.next <= Len(calls)
  PROVE  Skip(try) \in Tries(patterns) /\ Weight(Skip(try)) < Weight(try)
<1>1. /\ Len(calls) \in Nat /\ try.next \in 1..Len(calls)
      /\ try.next + 1 \in 1..(Len(calls) + 1)
  BY DEF Sized, Tries
<1>2. Skip(try) \in Tries(patterns) /\ Skip(try).visited = try.visited /\ Skip(try).next = try.next + 1
  BY <1>1 DEF Skip, Tries
<1>3. Unvisited(Skip(try)) = Unvisited(try)
  BY <1>2 DEF Unvisited
<1> DEFINE x == Cardinality(Unvisited(try)) * (Len(calls) + 2)
<1>4. x \in Nat
  <2>1. Cardinality(Unvisited(try)) \in Nat
    BY WeightIsNat
  <2> QED BY <1>1, <2>1
<1>5. /\ Weight(try) = x + (Len(calls) + 1 - try.next)
      /\ Weight(Skip(try)) = x + (Len(calls) + 1 - (try.next + 1))
  BY <1>2, <1>3 DEF Weight
<1> HIDE DEF x
<1> QED BY <1>1, <1>2, <1>4, <1>5

\* So is the try of the owner of the call.
LEMMA AskIsLighter ==
  ASSUME NEW patterns, Sized(patterns), NEW try \in Tries(patterns), try.next <= Len(calls),
         try.next \notin try.visited, try.owner[try.next] # 0
  PROVE  Ask(try) \in Tries(patterns) /\ Weight(Ask(try)) < Weight(try)
<1>1. /\ Len(calls) \in Nat /\ Len(patterns) \in Nat /\ try.next \in DOMAIN calls
      /\ 1 \in 1..(Len(calls) + 1)
  BY DEF Sized, Tries
<1>2. try.owner[try.next] \in DOMAIN patterns
  <2>1. try.owner[try.next] \in 0..Len(patterns)
    BY <1>1 DEF Tries
  <2> QED BY <1>1, <2>1 DEF Sized
<1>3. Ask(try) \in Tries(patterns) /\ Ask(try).visited = try.visited \cup {try.next}
  BY <1>1, <1>2 DEF Ask, Visit, Tries
<1>4. try.next \in Unvisited(try)
  BY <1>1 DEF Unvisited
<1> QED BY <1>3, <1>4, VisitingIsLighter

\* So is what goes on when the owner found no other.
LEMMA GoOnIsLighter ==
  ASSUME NEW patterns, Sized(patterns), NEW try \in Tries(patterns), try.next <= Len(calls),
         try.next \notin try.visited, NEW moved \in Outcomes(patterns),
         try.visited \cup {try.next} \subseteq moved.visited
  PROVE  GoOn(try, moved) \in Tries(patterns) /\ Weight(GoOn(try, moved)) < Weight(try)
<1>1. /\ Len(calls) \in Nat /\ try.next \in DOMAIN calls
      /\ try.next + 1 \in 1..(Len(calls) + 1)
  BY DEF Sized, Tries
<1>2. GoOn(try, moved) \in Tries(patterns) /\ GoOn(try, moved).visited = moved.visited
  BY <1>1 DEF GoOn, Skip, Tries, Outcomes
<1>3. try.next \in Unvisited(try)
  BY <1>1 DEF Unvisited
<1> QED BY <1>2, <1>3, VisitingIsLighter

-----------------------------------------------------------------------------

\* What is known of the lighter tries when a try is looked at.
Steady(f, try, patterns) ==
  \A s \in Tries(patterns) : Weight(s) < Weight(try) =>
    f[s] \in Outcomes(patterns) /\ s.visited \subseteq f[s].visited

\* What the owner of the next call comes back with, or nobody.
Moved(f, try) ==
  IF try.owner[try.next] = 0 THEN Outcome(TRUE, Visit(try)) ELSE f[Ask(try)]

\* The four ways a look ends.
LEMMA LookIs ==
  ASSUME NEW patterns, NEW try, NEW f
  PROVE  Look(f, try, patterns) =
           IF try.next > Len(calls) THEN Outcome(FALSE, try)
           ELSE IF try.next \in try.visited \/ ~Matches(calls[try.next], patterns[try.pattern])
                THEN f[Skip(try)]
           ELSE IF Moved(f, try).found
                THEN [Moved(f, try) EXCEPT !.owner[try.next] = try.pattern]
           ELSE f[GoOn(try, Moved(f, try))]
BY Zenon DEF Look, Moved

\* What the owner of the call answers.
LEMMA MovedIsTyped ==
  ASSUME NEW patterns, Sized(patterns), NEW try \in Tries(patterns), NEW f,
         Steady(f, try, patterns), try.next <= Len(calls), try.next \notin try.visited
  PROVE  /\ Moved(f, try) \in Outcomes(patterns)
         /\ try.visited \cup {try.next} \subseteq Moved(f, try).visited
<1>1. try.next \in DOMAIN calls
  BY DEF Sized, Tries
<1>2. CASE try.owner[try.next] = 0
  <2>1. Moved(f, try) = [found |-> TRUE, owner |-> try.owner, visited |-> try.visited \cup {try.next}]
    BY <1>2 DEF Moved, Outcome, Visit, Tries
  <2> QED BY <1>1, <2>1 DEF Outcomes, Tries
<1>3. CASE try.owner[try.next] # 0
  <2>1. Ask(try) \in Tries(patterns) /\ Weight(Ask(try)) < Weight(try)
    BY <1>3, AskIsLighter
  <2>2. Ask(try).visited = try.visited \cup {try.next}
    BY DEF Ask, Visit, Tries
  <2>3. Moved(f, try) = f[Ask(try)]
    BY <1>3 DEF Moved
  <2> QED BY <2>1, <2>2, <2>3 DEF Steady
<1> QED BY <1>2, <1>3

\* A look answers, and forgets no visit.
LEMMA LookIsTyped ==
  ASSUME NEW patterns, Sized(patterns), NEW try \in Tries(patterns), NEW f,
         Steady(f, try, patterns)
  PROVE  /\ Look(f, try, patterns) \in Outcomes(patterns)
         /\ try.visited \subseteq Look(f, try, patterns).visited
<1> DEFINE look == Look(f, try, patterns)
           moved == Moved(f, try)
<1>1. CASE try.next > Len(calls)
  <2>1. look = [found |-> FALSE, owner |-> try.owner, visited |-> try.visited]
    BY <1>1, LookIs DEF Outcome
  <2> QED BY <2>1 DEF Outcomes, Tries
<1>2. CASE /\ ~(try.next > Len(calls))
           /\ try.next \in try.visited \/ ~Matches(calls[try.next], patterns[try.pattern])
  <2>1. look = f[Skip(try)]
    BY <1>2, LookIs
  <2>2. Skip(try) \in Tries(patterns) /\ Weight(Skip(try)) < Weight(try)
    <3>1. try.next <= Len(calls)
      BY <1>2 DEF Sized, Tries
    <3> QED BY <3>1, SkipIsLighter
  <2>3. Skip(try).visited = try.visited
    BY DEF Skip, Tries
  <2> QED BY <2>1, <2>2, <2>3 DEF Steady
<1>3. CASE /\ ~(try.next > Len(calls)) /\ try.next \notin try.visited
           /\ Matches(calls[try.next], patterns[try.pattern])
  <2>1. try.next <= Len(calls) /\ try.next \in DOMAIN calls
    BY <1>3 DEF Sized, Tries
  <2>2. moved \in Outcomes(patterns) /\ try.visited \cup {try.next} \subseteq moved.visited
    BY <1>3, <2>1, MovedIsTyped
  <2>3. CASE moved.found
    <3>1. look = [moved EXCEPT !.owner[try.next] = try.pattern]
      BY <1>3, <2>3, LookIs
    <3>2. try.pattern \in 0..Len(patterns)
      BY DEF Tries, Sized
    <3> HIDE DEF moved, look
    <3>3. /\ moved.found \in BOOLEAN /\ moved.owner \in [DOMAIN calls -> 0..Len(patterns)]
          /\ moved = [found |-> moved.found, owner |-> moved.owner, visited |-> moved.visited]
          /\ moved.visited \in SUBSET DOMAIN calls
      BY <2>2 DEF Outcomes
    <3>4. [moved.owner EXCEPT ![try.next] = try.pattern] \in [DOMAIN calls -> 0..Len(patterns)]
      BY <3>2, <3>3
    <3>5. look = [found |-> moved.found, owner |-> [moved.owner EXCEPT ![try.next] = try.pattern],
                  visited |-> moved.visited]
      <4> DEFINE owner == [moved.owner EXCEPT ![try.next] = try.pattern]
      <4>1. look = [moved EXCEPT !.owner = owner]
        BY <3>1
      <4> HIDE DEF owner
      <4>2. look = [found |-> moved.found, owner |-> owner, visited |-> moved.visited]
        BY <3>3, <4>1
      <4> QED BY <4>2 DEF owner
    <3>6. look \in Outcomes(patterns) /\ look.visited = moved.visited
      BY <3>3, <3>4, <3>5 DEF Outcomes
    <3> QED BY <2>2, <3>6 DEF look
  <2>4. CASE ~moved.found
    <3>1. look = f[GoOn(try, moved)]
      BY <1>3, <2>4, LookIs
    <3>2. GoOn(try, moved) \in Tries(patterns) /\ Weight(GoOn(try, moved)) < Weight(try)
      BY <1>3, <2>1, <2>2, GoOnIsLighter
    <3>3. GoOn(try, moved).visited = moved.visited
      BY DEF GoOn, Skip, Tries
    <3> QED BY <2>2, <3>1, <3>2, <3>3 DEF Steady
  <2> QED BY <2>3, <2>4
<1> QED BY <1>1, <1>2, <1>3

\* A look depends on the lighter tries only.
LEMMA LookAgrees ==
  ASSUME NEW patterns, Sized(patterns), NEW try \in Tries(patterns), NEW f, NEW g,
         Steady(f, try, patterns),
         \A s \in Tries(patterns) : Weight(s) < Weight(try) => f[s] = g[s]
  PROVE  Look(f, try, patterns) = Look(g, try, patterns)
<1>1. CASE try.next > Len(calls)
  BY <1>1, LookIs
<1>2. CASE /\ ~(try.next > Len(calls))
           /\ try.next \in try.visited \/ ~Matches(calls[try.next], patterns[try.pattern])
  <2>1. Skip(try) \in Tries(patterns) /\ Weight(Skip(try)) < Weight(try)
    <3>1. try.next <= Len(calls)
      BY <1>2 DEF Sized, Tries
    <3> QED BY <3>1, SkipIsLighter
  <2> QED BY <1>2, <2>1, LookIs
<1>3. CASE /\ ~(try.next > Len(calls)) /\ try.next \notin try.visited
           /\ Matches(calls[try.next], patterns[try.pattern])
  <2>1. try.next <= Len(calls)
    BY <1>3 DEF Sized, Tries
  <2>2. Moved(f, try) = Moved(g, try)
    <3>1. try.owner[try.next] # 0 => Ask(try) \in Tries(patterns) /\ Weight(Ask(try)) < Weight(try)
      BY <1>3, <2>1, AskIsLighter
    <3> QED BY <3>1 DEF Moved
  <2>3. Moved(f, try) \in Outcomes(patterns) /\ try.visited \cup {try.next} \subseteq Moved(f, try).visited
    BY <1>3, <2>1, MovedIsTyped
  <2>4. /\ GoOn(try, Moved(f, try)) \in Tries(patterns)
        /\ Weight(GoOn(try, Moved(f, try))) < Weight(try)
    BY <1>3, <2>1, <2>3, GoOnIsLighter
  <2>5. f[GoOn(try, Moved(f, try))] = g[GoOn(try, Moved(f, try))]
    BY <2>4
  <2>6. Look(f, try, patterns) =
          IF Moved(f, try).found THEN [Moved(f, try) EXCEPT !.owner[try.next] = try.pattern]
          ELSE f[GoOn(try, Moved(f, try))]
    BY <1>3, LookIs
  <2>7. Look(g, try, patterns) =
          IF Moved(g, try).found THEN [Moved(g, try) EXCEPT !.owner[try.next] = try.pattern]
          ELSE g[GoOn(try, Moved(g, try))]
    BY <1>3, LookIs
  <2> QED BY <2>2, <2>5, <2>6, <2>7
<1> QED BY <1>1, <1>2, <1>3

-----------------------------------------------------------------------------

\* assign, as a function on all tries.
Solves(f, patterns) == f = [t \in Tries(patterns) |-> Look(f, t, patterns)]

\* The same for the tries of less than k.
SolvesBelow(f, k, patterns) ==
  /\ f = [t \in Tries(patterns) |-> f[t]]
  /\ \A t \in Tries(patterns) : Weight(t) < k =>
       /\ f[t] = Look(f, t, patterns)
       /\ f[t] \in Outcomes(patterns) /\ t.visited \subseteq f[t].visited

\* Among tries there is a lightest.
LEMMA LightestTry ==
  ASSUME NEW patterns, Sized(patterns), NEW B, B \subseteq Tries(patterns), B # {}
  PROVE  \E t \in B : \A s \in Tries(patterns) : Weight(s) < Weight(t) => s \notin B
<1> DEFINE W == {Weight(t) : t \in B}
<1>1. \A t \in B : Weight(t) \in Nat
  BY WeightIsNat
<1>2. W \subseteq Nat /\ W # {}
  BY <1>1
<1>3. PICK w \in W : \A v \in W : w <= v
  <2> HIDE DEF W
  <2> QED BY <1>2, LeastElement
<1>4. PICK t \in B : Weight(t) = w
  BY <1>3
<1>5. ASSUME NEW s \in B, Weight(s) < Weight(t) PROVE FALSE
  <2>1. Weight(s) \in W
    OBVIOUS
  <2>2. Weight(t) <= Weight(s)
    BY <1>3, <1>4, <2>1
  <2>3. Weight(t) \in Nat /\ Weight(s) \in Nat
    BY <1>1
  <2> QED BY <1>5, <2>2, <2>3
<1> QED BY <1>5

\* A solution answers every try, and forgets no visit.
LEMMA SolutionTyped ==
  ASSUME NEW patterns, Sized(patterns), NEW f,
         \A t \in Tries(patterns) : f[t] = Look(f, t, patterns)
  PROVE  \A t \in Tries(patterns) : f[t] \in Outcomes(patterns) /\ t.visited \subseteq f[t].visited
<1> DEFINE B == {t \in Tries(patterns) : ~(f[t] \in Outcomes(patterns) /\ t.visited \subseteq f[t].visited)}
<1> SUFFICES ASSUME B # {} PROVE FALSE
  OBVIOUS
<1>1. PICK t \in B : \A s \in Tries(patterns) : Weight(s) < Weight(t) => s \notin B
  <2>1. B \subseteq Tries(patterns)
    OBVIOUS
  <2> HIDE DEF B
  <2> QED BY <2>1, LightestTry
<1>2. Steady(f, t, patterns)
  BY <1>1 DEF Steady
<1>3. t \in Tries(patterns) /\ f[t] = Look(f, t, patterns)
  OBVIOUS
<1> QED BY <1>2, <1>3, LookIsTyped

\* What is solved below a weight is solved below the next one.
LEMMA SolvedFurther ==
  ASSUME NEW patterns, Sized(patterns), NEW k \in Nat, NEW f, SolvesBelow(f, k, patterns)
  PROVE  \E g : SolvesBelow(g, k + 1, patterns)
<1> DEFINE g == [t \in Tries(patterns) |-> Look(f, t, patterns)]
<1>1. ASSUME NEW t \in Tries(patterns), Weight(t) < k + 1
      PROVE  /\ g[t] = Look(g, t, patterns)
             /\ g[t] \in Outcomes(patterns) /\ t.visited \subseteq g[t].visited
  <2>1. \A s \in Tries(patterns) : Weight(s) < Weight(t) => Weight(s) < k
    BY <1>1, WeightIsNat
  <2>2. Steady(f, t, patterns)
    BY <2>1 DEF Steady, SolvesBelow
  <2>3. \A s \in Tries(patterns) : Weight(s) < Weight(t) => f[s] = g[s]
    BY <2>1 DEF SolvesBelow
  <2>4. g[t] = Look(f, t, patterns)
    OBVIOUS
  <2> HIDE DEF g
  <2>5. Look(f, t, patterns) = Look(g, t, patterns)
    BY <2>2, <2>3, LookAgrees
  <2>6. Look(f, t, patterns) \in Outcomes(patterns) /\ t.visited \subseteq Look(f, t, patterns).visited
    BY <2>2, LookIsTyped
  <2> QED BY <2>4, <2>5, <2>6
<1>2. g = [t \in Tries(patterns) |-> g[t]]
  OBVIOUS
<1> HIDE DEF g
<1>3. SolvesBelow(g, k + 1, patterns)
  BY <1>1, <1>2 DEF SolvesBelow
<1> QED BY <1>3

\* The weights are bounded: there is a solution.
LEMMA SolutionExists ==
  ASSUME NEW patterns, Sized(patterns)
  PROVE  \E f : Solves(f, patterns)
<1> DEFINE Unsolved == {k \in Nat : ~ \E f : SolvesBelow(f, k, patterns)}
<1>1. Unsolved = {}
  <2> SUFFICES ASSUME Unsolved # {} PROVE FALSE
    OBVIOUS
  <2>1. PICK k \in Unsolved : \A j \in Unsolved : k <= j
    <3>1. Unsolved \subseteq Nat
      OBVIOUS
    <3> HIDE DEF Unsolved
    <3> QED BY <3>1, LeastElement
  <2>2. k \in Nat /\ ~ \E f : SolvesBelow(f, k, patterns)
    OBVIOUS
  <2>3. k # 0
    <3> DEFINE f == [t \in Tries(patterns) |-> 0]
    <3>1. f = [t \in Tries(patterns) |-> f[t]]
      OBVIOUS
    <3>2. \A t \in Tries(patterns) : ~ (Weight(t) < 0)
      BY WeightIsNat
    <3> HIDE DEF f
    <3>3. SolvesBelow(f, 0, patterns)
      BY <3>1, <3>2 DEF SolvesBelow
    <3> QED BY <2>2, <3>3
  <2>4. k - 1 \in Nat /\ k - 1 \notin Unsolved
    <3>1. k - 1 \in Nat /\ ~ (k <= k - 1)
      BY <2>2, <2>3
    <3> HIDE DEF Unsolved
    <3> QED BY <3>1, <2>1
  <2>5. PICK f : SolvesBelow(f, k - 1, patterns)
    BY <2>4
  <2>6. \E g : SolvesBelow(g, (k - 1) + 1, patterns)
    BY <2>4, <2>5, SolvedFurther
  <2>7. (k - 1) + 1 = k
    BY <2>2
  <2> QED BY <2>2, <2>6, <2>7
<1> DEFINE most == (Len(calls) + 1) * (Len(calls) + 2)
<1>2. most \in Nat
  BY DEF Sized
<1>3. PICK f : SolvesBelow(f, most, patterns)
  BY <1>1, <1>2
<1>4. \A t \in Tries(patterns) : Weight(t) < most
  BY WeightIsNat
<1> HIDE DEF most
<1>5. Solves(f, patterns)
  BY <1>3, <1>4 DEF Solves, SolvesBelow
<1> QED BY <1>5

\* assign is a function that does what its body says, and answers every try.
LEMMA AssignLooks ==
  ASSUME NEW patterns, Sized(patterns), NEW try \in Tries(patterns)
  PROVE  /\ Assign(patterns)[try] = Look(Assign(patterns), try, patterns)
         /\ Assign(patterns)[try] \in Outcomes(patterns)
         /\ try.visited \subseteq Assign(patterns)[try].visited
<1>1. Solves(Assign(patterns), patterns)
  <2>1. Solves(CHOOSE f : Solves(f, patterns), patterns)
    BY SolutionExists, Zenon
  <2>2. Assign(patterns) = CHOOSE f : Solves(f, patterns)
    BY DEF Assign, Solves
  <2> QED BY <2>1, <2>2
<1>2. \A t \in Tries(patterns) : Assign(patterns)[t] = Look(Assign(patterns), t, patterns)
  BY <1>1 DEF Solves
<1> QED BY <1>2, SolutionTyped

-----------------------------------------------------------------------------

\* Who has a call, it fits.
OwnersFit(owner, patterns) ==
  \A n \in DOMAIN calls : owner[n] # 0 => Matches(calls[n], patterns[owner[n]])

\* No pattern has two of the calls in S.
OneEach(owner, S) == \A n, k \in S : owner[n] = owner[k] /\ owner[n] # 0 => n = k

\* A try begins with such owners, and what it has not visited is not its own.
WellTried(try, patterns) ==
  /\ OwnersFit(try.owner, patterns) /\ OneEach(try.owner, Unvisited(try))
  /\ \A n \in Unvisited(try) : try.owner[n] # try.pattern

\* A try that went well gave the pattern a call, and took none from the others.
Won(try, o, patterns) ==
  /\ OneEach(o.owner, Unvisited(try))
  /\ \A q \in DOMAIN patterns :
       (\E n \in Unvisited(try) : o.owner[n] = q) <=>
         (q = try.pattern \/ \E n \in Unvisited(try) : try.owner[n] = q)

\* A try that failed has visited all that fits the pattern and all that fits the
\* owner of anything it visited.
Lost(try, o, patterns) ==
  /\ o.owner = try.owner
  /\ \A n \in try.next..Len(calls) : Matches(calls[n], patterns[try.pattern]) => n \in o.visited
  /\ \A n \in o.visited \ try.visited :
       /\ try.owner[n] # 0
       /\ \A k \in DOMAIN calls : Matches(calls[k], patterns[try.owner[n]]) => k \in o.visited

\* The answer of assign is the right one.
RightAnswer(try, o, patterns) ==
  /\ OwnersFit(o.owner, patterns)
  /\ \A n \in try.visited : o.owner[n] = try.owner[n]
  /\ o.found => Won(try, o, patterns)
  /\ ~o.found => Lost(try, o, patterns)

\* The calls are through.
LEMMA EndIsRight ==
  ASSUME NEW patterns, Sized(patterns), NEW try \in Tries(patterns), WellTried(try, patterns),
         try.next > Len(calls)
  PROVE  RightAnswer(try, Outcome(FALSE, try), patterns)
<1>1. try.next..Len(calls) = {}
  BY DEF Tries, Sized
<1> DEFINE o == Outcome(FALSE, try)
<1>2. o.found = FALSE /\ o.owner = try.owner /\ o.visited = try.visited
  BY DEF Outcome
<1> HIDE DEF o
<1> QED BY <1>1, <1>2 DEF RightAnswer, Lost, WellTried, o

\* The next call was visited already, or does not fit.
LEMMA SkipIsRight ==
  ASSUME NEW patterns, Sized(patterns), NEW try \in Tries(patterns), WellTried(try, patterns),
         try.next <= Len(calls),
         try.next \in try.visited \/ ~Matches(calls[try.next], patterns[try.pattern]),
         NEW o, o \in Outcomes(patterns), try.visited \subseteq o.visited,
         WellTried(Skip(try), patterns) => RightAnswer(Skip(try), o, patterns)
  PROVE  RightAnswer(try, o, patterns)
<1>1. /\ Skip(try).owner = try.owner /\ Skip(try).visited = try.visited
      /\ Skip(try).pattern = try.pattern /\ Skip(try).next = try.next + 1
  BY DEF Skip, Tries
<1>2. Unvisited(Skip(try)) = Unvisited(try)
  BY <1>1 DEF Unvisited
<1>3. WellTried(Skip(try), patterns)
  BY <1>1, <1>2 DEF WellTried
<1>4. RightAnswer(Skip(try), o, patterns)
  BY <1>3
<1>5. o.found => Won(try, o, patterns)
  BY <1>1, <1>2, <1>4 DEF RightAnswer, Won
<1>6. ASSUME ~o.found PROVE Lost(try, o, patterns)
  <2>1. Lost(Skip(try), o, patterns)
    BY <1>4, <1>6 DEF RightAnswer
  <2>2. \A n \in try.next..Len(calls) : n = try.next \/ n \in (try.next + 1)..Len(calls)
    BY DEF Tries, Sized
  <2> QED BY <1>1, <2>1, <2>2 DEF Lost
<1> QED BY <1>1, <1>4, <1>5, <1>6 DEF RightAnswer

\* The next call was nobody's, or its owner found another: it goes to the pattern.
LEMMA TakeIsRight ==
  ASSUME NEW patterns, Sized(patterns), NEW try \in Tries(patterns), WellTried(try, patterns),
         try.next <= Len(calls), try.next \notin try.visited,
         Matches(calls[try.next], patterns[try.pattern]),
         NEW moved, moved \in Outcomes(patterns), moved.found,
         OwnersFit(moved.owner, patterns),
         \A n \in try.visited \cup {try.next} : moved.owner[n] = try.owner[n],
         OneEach(moved.owner, Unvisited(try) \ {try.next}),
         \A q \in DOMAIN patterns :
           (\E n \in Unvisited(try) \ {try.next} : moved.owner[n] = q) <=>
             (\E n \in Unvisited(try) : try.owner[n] = q)
  PROVE  RightAnswer(try, [moved EXCEPT !.owner[try.next] = try.pattern], patterns)
<1> DEFINE o == [moved EXCEPT !.owner[try.next] = try.pattern]
           x == try.next
<1>1. x \in DOMAIN calls /\ x \in Unvisited(try) /\ try.pattern \in DOMAIN patterns /\ try.pattern # 0
  BY DEF Tries, Sized, Unvisited
<1>2. /\ o.found /\ o.owner = [moved.owner EXCEPT ![x] = try.pattern]
      /\ o.owner[x] = try.pattern /\ \A n \in DOMAIN calls \ {x} : o.owner[n] = moved.owner[n]
      /\ moved.owner \in [DOMAIN calls -> 0..Len(patterns)]
  BY <1>1 DEF Outcomes
<1> HIDE DEF o
<1>3. OwnersFit(o.owner, patterns)
  BY <1>1, <1>2 DEF OwnersFit
<1>4. \A n \in try.visited : o.owner[n] = try.owner[n]
  <2>1. try.visited \subseteq DOMAIN calls
    BY DEF Tries
  <2> QED BY <1>2, <2>1
<1>5. \A n \in Unvisited(try) \ {x} : o.owner[n] = moved.owner[n] /\ n \in DOMAIN calls
  BY <1>2 DEF Unvisited
<1>6. \A n \in Unvisited(try) \ {x} : moved.owner[n] # try.pattern
  BY <1>1 DEF WellTried
<1>7. OneEach(o.owner, Unvisited(try))
  BY <1>2, <1>5, <1>6 DEF OneEach
<1>8. ASSUME NEW q \in DOMAIN patterns
      PROVE  (\E n \in Unvisited(try) : o.owner[n] = q) <=>
               (q = try.pattern \/ \E n \in Unvisited(try) : try.owner[n] = q)
  <2>1. (\E n \in Unvisited(try) : o.owner[n] = q) <=>
          (q = try.pattern \/ \E n \in Unvisited(try) \ {x} : o.owner[n] = q)
    BY <1>1, <1>2
  <2>2. (\E n \in Unvisited(try) \ {x} : o.owner[n] = q) <=>
          (\E n \in Unvisited(try) \ {x} : moved.owner[n] = q)
    BY <1>5
  <2> QED BY <2>1, <2>2
<1> QED BY <1>2, <1>3, <1>4, <1>7, <1>8 DEF RightAnswer, Won, o

\* The owner of the next call asks for another.
LEMMA AskIsWellTried ==
  ASSUME NEW patterns, Sized(patterns), NEW try \in Tries(patterns), WellTried(try, patterns),
         try.next <= Len(calls), try.next \notin try.visited, try.owner[try.next] # 0
  PROVE  /\ WellTried(Ask(try), patterns)
         /\ Ask(try).owner = try.owner /\ Ask(try).visited = try.visited \cup {try.next}
         /\ Ask(try).pattern = try.owner[try.next] /\ Ask(try).next = 1
         /\ Unvisited(Ask(try)) = Unvisited(try) \ {try.next}
         /\ try.next \in Unvisited(try)
<1>1. /\ Ask(try).owner = try.owner /\ Ask(try).visited = try.visited \cup {try.next}
      /\ Ask(try).pattern = try.owner[try.next] /\ Ask(try).next = 1
  BY DEF Ask, Visit, Tries
<1>2. Unvisited(Ask(try)) = Unvisited(try) \ {try.next}
  BY <1>1 DEF Unvisited
<1>3. try.next \in Unvisited(try)
  BY DEF Unvisited, Tries, Sized
<1>4. WellTried(Ask(try), patterns)
  BY <1>1, <1>2, <1>3 DEF WellTried, OneEach
<1> QED BY <1>1, <1>2, <1>3, <1>4

\* The owner of the next call found no other: the try goes on.
LEMMA GoOnIsRight ==
  ASSUME NEW patterns, Sized(patterns), NEW try \in Tries(patterns), WellTried(try, patterns),
         try.next <= Len(calls), try.next \notin try.visited, try.owner[try.next] # 0,
         NEW moved, moved \in Outcomes(patterns), ~moved.found,
         try.visited \cup {try.next} \subseteq moved.visited,
         Lost(Ask(try), moved, patterns),
         NEW o, o \in Outcomes(patterns), moved.visited \subseteq o.visited,
         WellTried(GoOn(try, moved), patterns) => RightAnswer(GoOn(try, moved), o, patterns)
  PROVE  RightAnswer(try, o, patterns)
<1> DEFINE x == try.next
           go == GoOn(try, moved)
<1>1. /\ Ask(try).owner = try.owner /\ Ask(try).visited = try.visited \cup {x}
      /\ Ask(try).pattern = try.owner[x] /\ Ask(try).next = 1
      /\ x \in Unvisited(try) /\ x \in DOMAIN calls
  BY AskIsWellTried DEF Unvisited
<1>2. moved.owner = try.owner
  BY <1>1 DEF Lost
<1>3. /\ go.owner = try.owner /\ go.visited = moved.visited
      /\ go.pattern = try.pattern /\ go.next = x + 1
  BY <1>2 DEF GoOn, Skip, Tries
<1>4. Unvisited(go) \subseteq Unvisited(try) /\ try.visited \subseteq go.visited
  BY <1>3 DEF Unvisited
<1>5. WellTried(go, patterns)
  BY <1>3, <1>4 DEF WellTried, OneEach
<1>6. RightAnswer(go, o, patterns)
  BY <1>5
<1> HIDE DEF go
<1>7. OwnersFit(o.owner, patterns) /\ \A n \in go.visited : o.owner[n] = try.owner[n]
  BY <1>3, <1>6 DEF RightAnswer
<1>8. ASSUME o.found PROVE Won(try, o, patterns)
  <2>1. Won(go, o, patterns)
    BY <1>6, <1>8 DEF RightAnswer
  <2>2. \A n \in Unvisited(try) \ Unvisited(go) : o.owner[n] = try.owner[n]
    BY <1>7 DEF Unvisited
  <2>3. \A n \in Unvisited(go) : o.owner[n] # 0 =>
          o.owner[n] = try.pattern \/ \E k \in Unvisited(go) : try.owner[k] = o.owner[n]
    <3>1. \A n \in Unvisited(go) : o.owner[n] # 0 => o.owner[n] \in DOMAIN patterns
      BY DEF Unvisited, Outcomes, Sized
    <3> QED BY <1>3, <2>1, <3>1 DEF Won
  <2>4. OneEach(o.owner, Unvisited(try))
    <3> SUFFICES ASSUME NEW n \in Unvisited(try), NEW k \in Unvisited(try),
                        o.owner[n] = o.owner[k], o.owner[n] # 0
                 PROVE  n = k
      BY DEF OneEach
    <3>1. CASE n \in Unvisited(go) /\ k \in Unvisited(go)
      BY <2>1, <3>1 DEF Won, OneEach
    <3>2. CASE n \notin Unvisited(go) /\ k \notin Unvisited(go)
      BY <2>2, <3>2 DEF WellTried, OneEach
    <3>3. ASSUME NEW i \in Unvisited(try), NEW j \in Unvisited(go), i \notin Unvisited(go),
                 o.owner[i] = o.owner[j], o.owner[i] # 0
          PROVE  FALSE
      <4>1. o.owner[i] = try.owner[i] /\ o.owner[j] = try.owner[i] /\ try.owner[i] # 0
        BY <2>2, <3>3
      <4>2. try.owner[i] # try.pattern
        BY DEF WellTried
      <4>3. PICK h \in Unvisited(go) : try.owner[h] = try.owner[i]
        BY <2>3, <4>1, <4>2
      <4>4. h \in Unvisited(try)
        BY <1>4
      <4>5. h = i
        BY <4>1, <4>3, <4>4 DEF WellTried, OneEach
      <4> QED BY <3>3, <4>5
    <3> QED BY <3>1, <3>2, <3>3
  <2>5. ASSUME NEW q \in DOMAIN patterns
        PROVE  (\E n \in Unvisited(try) : o.owner[n] = q) <=>
                 (q = try.pattern \/ \E n \in Unvisited(try) : try.owner[n] = q)
    <3>1. (\E n \in Unvisited(go) : o.owner[n] = q) <=>
            (q = try.pattern \/ \E n \in Unvisited(go) : try.owner[n] = q)
      BY <1>3, <2>1 DEF Won
    <3>2. \A n \in Unvisited(try) : n \notin Unvisited(go) => (o.owner[n] = q <=> try.owner[n] = q)
      BY <2>2
    <3> QED BY <1>4, <3>1, <3>2, Zenon
  <2> QED BY <2>4, <2>5 DEF Won
<1>9. ASSUME ~o.found PROVE Lost(try, o, patterns)
  <2>1. Lost(go, o, patterns)
    BY <1>6, <1>9 DEF RightAnswer
  <2>2. o.owner = try.owner
    BY <1>3, <2>1 DEF Lost
  <2>3. \A n \in x..Len(calls) : Matches(calls[n], patterns[try.pattern]) => n \in o.visited
    <3>1. \A n \in x..Len(calls) : n = x \/ n \in (x + 1)..Len(calls)
      BY DEF Tries, Sized
    <3>2. x \in o.visited
      OBVIOUS
    <3> QED BY <1>3, <2>1, <3>1, <3>2 DEF Lost
  <2>4. ASSUME NEW n \in o.visited \ try.visited
        PROVE  /\ try.owner[n] # 0
               /\ \A k \in DOMAIN calls : Matches(calls[k], patterns[try.owner[n]]) => k \in o.visited
    <3>1. CASE n = x
      <4>1. \A k \in DOMAIN calls : Matches(calls[k], patterns[try.owner[x]]) => k \in moved.visited
        BY <1>1 DEF Lost, Sized
      <4> QED BY <3>1, <4>1
    <3>2. CASE n \in moved.visited /\ n # x
      <4>1. n \in moved.visited \ Ask(try).visited
        BY <1>1, <3>2
      <4> QED BY <1>1, <4>1 DEF Lost
    <3>3. CASE n \notin moved.visited
      <4>1. n \in o.visited \ go.visited
        BY <1>3, <3>3
      <4> QED BY <1>3, <2>1, <4>1 DEF Lost
    <3> QED BY <3>1, <3>2, <3>3
  <2> QED BY <2>2, <2>3, <2>4 DEF Lost
<1> QED BY <1>4, <1>7, <1>8, <1>9 DEF RightAnswer

\* If the lighter tries are answered rightly, so is this one.
LEMMA LookIsRight ==
  ASSUME NEW patterns, Sized(patterns), NEW try \in Tries(patterns), WellTried(try, patterns),
         NEW f, Steady(f, try, patterns),
         \A s \in Tries(patterns) : Weight(s) < Weight(try) /\ WellTried(s, patterns) =>
           RightAnswer(s, f[s], patterns)
  PROVE  RightAnswer(try, Look(f, try, patterns), patterns)
<1> DEFINE look == Look(f, try, patterns)
           moved == Moved(f, try)
           x == try.next
<1>1. CASE x > Len(calls)
  BY <1>1, LookIs, EndIsRight
<1>2. CASE /\ ~(x > Len(calls))
           /\ x \in try.visited \/ ~Matches(calls[x], patterns[try.pattern])
  <2>1. look = f[Skip(try)] /\ x <= Len(calls)
    <3>1. look = f[Skip(try)]
      BY <1>2, LookIs
    <3>2. x <= Len(calls)
      BY <1>2 DEF Tries, Sized
    <3> QED BY <3>1, <3>2
  <2>2. Skip(try) \in Tries(patterns) /\ Weight(Skip(try)) < Weight(try)
    BY <2>1, SkipIsLighter
  <2>3. f[Skip(try)] \in Outcomes(patterns) /\ try.visited \subseteq f[Skip(try)].visited
    <3>1. Skip(try).visited = try.visited
      BY DEF Skip, Tries
    <3> QED BY <2>2, <3>1 DEF Steady
  <2> QED BY <1>2, <2>1, <2>2, <2>3, SkipIsRight
<1>3. CASE ~(x > Len(calls)) /\ x \notin try.visited /\ Matches(calls[x], patterns[try.pattern])
  <2>1. x <= Len(calls) /\ x \in DOMAIN calls /\ x \in Unvisited(try)
    BY <1>3 DEF Tries, Sized, Unvisited
  <2>2. moved \in Outcomes(patterns) /\ try.visited \cup {x} \subseteq moved.visited
    BY <1>3, <2>1, MovedIsTyped
  <2>3. /\ try.owner[x] # 0 => RightAnswer(Ask(try), moved, patterns)
        /\ try.owner[x] = 0 => moved.found = TRUE /\ moved.owner = try.owner
    <3>1. try.owner[x] # 0 =>
            /\ Ask(try) \in Tries(patterns) /\ Weight(Ask(try)) < Weight(try)
            /\ WellTried(Ask(try), patterns)
      BY <1>3, <2>1, AskIsLighter, AskIsWellTried
    <3>2. try.owner[x] # 0 => moved = f[Ask(try)]
      BY DEF Moved
    <3>3. try.owner[x] = 0 => moved.found = TRUE /\ moved.owner = try.owner
      BY DEF Moved, Outcome, Visit, Tries
    <3> HIDE DEF moved
    <3> QED BY <3>1, <3>2, <3>3
  <2>4. CASE moved.found
    <3>1. look = [moved EXCEPT !.owner[x] = try.pattern]
      BY <1>3, <2>4, LookIs
    <3>2. /\ OwnersFit(moved.owner, patterns)
          /\ \A n \in try.visited \cup {x} : moved.owner[n] = try.owner[n]
          /\ OneEach(moved.owner, Unvisited(try) \ {x})
          /\ \A q \in DOMAIN patterns :
               (\E n \in Unvisited(try) \ {x} : moved.owner[n] = q) <=>
                 (\E n \in Unvisited(try) : try.owner[n] = q)
      <4>1. CASE try.owner[x] = 0
        <5>1. moved.owner = try.owner
          BY <2>3, <4>1
        <5>2. \A q \in DOMAIN patterns : q # 0
          BY DEF Sized
        <5> HIDE DEF moved
        <5> QED BY <4>1, <5>1, <5>2 DEF WellTried, OneEach
      <4>2. CASE try.owner[x] # 0
        <5>1. RightAnswer(Ask(try), moved, patterns) /\ Won(Ask(try), moved, patterns)
          BY <2>3, <2>4, <4>2 DEF RightAnswer
        <5>2. /\ Ask(try).owner = try.owner /\ Ask(try).visited = try.visited \cup {x}
              /\ Ask(try).pattern = try.owner[x] /\ Unvisited(Ask(try)) = Unvisited(try) \ {x}
          BY <1>3, <2>1, <4>2, AskIsWellTried
        <5>3. ASSUME NEW q \in DOMAIN patterns
              PROVE  (\E n \in Unvisited(try) \ {x} : moved.owner[n] = q) <=>
                       (\E n \in Unvisited(try) : try.owner[n] = q)
          BY <2>1, <5>1, <5>2 DEF Won
        <5> QED BY <5>1, <5>2, <5>3 DEF RightAnswer, Won
      <4> QED BY <4>1, <4>2
    <3> HIDE DEF moved, look, x
    <3>3. RightAnswer(try, [moved EXCEPT !.owner[try.next] = try.pattern], patterns)
      BY <1>3, <2>1, <2>2, <2>4, <3>2, TakeIsRight DEF x
    <3>4. RightAnswer(try, look, patterns)
      BY <3>1, <3>3 DEF x
    <3> QED BY <3>4 DEF look
  <2>5. CASE ~moved.found
    <3>1. try.owner[x] # 0
      <4> HIDE DEF moved
      <4> QED BY <2>3, <2>5
    <3>2. Lost(Ask(try), moved, patterns)
      BY <2>3, <2>5, <3>1 DEF RightAnswer
    <3>3. look = f[GoOn(try, moved)]
      BY <1>3, <2>5, LookIs
    <3>4. GoOn(try, moved) \in Tries(patterns) /\ Weight(GoOn(try, moved)) < Weight(try)
      BY <1>3, <2>1, <2>2, GoOnIsLighter
    <3>5. look \in Outcomes(patterns) /\ moved.visited \subseteq look.visited
      <4>1. GoOn(try, moved).visited = moved.visited
        BY DEF GoOn, Skip, Tries
      <4> QED BY <3>3, <3>4, <4>1 DEF Steady
    <3>6. WellTried(GoOn(try, moved), patterns) => RightAnswer(GoOn(try, moved), look, patterns)
      BY <3>3, <3>4
    <3> HIDE DEF look, moved
    <3>7. RightAnswer(try, look, patterns)
      BY <1>3, <2>1, <2>2, <2>5, <3>1, <3>2, <3>5, <3>6, GoOnIsRight
    <3> QED BY <3>7 DEF look
  <2> QED BY <2>4, <2>5
<1> QED BY <1>1, <1>2, <1>3

\* assign answers every such try rightly.
LEMMA AssignIsRight ==
  ASSUME NEW patterns, Sized(patterns), NEW try \in Tries(patterns), WellTried(try, patterns)
  PROVE  RightAnswer(try, Assign(patterns)[try], patterns)
<1> DEFINE f == Assign(patterns)
           B == {t \in Tries(patterns) : WellTried(t, patterns) /\ ~RightAnswer(t, f[t], patterns)}
<1> SUFFICES ASSUME B # {} PROVE FALSE
  OBVIOUS
<1>1. PICK t \in B : \A s \in Tries(patterns) : Weight(s) < Weight(t) => s \notin B
  <2>1. B \subseteq Tries(patterns)
    OBVIOUS
  <2> HIDE DEF B
  <2> QED BY <2>1, LightestTry
<1>2. /\ t \in Tries(patterns) /\ WellTried(t, patterns) /\ ~RightAnswer(t, f[t], patterns)
      /\ \A s \in Tries(patterns) : Weight(s) < Weight(t) /\ WellTried(s, patterns) =>
           RightAnswer(s, f[s], patterns)
  BY <1>1
<1>3. f[t] = Look(f, t, patterns) /\ Steady(f, t, patterns)
  <2>1. \A s \in Tries(patterns) : /\ f[s] = Look(f, s, patterns)
                                   /\ f[s] \in Outcomes(patterns) /\ s.visited \subseteq f[s].visited
    BY AssignLooks
  <2> QED BY <1>2, <2>1 DEF Steady
<1> HIDE DEF f, B
<1> QED BY <1>2, <1>3, LookIsRight

-----------------------------------------------------------------------------

\* Some assignment gives each pattern a call of its own that fits it.
Assignable(patterns) ==
  \E f \in [DOMAIN patterns -> DOMAIN calls] :
    /\ \A p \in DOMAIN patterns : Matches(calls[f[p]], patterns[p])
    /\ \A p, q \in DOMAIN patterns : f[p] = f[q] => p = q

\* A finite set does not fit into itself with a place left over.
LEMMA NoPlaceLeft ==
  ASSUME NEW V, IsFiniteSet(V), NEW x \in V, NEW g \in [V -> V \ {x}]
  PROVE  \E m, n \in V : g[m] = g[n] /\ m # n
<1> SUFFICES ASSUME \A m, n \in V : g[m] = g[n] => m = n
             PROVE  FALSE
  OBVIOUS
<1>1. g \in Injection(V, V \ {x})
  BY DEF Injection, IsInjective
<1>2. IsFiniteSet(V \ {x}) /\ Cardinality(V \ {x}) < Cardinality(V)
  BY TakeOut
<1>3. Cardinality(V) \in Nat /\ Cardinality(V \ {x}) \in Nat
  BY <1>2, FS_CardinalityType
<1>4. Cardinality(V) <= Cardinality(V \ {x})
  BY <1>1, <1>2, FS_Injection
<1> QED BY <1>2, <1>3, <1>4

\* A first try that fails has visited calls that fit nothing but their owners and
\* the pattern: one pattern too many.
LEMMA LostIsHopeless ==
  ASSUME NEW patterns, Sized(patterns), NEW try \in Tries(patterns), WellTried(try, patterns),
         try.visited = {}, try.next = 1,
         NEW o, o \in Outcomes(patterns), Lost(try, o, patterns)
  PROVE  ~Assignable(patterns)
<1> SUFFICES ASSUME NEW f \in [DOMAIN patterns -> DOMAIN calls],
                    \A p \in DOMAIN patterns : Matches(calls[f[p]], patterns[p]),
                    \A p, q \in DOMAIN patterns : f[p] = f[q] => p = q
             PROVE  FALSE
  BY DEF Assignable
<1> DEFINE V == o.visited
           x == f[try.pattern]
           g == [n \in V |-> f[try.owner[n]]]
<1>1. V \subseteq DOMAIN calls /\ Unvisited(try) = DOMAIN calls /\ try.pattern \in DOMAIN patterns
  BY DEF Outcomes, Unvisited, Tries
<1>2. IsFiniteSet(V)
  <2>1. \A l \in Nat : IsFiniteSet(1..l)
    BY FS_Interval
  <2> QED BY <1>1, <2>1, FS_Subset DEF Sized
<1>3. x \in V
  BY <1>1 DEF Lost, Sized
<1>4. ASSUME NEW n \in V
      PROVE  try.owner[n] \in DOMAIN patterns /\ try.owner[n] # try.pattern /\ f[try.owner[n]] \in V
  <2>1. try.owner[n] \in 0..Len(patterns) /\ try.owner[n] # 0
    BY <1>1 DEF Lost, Tries
  <2>2. try.owner[n] \in DOMAIN patterns
    BY <2>1 DEF Sized
  <2> QED BY <1>1, <2>2 DEF Lost, WellTried
<1>5. g \in [V -> V \ {x}]
  BY <1>1, <1>4
<1>6. \A m, n \in V : g[m] = g[n] => m = n
  <2> SUFFICES ASSUME NEW m \in V, NEW n \in V, g[m] = g[n]
               PROVE  m = n
    OBVIOUS
  <2>1. try.owner[m] = try.owner[n] /\ try.owner[m] # 0
    BY <1>4 DEF Sized
  <2> QED BY <1>1, <2>1 DEF WellTried, OneEach
<1> HIDE DEF V, x, g
<1> QED BY <1>2, <1>3, <1>5, <1>6, NoPlaceLeft

-----------------------------------------------------------------------------

\* What serving the first p patterns leaves.
Served(m, p, patterns) ==
  /\ m \in Outcomes(patterns)
  /\ m.found =>
       /\ OwnersFit(m.owner, patterns) /\ OneEach(m.owner, DOMAIN calls)
       /\ \A q \in DOMAIN patterns : (\E n \in DOMAIN calls : m.owner[n] = q) <=> q <= p
  /\ ~m.found => ~Assignable(patterns)

\* Before the first pattern nobody has a call.
LEMMA NobodyServed ==
  ASSUME NEW patterns, Sized(patterns), NEW s
  PROVE  Served(Serve(s, 0, patterns), 0, patterns)
<1> DEFINE none == [n \in DOMAIN calls |-> 0]
           m == [found |-> TRUE, owner |-> none, visited |-> {}]
<1>1. Serve(s, 0, patterns) = m
  BY DEF Serve
<1>2. none \in [DOMAIN calls -> 0..Len(patterns)] /\ \A n \in DOMAIN calls : none[n] = 0
  BY DEF Sized
<1> HIDE DEF none
<1>3. m \in Outcomes(patterns) /\ m.found /\ m.owner = none
  BY <1>2 DEF Outcomes
<1>4. \A q \in DOMAIN patterns : ~(q <= 0) /\ q # 0
  BY DEF Sized
<1> HIDE DEF m
<1> QED BY <1>1, <1>2, <1>3, <1>4 DEF Served, OwnersFit, OneEach

\* Each pattern is served by a try of its own.
LEMMA NextServed ==
  ASSUME NEW patterns, Sized(patterns), NEW s, NEW p \in DOMAIN patterns,
         Served(s[p - 1], p - 1, patterns)
  PROVE  Served(Serve(s, p, patterns), p, patterns)
<1> DEFINE m == s[p - 1]
           try == [pattern |-> p, owner |-> m.owner, visited |-> {}, next |-> 1]
           o == Assign(patterns)[try]
<1>1. p \in Nat /\ p # 0 /\ p - 1 \in Nat
  BY DEF Sized
<1>2. CASE ~m.found
  <2>1. Serve(s, p, patterns) = m
    BY <1>1, <1>2 DEF Serve
  <2> QED BY <1>2, <2>1 DEF Served
<1>3. CASE m.found
  <2>1. Serve(s, p, patterns) = o
    BY <1>1, <1>3 DEF Serve
  <2>2. m.owner \in [DOMAIN calls -> 0..Len(patterns)]
    BY DEF Served, Outcomes
  <2>3. /\ try \in Tries(patterns)
        /\ try.pattern = p /\ try.owner = m.owner /\ try.visited = {} /\ try.next = 1
    BY <2>2 DEF Tries, Sized
  <2>4. Unvisited(try) = DOMAIN calls
    BY <2>3 DEF Unvisited
  <2> HIDE DEF try
  <2>5. ~(p <= p - 1)
    BY <1>1
  <2>6. /\ OwnersFit(m.owner, patterns) /\ OneEach(m.owner, DOMAIN calls)
        /\ \A q \in DOMAIN patterns : (\E n \in DOMAIN calls : m.owner[n] = q) <=> q <= p - 1
    BY <1>3 DEF Served
  <2>7. WellTried(try, patterns)
    BY <2>3, <2>4, <2>5, <2>6 DEF WellTried
  <2>8. o \in Outcomes(patterns) /\ RightAnswer(try, o, patterns)
    BY <2>3, <2>7, AssignLooks, AssignIsRight
  <2> HIDE DEF o
  <2>9. ASSUME o.found
        PROVE  /\ OwnersFit(o.owner, patterns) /\ OneEach(o.owner, DOMAIN calls)
               /\ \A q \in DOMAIN patterns : (\E n \in DOMAIN calls : o.owner[n] = q) <=> q <= p
    <3>1. Won(try, o, patterns) /\ OwnersFit(o.owner, patterns)
      BY <2>8, <2>9 DEF RightAnswer
    <3>2. ASSUME NEW q \in DOMAIN patterns
          PROVE  (\E n \in DOMAIN calls : o.owner[n] = q) <=> q <= p
      <4>1. (\E n \in DOMAIN calls : o.owner[n] = q) <=> (q = p \/ q <= p - 1)
        BY <2>3, <2>4, <2>6, <3>1 DEF Won
      <4>2. (q = p \/ q <= p - 1) <=> q <= p
        BY <1>1 DEF Sized
      <4> QED BY <4>1, <4>2
    <3> QED BY <2>4, <3>1, <3>2 DEF Won
  <2>10. ASSUME ~o.found PROVE ~Assignable(patterns)
    <3>1. Lost(try, o, patterns)
      BY <2>8, <2>10 DEF RightAnswer
    <3> QED BY <2>3, <2>7, <2>8, <3>1, LostIsHopeless
  <2> QED BY <2>1, <2>8, <2>9, <2>10 DEF Served
<1> QED BY <1>2, <1>3

\* served does what its body says for the patterns before k.
ServesBelow(s, k, patterns) ==
  /\ s = [p \in 0..Len(patterns) |-> s[p]]
  /\ \A p \in 0..Len(patterns) : p < k => s[p] = Serve(s, p, patterns)

\* Serving the patterns in turn is well defined.
LEMMA ServiceExists ==
  ASSUME NEW patterns, Sized(patterns)
  PROVE  \E s : s = [p \in 0..Len(patterns) |-> Serve(s, p, patterns)]
<1> DEFINE Unserved == {k \in Nat : ~ \E s : ServesBelow(s, k, patterns)}
<1>1. Unserved = {}
  <2> SUFFICES ASSUME Unserved # {} PROVE FALSE
    OBVIOUS
  <2>1. PICK k \in Unserved : \A j \in Unserved : k <= j
    <3>1. Unserved \subseteq Nat
      OBVIOUS
    <3> HIDE DEF Unserved
    <3> QED BY <3>1, LeastElement
  <2>2. k \in Nat /\ ~ \E s : ServesBelow(s, k, patterns)
    OBVIOUS
  <2>3. k # 0
    <3> DEFINE s == [p \in 0..Len(patterns) |-> 0]
    <3>1. s = [p \in 0..Len(patterns) |-> s[p]] /\ \A p \in 0..Len(patterns) : ~(p < 0)
      OBVIOUS
    <3> HIDE DEF s
    <3>2. ServesBelow(s, 0, patterns)
      BY <3>1 DEF ServesBelow
    <3> QED BY <2>2, <3>2
  <2>4. k - 1 \in Nat /\ k - 1 \notin Unserved
    <3>1. k - 1 \in Nat /\ ~ (k <= k - 1)
      BY <2>2, <2>3
    <3> HIDE DEF Unserved
    <3> QED BY <3>1, <2>1
  <2>5. PICK s : ServesBelow(s, k - 1, patterns)
    BY <2>4
  <2> DEFINE g == [p \in 0..Len(patterns) |-> Serve(s, p, patterns)]
  <2>6. ASSUME NEW p \in 0..Len(patterns), p < k PROVE g[p] = Serve(g, p, patterns)
    <3>1. g[p] = Serve(s, p, patterns)
      OBVIOUS
    <3>2. p # 0 => s[p - 1] = g[p - 1]
      <4>1. p # 0 => p - 1 \in 0..Len(patterns) /\ p - 1 < k - 1
        BY <2>2, <2>6 DEF Sized
      <4> QED BY <2>5, <4>1 DEF ServesBelow
    <3> HIDE DEF g
    <3>3. Serve(s, p, patterns) = Serve(g, p, patterns)
      BY <3>2 DEF Serve
    <3> QED BY <3>1, <3>3
  <2>7. g = [p \in 0..Len(patterns) |-> g[p]]
    OBVIOUS
  <2> HIDE DEF g
  <2>8. ServesBelow(g, k, patterns)
    BY <2>6, <2>7 DEF ServesBelow
  <2> QED BY <2>2, <2>8
<1>2. PICK s : ServesBelow(s, Len(patterns) + 1, patterns)
  <2> DEFINE k == Len(patterns) + 1
  <2>1. k \in Nat
    BY DEF Sized
  <2> HIDE DEF k
  <2>2. \E s : ServesBelow(s, k, patterns)
    BY <1>1, <2>1
  <2> QED BY <2>2 DEF k
<1>3. \A p \in 0..Len(patterns) : p < Len(patterns) + 1
  BY DEF Sized
<1> QED BY <1>2, <1>3 DEF ServesBelow

\* _expected_calls_present says whether there is an assignment.
LEMMA PresentIsAssignable ==
  ASSUME NEW patterns, Sized(patterns)
  PROVE  ExpectedCallsPresent(patterns) <=> Assignable(patterns)
<1> DEFINE s == CHOOSE s : s = [p \in 0..Len(patterns) |-> Serve(s, p, patterns)]
           Bad == {p \in 0..Len(patterns) : ~Served(s[p], p, patterns)}
           m == s[Len(patterns)]
<1>1. s = [p \in 0..Len(patterns) |-> Serve(s, p, patterns)]
  BY ServiceExists, Zenon
<1>2. ExpectedCallsPresent(patterns) = m.found
  BY DEF ExpectedCallsPresent
<1> HIDE DEF s
<1>3. Bad = {}
  <2> SUFFICES ASSUME Bad # {} PROVE FALSE
    OBVIOUS
  <2>1. PICK p \in Bad : \A q \in Bad : p <= q
    <3>1. Bad \subseteq Nat
      OBVIOUS
    <3> HIDE DEF Bad
    <3> QED BY <3>1, LeastElement
  <2>2. p \in 0..Len(patterns) /\ ~Served(s[p], p, patterns) /\ s[p] = Serve(s, p, patterns)
    BY <1>1
  <2>3. p # 0
    BY <2>2, NobodyServed
  <2>4. p \in DOMAIN patterns /\ p - 1 \in 0..Len(patterns) /\ ~(p <= p - 1)
    BY <2>2, <2>3 DEF Sized
  <2>5. Served(s[p - 1], p - 1, patterns)
    <3>1. p - 1 \notin Bad
      <4> HIDE DEF Bad
      <4> QED BY <2>1, <2>4
    <3> QED BY <2>4, <3>1
  <2> QED BY <2>2, <2>4, <2>5, NextServed
<1>4. Served(m, Len(patterns), patterns)
  BY <1>3 DEF Sized
<1> HIDE DEF m
<1>5. ASSUME m.found PROVE Assignable(patterns)
  <2>1. \A q \in DOMAIN patterns : \E n \in DOMAIN calls : m.owner[n] = q
    BY <1>4, <1>5 DEF Served, Sized
  <2> DEFINE f == [q \in DOMAIN patterns |-> CHOOSE n \in DOMAIN calls : m.owner[n] = q]
  <2>2. \A q \in DOMAIN patterns : f[q] \in DOMAIN calls /\ m.owner[f[q]] = q
    BY <2>1, Zenon
  <2>3. f \in [DOMAIN patterns -> DOMAIN calls]
    BY <2>2
  <2> HIDE DEF f
  <2>4. \A q \in DOMAIN patterns : q # 0
    BY DEF Sized
  <2>5. \A q \in DOMAIN patterns : Matches(calls[f[q]], patterns[q])
    BY <1>4, <1>5, <2>2, <2>4 DEF Served, OwnersFit
  <2>6. \A p, q \in DOMAIN patterns : f[p] = f[q] => p = q
    BY <2>2
  <2> QED BY <2>3, <2>5, <2>6 DEF Assignable
<1> QED BY <1>2, <1>4, <1>5 DEF Served

-----------------------------------------------------------------------------
(* What a verdict says *)

\* A failure is noticed under its name for its reason.
LEMMA NoticedAre ==
  ASSUME NEW end
  PROVE  /\ "budget_failure" \in Noticed(end) <=> end.status # "ok" \/ OverBudget(end)
         /\ "selection_failure" \in Noticed(end) <=> Missing(end) # {}
         /\ "temporal_failure" \in Noticed(end) <=> TemporalVersionCorrect = FALSE
         /\ "constraint_failure" \in Noticed(end) <=>
              Forbidden \/ \E r \in scenario.rules : Violated(r)
         /\ "approval_failure" \in Noticed(end) <=> \E a \in Approvals : ~ApprovalCorrect(a)
         /\ "state_omission" \in Noticed(end) <=> \E s \in scenario.states : Omitted(s)
         /\ "stale_state_usage" \in Noticed(end) <=>
              \E s \in scenario.states : Wrong(s) \cap Stale(s) # {}
         /\ "state_error" \in Noticed(end) <=> \E s \in scenario.states : Wrong(s) \ Stale(s) # {}
         /\ Noticed(end) \subseteq
              {"budget_failure", "selection_failure", "budget_selection_failure",
               "temporal_failure", "constraint_failure", "approval_failure",
               "state_omission", "stale_state_usage", "state_error"}
<1> DEFINE Named(noticed, name) == IF noticed THEN {name} ELSE {}
<1>1. Noticed(end) =
        UNION {Named(end.status # "ok" \/ OverBudget(end), "budget_failure"),
               Named(Missing(end) # {}, "selection_failure"),
               Named(BudgetSelectionFailure(end) = TRUE, "budget_selection_failure"),
               Named(TemporalVersionCorrect = FALSE, "temporal_failure"),
               Named(Forbidden \/ \E r \in scenario.rules : Violated(r), "constraint_failure"),
               Named(\E a \in Approvals : ~ApprovalCorrect(a), "approval_failure"),
               Named(\E s \in scenario.states : Omitted(s), "state_omission"),
               Named(\E s \in scenario.states : Wrong(s) \cap Stale(s) # {}, "stale_state_usage"),
               Named(\E s \in scenario.states : Wrong(s) \ Stale(s) # {}, "state_error")}
  BY DEF Noticed
<1>2. ASSUME NEW A, NEW B, NEW C, NEW D, NEW E, NEW F, NEW G, NEW H, NEW I
      PROVE  \A x : x \in UNION {A, B, C, D, E, F, G, H, I} <=>
               \/ x \in A \/ x \in B \/ x \in C \/ x \in D \/ x \in E
               \/ x \in F \/ x \in G \/ x \in H \/ x \in I
  OBVIOUS
<1>3. \A x : x \in Noticed(end) <=>
        \/ x = "budget_failure" /\ (end.status # "ok" \/ OverBudget(end))
        \/ x = "selection_failure" /\ Missing(end) # {}
        \/ x = "budget_selection_failure" /\ BudgetSelectionFailure(end) = TRUE
        \/ x = "temporal_failure" /\ TemporalVersionCorrect = FALSE
        \/ x = "constraint_failure" /\ (Forbidden \/ \E r \in scenario.rules : Violated(r))
        \/ x = "approval_failure" /\ \E a \in Approvals : ~ApprovalCorrect(a)
        \/ x = "state_omission" /\ \E s \in scenario.states : Omitted(s)
        \/ x = "stale_state_usage" /\ \E s \in scenario.states : Wrong(s) \cap Stale(s) # {}
        \/ x = "state_error" /\ \E s \in scenario.states : Wrong(s) \ Stale(s) # {}
  BY <1>1, <1>2
<1> QED BY <1>3

\* The reasoning is at fault when nothing else is.
LEMMA FailuresAre ==
  ASSUME NEW end
  PROVE  /\ Noticed(end) # {} \/ Success(end) => Failures(end) = Noticed(end)
         /\ end.status = "ok" /\ ~Success(end) /\ Missing(end) = {} /\ Noticed(end) = {} =>
              Failures(end) = {"reasoning_action_failure"}
  BY DEF Failures

\* A run that did not succeed has a cause.
LEMMA FailureHasCause ==
  ASSUME NEW end, ~Success(end)
  PROVE  Failures(end) # {}
<1>1. end.status # "ok" \/ Missing(end) # {} => Noticed(end) # {}
  BY NoticedAre
<1> QED BY <1>1, FailuresAre

\* A run that succeeded has no cause but in the selection of the memories.
LEMMA SuccessHasNone ==
  ASSUME NEW end, Success(end)
  PROVE  Failures(end) \subseteq {"selection_failure", "budget_selection_failure"}
<1>1. /\ end.status = "ok" /\ ~OverBudget(end) /\ AllCorrect
      /\ ~Forbidden /\ \A r \in scenario.rules : ~Violated(r)
      /\ \A a \in Approvals : ApprovalCorrect(a)
  BY DEF Success
<1>2. TemporalVersionCorrect # FALSE
  BY <1>1, EvaluationAssumption DEF TemporalVersionCorrect
<1>3. \A s \in scenario.states : ~Omitted(s) /\ Wrong(s) = {}
  BY <1>1 DEF AllCorrect, Correct
<1>4. \A s \in scenario.states : Wrong(s) \cap Stale(s) = {} /\ Wrong(s) \ Stale(s) = {}
  BY <1>3
<1>5. {"budget_failure", "temporal_failure", "constraint_failure", "approval_failure",
       "state_omission", "stale_state_usage", "state_error"} \cap Noticed(end) = {}
  <2>1. "budget_failure" \notin Noticed(end) /\ "temporal_failure" \notin Noticed(end)
    BY <1>1, <1>2, NoticedAre
  <2>2. "constraint_failure" \notin Noticed(end) /\ "approval_failure" \notin Noticed(end)
    BY <1>1, NoticedAre
  <2>3. /\ "state_omission" \notin Noticed(end) /\ "stale_state_usage" \notin Noticed(end)
        /\ "state_error" \notin Noticed(end)
    BY <1>3, <1>4, NoticedAre
  <2> QED BY <2>1, <2>2, <2>3
<1>6. Failures(end) = Noticed(end)
  BY FailuresAre
<1>7. Noticed(end) \subseteq
        {"budget_failure", "selection_failure", "budget_selection_failure",
         "temporal_failure", "constraint_failure", "approval_failure",
         "state_omission", "stale_state_usage", "state_error"}
  BY NoticedAre
<1> QED BY <1>5, <1>6, <1>7

\* A mistake is noticed, and spoils the run.
LEMMA MistakeIsNoticed ==
  ASSUME NEW end, NEW n \in DOMAIN calls, Mistake(calls[n])
  PROVE  ~Success(end) /\ Failures(end) # {"reasoning_action_failure"}
<1> SUFFICES /\ ~Success(end)
             /\ \E x \in Noticed(end) : x # "reasoning_action_failure"
  BY FailuresAre
<1>1. CASE \E p \in scenario.forbidden \cup UNION {r.forbidden : r \in scenario.rules} :
             Matches(calls[n], p)
  <2>1. Forbidden \/ \E r \in scenario.rules : Violated(r)
    <3>1. PICK p \in scenario.forbidden \cup UNION {r.forbidden : r \in scenario.rules} :
            Matches(calls[n], p)
      BY <1>1
    <3>2. Made(p)
      BY <3>1 DEF Made
    <3>3. p \in scenario.forbidden \/ \E r \in scenario.rules : p \in r.forbidden
      BY <3>1
    <3> QED BY <3>2, <3>3 DEF Forbidden, Violated, MadeOneOf
  <2> QED BY <2>1, NoticedAre DEF Success
<1>2. CASE \E a \in Approvals :
             Matches(calls[n], a.execution) /\ ~\E id \in a.valid : Matches(calls[n], [approval |-> id])
  <2>1. PICK a \in Approvals :
          Matches(calls[n], a.execution) /\ ~\E id \in a.valid : Matches(calls[n], [approval |-> id])
    BY <1>2
  <2>2. "approval" \in DOMAIN calls[n] => calls[n]["approval"] \notin a.valid
    <3>1. \A id : "approval" \in DOMAIN calls[n] /\ calls[n]["approval"] = id =>
            Matches(calls[n], [approval |-> id])
      BY DEF Matches
    <3> QED BY <2>1, <3>1
  <2>3. ~ApprovalCorrect(a)
    BY <2>1, <2>2 DEF ApprovalCorrect, Unauthorized
  <2> QED BY <2>3, NoticedAre DEF Success
<1>3. CASE \E s \in scenario.states :
             Matches(calls[n], s.call) /\ (s.argument \in DOMAIN calls[n] => calls[n][s.argument] # s.expected)
  <2>1. PICK s \in scenario.states :
          Matches(calls[n], s.call) /\ (s.argument \in DOMAIN calls[n] => calls[n][s.argument] # s.expected)
    BY <1>3
  <2>2. CASE s.argument \notin DOMAIN calls[n]
    <3>1. n \in Relevant(s) /\ n \notin Given(s)
      BY <2>1, <2>2 DEF Relevant, Given
    <3>2. Omitted(s)
      BY <3>1 DEF Omitted
    <3> QED BY <3>2, NoticedAre DEF Success, AllCorrect, Correct
  <2>3. CASE s.argument \in DOMAIN calls[n]
    <3>1. n \in Given(s)
      BY <2>1, <2>3 DEF Relevant, Given
    <3>2. Wrong(s) # {}
      BY <2>1, <2>3, <3>1 DEF Wrong
    <3>3. Wrong(s) \cap Stale(s) # {} \/ Wrong(s) \ Stale(s) # {}
      BY <3>2
    <3> QED BY <3>2, <3>3, NoticedAre DEF Success, AllCorrect, Correct
  <2> QED BY <2>2, <2>3
<1> QED BY <1>1, <1>2, <1>3 DEF Mistake

-----------------------------------------------------------------------------

\* The calls are a sequence; what was judged was judged by them.
JudgementInv ==
  /\ scenario \in Scenario /\ calls \in Seq(Call)
  /\ MatchingExact /\ VerdictExplained

\* The expected calls of a scenario and the calls of a run are finite sequences.
LEMMA ExpectedSized ==
  ASSUME scenario \in Scenario, calls \in Seq(Call)
  PROVE  Sized(scenario.expected)
  BY EvaluationAssumption DEF Sized, ScenarioShape

\* The verdict says what the properties ask of it.
LEMMA EvaluateKeeps ==
  ASSUME JudgementInv, NEW end \in End, Evaluate(end)
  PROVE  JudgementInv'
<1>1. scenario' = scenario /\ calls' = calls /\ scenario \in Scenario /\ calls \in Seq(Call)
  BY DEF Evaluate, JudgementInv
<1>2. Judged' => result' = Verdict(end)
  BY DEF Evaluate, Judged
<1>3. Judged' => /\ result'.success = Success(end) /\ result'.failures = Failures(end)
                 /\ result'.expected = ExpectedCallsPresent(scenario.expected)
  BY <1>2 DEF Verdict
<1>4. MatchingExact'
  <2>1. ExpectedCallsPresent(scenario.expected) <=> Assignable(scenario.expected)
    BY <1>1, ExpectedSized, PresentIsAssignable
  <2>2. Judged' => (result'.expected <=> Assignable(scenario.expected))
    BY <1>3, <2>1
  <2> QED BY <1>1, <2>2 DEF MatchingExact, Assignable, Matches
<1>5. VerdictExplained'
  <2>1. \A n \in DOMAIN calls : Mistake(calls[n])' <=> Mistake(calls[n])
    BY <1>1 DEF Mistake, Approvals, Matches
  <2>2. Judged' =>
          /\ ~result'.success => result'.failures # {}
          /\ result'.success => result'.failures \subseteq {"selection_failure", "budget_selection_failure"}
          /\ (\E n \in DOMAIN calls : Mistake(calls[n])) =>
               ~result'.success /\ result'.failures # {"reasoning_action_failure"}
    BY <1>3, FailureHasCause, SuccessHasNone, MistakeIsNoticed
  <2> QED BY <1>1, <2>1, <2>2 DEF VerdictExplained
<1> QED BY <1>1, <1>4, <1>5 DEF JudgementInv

\* The judgement stays in the inductive invariant.
LEMMA JudgementInvariance == Spec => []JudgementInv
<1>1. Init => JudgementInv
  BY DEF Init, JudgementInv, MatchingExact, VerdictExplained, Judged
<1>2. ASSUME JudgementInv, NEW call \in Tried[scenario], Act(call) PROVE JudgementInv'
  <2>1. call \in Call
    BY <1>2, EvaluationAssumption DEF JudgementInv
  <2>2. calls' \in Seq(Call) /\ scenario' \in Scenario /\ ~Judged'
    BY <1>2, <2>1 DEF JudgementInv, Act, Judged
  <2> QED BY <2>2 DEF JudgementInv, MatchingExact, VerdictExplained
<1>3. ASSUME JudgementInv, UNCHANGED vars PROVE JudgementInv'
  <2>1. scenario' = scenario /\ calls' = calls /\ result' = result
    BY <1>3 DEF vars
  <2>2. MatchingExact'
    BY <1>3, <2>1 DEF JudgementInv, MatchingExact, Judged, Matches
  <2>3. (\E n \in DOMAIN calls : Mistake(calls[n]))' <=> \E n \in DOMAIN calls : Mistake(calls[n])
    BY <2>1 DEF Mistake, Approvals, Matches
  <2>4. VerdictExplained'
    BY <1>3, <2>1, <2>3 DEF JudgementInv, VerdictExplained, Judged
  <2> QED BY <1>3, <2>1, <2>2, <2>4 DEF JudgementInv
<1>4. JudgementInv /\ [Next]_vars => JudgementInv'
  BY <1>2, <1>3, EvaluateKeeps DEF Next
<1> QED BY <1>1, <1>4, PTL DEF Spec

-----------------------------------------------------------------------------
(* The theorems about Evaluation *)

\* assign: whatever the calls, the patterns and the order of both, the search
\* for a call of its own for each expected call finds an assignment if there is one.
THEOREM MatchingIsExact == Spec => []MatchingExact
<1>1. JudgementInv => MatchingExact
  BY DEF JudgementInv
<1> QED BY <1>1, JudgementInvariance, PTL

\* evaluate: every failed run has a recorded cause, a successful one only such
\* as tell of the selected memories, and no later call makes up for a mistake.
THEOREM VerdictsAreExplained == Spec => []VerdictExplained
<1>1. JudgementInv => VerdictExplained
  BY DEF JudgementInv
<1> QED BY <1>1, JudgementInvariance, PTL

=============================================================================
