------------------------------ MODULE FitText ------------------------------
(***************************************************************************)
(* benchmark/generator.py, _fit_text: how many words of filling bring a    *)
(* text to a wanted number of tokens.  The length is doubled until the     *)
(* text is large enough and then halved in.  The counter is whatever the   *)
(* caller passed: it need not be monotone and need not stop at one token   *)
(* per word.                                                               *)
(***************************************************************************)
EXTENDS Integers, FiniteSetsExt

CONSTANTS Counter,      \* Counter: functions from lengths 0..n to token counts
          Target,       \* the wanted numbers of tokens
          Tolerance,
          Longest,      \* 1024 in the code: no length beyond it is tried ...
          Factor,       \* 32: ... nor beyond so many words per wanted token
          Shortest,     \* 32: from here on filling has to count for something
          Rounds        \* 20: the doublings

ASSUME FitAssumption ==
  /\ Target \subseteq Nat /\ Counter # {}
  /\ \A c \in Counter : /\ Max(DOMAIN c) \in Nat /\ DOMAIN c = 0..Max(DOMAIN c)
                        /\ \A n \in DOMAIN c : c[n] \in Nat
  /\ Tolerance \in Nat /\ Longest \in Nat \ {0} /\ Factor \in Nat \ {0}
  /\ Shortest \in Nat /\ Rounds \in Nat \ {0}

VARIABLES
  phase,       \* "start", "grow", "bisect", or how _fit_text ended
  count,       \* the tokens of a text with so many words of filling
  target,
  low, high,   \* the lengths in between which the search goes on
  best,        \* the nearest length so far
  round,       \* the doublings so far
  length,      \* the length returned
  tried        \* history: the longest length measured

search == <<low, high, best, round>>
fitting == <<phase, count, target, search, length, tried>>

\* A counter stays where it is beyond the lengths it is given for.
Tokens(n) == count[Min({n, Max(DOMAIN count)})]

Distance(n) == IF Tokens(n) < target THEN target - Tokens(n) ELSE Tokens(n) - target

Near(n) == Distance(n) <= Tolerance

Nearest(n) == IF Distance(n) < Distance(best) THEN n ELSE best

Measure(n) == tried' = Max({tried, n})

Return(n) ==
  /\ phase' = "fits" /\ length' = n
  /\ UNCHANGED <<count, target, search>>

\* ValueError
Refuse ==
  /\ phase' = "refused"
  /\ UNCHANGED <<count, target, search, length>>

-----------------------------------------------------------------------------

\* The bare text: too long already, just right, or to be filled.
Start ==
  /\ phase = "start"
  /\ Measure(0)
  /\ \/ Tokens(0) > target + Tolerance /\ Refuse
     \/ Near(0) /\ Return(0)
     \/ /\ ~Near(0) /\ Tokens(0) <= target
        /\ low' = 0 /\ high' = Max({1, target - Tokens(0)})
        /\ best' = 0 /\ round' = 0
        /\ phase' = "grow"
        /\ UNCHANGED <<count, target, length>>

TooLong == round = Rounds \/ high > Max({Longest, target * Factor})

Flat == Tokens(high) <= Tokens(0) /\ high >= Max({Shortest, target})

\* The loop is left, or its end reached, without a text that is large enough.
GiveUp ==
  /\ phase = "grow" /\ TooLong
  /\ UNCHANGED tried
  /\ Refuse

Grow ==
  /\ phase = "grow" /\ ~TooLong
  /\ Measure(high)
  /\ \/ Flat /\ Refuse
     \/ ~Flat /\ Near(high) /\ Return(high)
     \/ /\ ~Flat /\ ~Near(high)
        /\ best' = Nearest(high)
        /\ IF Tokens(high) >= target
           THEN phase' = "bisect" /\ UNCHANGED <<low, high, round>>
           ELSE low' = high /\ high' = 2 * high /\ round' = round + 1 /\ UNCHANGED phase
        /\ UNCHANGED <<count, target, length>>

Middle == (high + low) \div 2

\* Faulty variant: the upper half starts behind the middle, the lower before it.
NarrowPast ==
  IF Tokens(Middle) < target THEN low' = Middle + 1 /\ UNCHANGED high
  ELSE high' = Middle - 1 /\ UNCHANGED low

Narrow ==
  IF Tokens(Middle) < target THEN low' = Middle /\ UNCHANGED high
  ELSE high' = Middle /\ UNCHANGED low

Bisect ==
  /\ phase = "bisect" /\ high - low > 1
  /\ Measure(Middle)
  /\ \/ Near(Middle) /\ Return(Middle)
     \/ /\ ~Near(Middle)
        /\ best' = Nearest(Middle)
        /\ Narrow
        /\ UNCHANGED <<phase, count, target, round, length>>

\* Nothing is left between the bounds: the best length has to do.
Settle ==
  /\ phase = "bisect" /\ high - low <= 1
  /\ UNCHANGED tried
  /\ IF Near(best) THEN Return(best) ELSE Refuse

-----------------------------------------------------------------------------

FitInit ==
  /\ phase = "start"
  /\ count \in Counter /\ target \in Target
  /\ low = 0 /\ high = 0 /\ best = 0 /\ round = 0 /\ length = 0 /\ tried = 0

FitNext == Start \/ GiveUp \/ Grow \/ Bisect \/ Settle

FitSpec == FitInit /\ [][FitNext]_fitting

-----------------------------------------------------------------------------
(* Properties *)

Monotone == \A m, n \in DOMAIN count : m <= n => count[m] <= count[n]

\* _fit_text: a length that is returned is within the tolerance for every
\* counter, and a counter that never falls is refused only if no length up to
\* the longest one measured would have been within it: doubling and halving
\* step over no length that fits.
FitIsRight ==
  /\ phase = "fits" => Near(length)
  /\ phase = "refused" /\ Monotone => \A n \in 0..tried : ~Near(n)

=============================================================================
