----------------------------- MODULE SetLemmas -----------------------------
(***************************************************************************)
(* Facts about finite sets that the proofs about the models share: least,  *)
(* largest and n-th elements, and what MapThenSumSet computes, the sums of *)
(* tokens that the budgets are compared with.                              *)
(*                                                                         *)
(* A lemma cannot take the property of an induction as a parameter here.   *)
(* The inductions go by a least counterexample, which LeastElement gives.  *)
(***************************************************************************)
EXTENDS Integers, FiniteSetsExt, FiniteSetTheorems, WellFoundedInduction, TLAPS

\* The tokens of the records in S; Cost in the modules that pay with them.
TokenSum(S) == MapThenSumSet(LAMBDA m : m.tokens, S)

\* The entries of w at the places in S.
EntrySum(w, S) == MapThenSumSet(LAMBDA n : w[n], S)

\* The element that a fold takes out of s next.
Drawn(s) == CHOOSE x \in s : TRUE

\* it sums w over every subset of S, the way MapThenFoldSet does.
Sums(it, S, w) ==
  it = [s \in SUBSET S |-> IF s = {} THEN 0 ELSE w[Drawn(s)] + it[s \ {Drawn(s)}]]

-----------------------------------------------------------------------------
(* Least, largest and n-th elements *)

\* A set of natural numbers that is not empty has a least element.
LEMMA LeastElement ==
  ASSUME NEW T, T \subseteq Nat, T # {}
  PROVE  \E x \in T : \A y \in T : x <= y
<1>1. \E x \in T : \A y \in T : ~ (<<y, x>> \in OpToRel(<, Nat))
  BY NatLessThanWellFounded, WFMin, Zenon
<1>2. PICK x \in T : \A y \in T : ~ (<<y, x>> \in OpToRel(<, Nat))
  BY <1>1
<1>3. \A y \in T : <<y, x>> \in OpToRel(<, Nat) <=> y < x
  BY DEF OpToRel
<1>4. \A y \in T : ~ (y < x)
  BY <1>2, <1>3, Zenon
<1> QED BY <1>4

\* A bounded set of natural numbers that is not empty has a greatest element.
LEMMA GreatestElement ==
  ASSUME NEW T, T \subseteq Nat, T # {}, NEW bound \in Nat, \A x \in T : x <= bound
  PROVE  \E x \in T : \A y \in T : y <= x
<1> DEFINE Gaps == {bound - x : x \in T}
<1>0. \A x \in T : x \in Nat /\ bound - x \in Nat
  OBVIOUS
<1>1. Gaps \subseteq Nat /\ Gaps # {}
  BY <1>0
<1>2. PICK g \in Gaps : \A h \in Gaps : g <= h
  <2> HIDE DEF Gaps
  <2> QED BY <1>1, LeastElement
<1>3. PICK x \in T : g = bound - x
  BY <1>2
<1>4. ASSUME NEW y \in T PROVE y <= x
  <2>1. bound - y \in Gaps
    OBVIOUS
  <2>2. bound - x <= bound - y
    BY <1>2, <1>3, <2>1
  <2>3. x \in Nat /\ y \in Nat
    BY <1>0
  <2> QED BY <2>2, <2>3
<1> QED BY <1>4

\* A smaller set: the induction step of all that follows.
LEMMA TakeOut ==
  ASSUME NEW s, IsFiniteSet(s), NEW x \in s
  PROVE  /\ IsFiniteSet(s \ {x})
         /\ Cardinality(s) \in Nat /\ Cardinality(s \ {x}) \in Nat
         /\ Cardinality(s \ {x}) < Cardinality(s)
<1>1. IsFiniteSet(s \ {x}) /\ Cardinality(s \ {x}) = Cardinality(s) - 1
  BY FS_RemoveElement
<1>2. Cardinality(s) \in Nat /\ Cardinality(s \ {x}) \in Nat
  BY <1>1, FS_CardinalityType
<1> QED BY <1>1, <1>2

\* The n-th place of a set of places.
LEMMA NthElement ==
  ASSUME NEW len \in Nat, NEW K, K \subseteq 1..len, NEW n \in 1..Cardinality(K)
  PROVE  \E k \in K : Cardinality({j \in K : j < k}) = n - 1
<1> DEFINE Below(k) == {j \in K : j < k}
           Enough == {k \in K : n - 1 <= Cardinality(Below(k))}
<1>1. IsFiniteSet(K) /\ Cardinality(K) \in Nat /\ \A k \in K : k \in Nat /\ k <= len
  <2>1. IsFiniteSet(1..len)
    BY FS_Interval
  <2>2. IsFiniteSet(K)
    BY <2>1, FS_Subset
  <2> QED BY <2>2, FS_CardinalityType
<1>2. \A k : IsFiniteSet(Below(k)) /\ Cardinality(Below(k)) \in Nat
  BY <1>1, FS_Subset, FS_CardinalityType
<1>3. K # {}
  BY FS_EmptySet
<1>4. PICK top \in K : \A j \in K : j <= top
  <2>1. K \subseteq Nat
    BY <1>1
  <2> QED BY <1>1, <1>3, <2>1, GreatestElement
<1>5. top \in Enough
  <2>1. Below(top) = K \ {top}
    <3>1. ASSUME NEW j \in K PROVE j < top <=> j # top
      BY <1>1, <1>4
    <3> QED BY <3>1
  <2>2. Cardinality(K \ {top}) = Cardinality(K) - 1
    BY <1>1, <1>4, FS_RemoveElement
  <2>3. Cardinality(Below(top)) = Cardinality(K) - 1
    BY <2>1, <2>2
  <2> HIDE DEF Below
  <2> QED BY <1>1, <2>3
<1>6. PICK k \in Enough : \A l \in Enough : k <= l
  <2>1. Enough \subseteq Nat /\ Enough # {}
    BY <1>1, <1>5
  <2> HIDE DEF Enough
  <2> QED BY <2>1, LeastElement
<1>7. k \in K /\ k \in Nat /\ n - 1 <= Cardinality(Below(k))
  BY <1>1, <1>6
<1>8. SUFFICES ASSUME Cardinality(Below(k)) # n - 1 PROVE FALSE
  BY <1>7
<1>9. Below(k) # {}
  BY <1>2, <1>7, <1>8, FS_EmptySet
<1>10. PICK l \in Below(k) : \A j \in Below(k) : j <= l
  <2>1. \A j \in Below(k) : j \in Nat /\ j <= k
    BY <1>1, <1>7
  <2>2. Below(k) \subseteq Nat
    BY <2>1
  <2> HIDE DEF Below
  <2> QED BY <1>7, <1>9, <2>1, <2>2, GreatestElement
<1>11. Below(l) = Below(k) \ {l}
  <2>1. ASSUME NEW j \in K PROVE j < l <=> j < k /\ j # l
    <3>1. j < k => j <= l
      BY <1>10
    <3>2. j \in Nat /\ l \in Nat /\ k \in Nat /\ l < k
      BY <1>1, <1>7, <1>10
    <3> HIDE DEF Below
    <3> QED BY <3>1, <3>2
  <2> QED BY <2>1
<1>12. Cardinality(Below(l)) = Cardinality(Below(k)) - 1
  <2>1. Cardinality(Below(k) \ {l}) = Cardinality(Below(k)) - 1
    <3> HIDE DEF Below
    <3> QED BY <1>2, <1>10, FS_RemoveElement
  <2> QED BY <1>11, <2>1
<1>13. l \in K /\ l < k /\ l \in Nat
  BY <1>1, <1>10
<1>14. n - 1 <= Cardinality(Below(l))
  <2> HIDE DEF Below
  <2> QED BY <1>2, <1>7, <1>8, <1>12
<1>15. l \in Enough
  BY <1>13, <1>14
<1> HIDE DEF Below, Enough
<1> QED BY <1>6, <1>7, <1>13, <1>15

-----------------------------------------------------------------------------
(* Sums exist, and there is only one *)

LEMMA DrawnIn == ASSUME NEW s, s # {} PROVE Drawn(s) \in s
BY DEF Drawn

\* Two sums over the same entries agree.
LEMMA SumsAgree ==
  ASSUME NEW S, NEW T, NEW v, NEW w, NEW i, NEW j, Sums(i, S, v), Sums(j, T, w),
         NEW r, r \subseteq S, r \subseteq T, IsFiniteSet(r), \A x \in r : v[x] = w[x]
  PROVE  i[r] = j[r]
<1> DEFINE Bad == {s \in SUBSET r : i[s] # j[s]}
           Sizes == {Cardinality(s) : s \in Bad}
<1>1. \A s \in SUBSET r : IsFiniteSet(s) /\ Cardinality(s) \in Nat
  BY FS_Subset, FS_CardinalityType
<1>2. SUFFICES ASSUME Bad # {} PROVE FALSE
  OBVIOUS
<1>3. Sizes \subseteq Nat /\ Sizes # {}
  BY <1>1, <1>2
<1>4. PICK n \in Sizes : \A k \in Sizes : n <= k
  <2> HIDE DEF Sizes
  <2> QED BY <1>3, LeastElement
<1>5. PICK s \in Bad : n = Cardinality(s)
  BY <1>4
<1>6. s # {}
  BY <1>5 DEF Sums
<1>7. Drawn(s) \in s
  BY <1>6, DrawnIn
<1>8. Cardinality(s \ {Drawn(s)}) < Cardinality(s) /\ Cardinality(s \ {Drawn(s)}) \in Nat
      /\ Cardinality(s) \in Nat
  BY <1>1, <1>5, <1>7, TakeOut
<1>9. s \ {Drawn(s)} \notin Bad
  BY <1>4, <1>5, <1>8
<1>10. i[s \ {Drawn(s)}] = j[s \ {Drawn(s)}]
  BY <1>5, <1>9
<1>11. i[s] = v[Drawn(s)] + i[s \ {Drawn(s)}] /\ j[s] = w[Drawn(s)] + j[s \ {Drawn(s)}]
  BY <1>5, <1>6 DEF Sums
<1> QED BY <1>5, <1>7, <1>10, <1>11

\* A sum exists, over the small subsets first.
LEMMA SumsExist ==
  ASSUME NEW S, IsFiniteSet(S), NEW w
  PROVE  \E it : Sums(it, S, w)
<1> DEFINE Small(n) == {s \in SUBSET S : Cardinality(s) <= n}
           Body(it, s) == IF s = {} THEN 0 ELSE w[Drawn(s)] + it[s \ {Drawn(s)}]
           UpTo(it, n) == it = [s \in Small(n) |-> Body(it, s)]
           Missing == {n \in Nat : ~ \E it : UpTo(it, n)}
<1>1. \A s \in SUBSET S : IsFiniteSet(s) /\ Cardinality(s) \in Nat
  BY FS_Subset, FS_CardinalityType
<1>2. \A s \in SUBSET S : Cardinality(s) = 0 <=> s = {}
  BY <1>1, FS_EmptySet
<1>3. Missing = {}
  <2> SUFFICES ASSUME Missing # {} PROVE FALSE
    OBVIOUS
  <2>1. PICK n \in Missing : \A k \in Missing : n <= k
    <3> HIDE DEF Missing
    <3>1. Missing \subseteq Nat
      BY DEF Missing
    <3> QED BY <3>1, LeastElement
  <2>2. n # 0
    <3>1. UpTo([s \in Small(0) |-> 0], 0)
      BY <1>1, <1>2
    <3> HIDE DEF UpTo
    <3> QED BY <2>1, <3>1
  <2>3. n - 1 \in Nat /\ n - 1 \notin Missing
    <3> HIDE DEF UpTo
    <3>1. n \in Nat
      OBVIOUS
    <3> HIDE DEF Missing
    <3> QED BY <3>1, <2>1, <2>2
  <2>4. PICK it : UpTo(it, n - 1)
    <3> HIDE DEF UpTo
    <3> QED BY <2>3
  <2> DEFINE new == [s \in Small(n) |-> Body(it, s)]
  <2>5. \A s \in Small(n - 1) : s \in Small(n) /\ it[s] = new[s]
    <3>1. n \in Nat
      OBVIOUS
    <3>2. \A s \in Small(n - 1) : s \in Small(n)
      BY <1>1, <3>1
    <3> HIDE DEF Small, Body
    <3> QED BY <3>2, <2>4
  <2>6. \A s \in Small(n) : s # {} => s \ {Drawn(s)} \in Small(n - 1)
    <3> SUFFICES ASSUME NEW s \in Small(n), s # {} PROVE s \ {Drawn(s)} \in Small(n - 1)
      OBVIOUS
    <3>1. Drawn(s) \in s
      BY DrawnIn
    <3>2. IsFiniteSet(s)
      BY <1>1
    <3>3. Cardinality(s \ {Drawn(s)}) < Cardinality(s) /\ Cardinality(s \ {Drawn(s)}) \in Nat
          /\ Cardinality(s) \in Nat
      BY <3>1, <3>2, TakeOut
    <3> QED BY <3>3, <2>3
  <2>7. \A s \in Small(n) : Body(it, s) = Body(new, s)
    <3> HIDE DEF Small, new
    <3> QED BY <2>5, <2>6
  <2>8. UpTo(new, n)
    <3> HIDE DEF Small, Body
    <3> QED BY <2>7
  <2> HIDE DEF UpTo
  <2> QED BY <2>1, <2>8
<1>4. Cardinality(S) \in Nat
  BY <1>1
<1>5. PICK it : UpTo(it, Cardinality(S))
  BY <1>3, <1>4
<1>6. Small(Cardinality(S)) = SUBSET S
  BY <1>1, FS_Subset
<1>7. Sums(it, S, w)
  <2> HIDE DEF Small
  <2> QED BY <1>5, <1>6 DEF Sums
<1> QED BY <1>7

-----------------------------------------------------------------------------
(* The two sums *)

\* The library's sums are the values of functions that sum over all subsets, which
\* can be reasoned about.
LEMMA TokenSumIsSum ==
  ASSUME NEW S, IsFiniteSet(S)
  PROVE  \E it : Sums(it, S, [m \in S |-> m.tokens]) /\ TokenSum(S) = it[S]
<1> DEFINE w == [m \in S |-> m.tokens]
           Equation(it) == it = [s \in SUBSET S |-> IF s = {} THEN 0 ELSE
                                   (CHOOSE x \in s : TRUE).tokens + it[s \ {CHOOSE x \in s : TRUE}]]
<1>1. \A it : Equation(it) <=> Sums(it, S, w)
  <2> SUFFICES ASSUME NEW it PROVE Equation(it) <=> Sums(it, S, w)
    OBVIOUS
  <2>1. \A s \in SUBSET S : s # {} => w[Drawn(s)] = Drawn(s).tokens
    BY DrawnIn
  <2> HIDE DEF w
  <2> QED BY <2>1 DEF Sums, Drawn
<1>2. PICK it : Equation(it)
  <2> HIDE DEF Equation
  <2> QED BY <1>1, SumsExist
<1>3. Equation(CHOOSE i : Equation(i))
  <2> HIDE DEF Equation
  <2> QED BY <1>2
<1>4. TokenSum(S) = (CHOOSE i : Equation(i))[S]
  BY DEF TokenSum, MapThenSumSet, MapThenFoldSet
<1> QED BY <1>1, <1>3, <1>4

LEMMA EntrySumIsSum ==
  ASSUME NEW S, IsFiniteSet(S), NEW w
  PROVE  \E it : Sums(it, S, w) /\ EntrySum(w, S) = it[S]
<1>1. PICK it : Sums(it, S, w)
  BY SumsExist
<1>2. Sums(CHOOSE i : Sums(i, S, w), S, w)
  BY <1>1
<1>3. EntrySum(w, S) = (CHOOSE i : Sums(i, S, w))[S]
  BY DEF EntrySum, MapThenSumSet, MapThenFoldSet, Sums, Drawn
<1> QED BY <1>2, <1>3

-----------------------------------------------------------------------------
(* What a sum of natural numbers is *)

\* A sum of natural numbers is a natural number, for every subset.
LEMMA SumsNat ==
  ASSUME NEW S, IsFiniteSet(S), NEW w, \A x \in S : w[x] \in Nat, NEW it, Sums(it, S, w)
  PROVE  it[{}] = 0 /\ \A s \in SUBSET S : it[s] \in Nat
<1> DEFINE Bad == {s \in SUBSET S : it[s] \notin Nat}
           Sizes == {Cardinality(s) : s \in Bad}
<1>1. \A s \in SUBSET S : IsFiniteSet(s) /\ Cardinality(s) \in Nat
  BY FS_Subset, FS_CardinalityType
<1>2. it[{}] = 0
  BY DEF Sums
<1>3. SUFFICES ASSUME Bad # {} PROVE FALSE
  BY <1>2
<1>4. Sizes \subseteq Nat /\ Sizes # {}
  BY <1>1, <1>3
<1>5. PICK n \in Sizes : \A k \in Sizes : n <= k
  <2> HIDE DEF Sizes
  <2> QED BY <1>4, LeastElement
<1>6. PICK s \in Bad : n = Cardinality(s)
  BY <1>5
<1>7. s # {} /\ Drawn(s) \in s
  BY <1>2, <1>6, DrawnIn
<1>8. Cardinality(s \ {Drawn(s)}) < Cardinality(s) /\ Cardinality(s \ {Drawn(s)}) \in Nat
      /\ Cardinality(s) \in Nat
  BY <1>1, <1>6, <1>7, TakeOut
<1>9. it[s \ {Drawn(s)}] \in Nat
  BY <1>5, <1>6, <1>8
<1>10. it[s] = w[Drawn(s)] + it[s \ {Drawn(s)}]
  BY <1>6, <1>7 DEF Sums
<1> QED BY <1>6, <1>7, <1>9, <1>10

\* The order in which the elements are added does not matter.
LEMMA SumsTakeOut ==
  ASSUME NEW S, IsFiniteSet(S), NEW w, \A x \in S : w[x] \in Nat, NEW it, Sums(it, S, w)
  PROVE  \A s \in SUBSET S : \A x \in s : it[s] = w[x] + it[s \ {x}]
<1> DEFINE Fine(s) == \A x \in s : it[s] = w[x] + it[s \ {x}]
           Bad == {s \in SUBSET S : ~ Fine(s)}
           Sizes == {Cardinality(s) : s \in Bad}
<1>1. \A s \in SUBSET S : IsFiniteSet(s) /\ Cardinality(s) \in Nat
  BY FS_Subset, FS_CardinalityType
<1>2. \A s \in SUBSET S : it[s] \in Nat
  BY SumsNat
<1>3. SUFFICES ASSUME Bad # {} PROVE FALSE
  OBVIOUS
<1>4. Sizes \subseteq Nat /\ Sizes # {}
  BY <1>1, <1>3
<1>5. PICK n \in Sizes : \A k \in Sizes : n <= k
  <2> HIDE DEF Sizes
  <2> QED BY <1>4, LeastElement
<1>6. PICK s \in Bad : n = Cardinality(s)
  BY <1>5
<1>7. \A r \in SUBSET S : Cardinality(r) < Cardinality(s) => Fine(r)
  <2> HIDE DEF Fine
  <2> QED BY <1>1, <1>5, <1>6
<1>8. PICK x \in s : it[s] # w[x] + it[s \ {x}]
  BY <1>6
<1> DEFINE d == Drawn(s)
<1>9. d \in s /\ it[s] = w[d] + it[s \ {d}]
  BY <1>6, <1>8, DrawnIn DEF Sums
<1>10. d # x
  BY <1>8, <1>9
<1>11. /\ Cardinality(s \ {d}) < Cardinality(s)
       /\ Cardinality(s \ {x}) < Cardinality(s)
  <2> HIDE DEF d
  <2>1. IsFiniteSet(s)
    BY <1>1, <1>6
  <2> QED BY <2>1, <1>8, <1>9, TakeOut
<1>12. Fine(s \ {d}) /\ Fine(s \ {x})
  <2> HIDE DEF Fine, d
  <2> QED BY <1>6, <1>7, <1>11
<1>13. (s \ {d}) \ {x} = (s \ {x}) \ {d}
  OBVIOUS
<1>14. it[s \ {d}] = w[x] + it[(s \ {x}) \ {d}] /\ it[s \ {x}] = w[d] + it[(s \ {x}) \ {d}]
  <2> HIDE DEF d
  <2> QED BY <1>8, <1>9, <1>10, <1>12, <1>13
<1>15. w[x] \in Nat /\ w[d] \in Nat /\ it[(s \ {x}) \ {d}] \in Nat
  <2> HIDE DEF d
  <2> QED BY <1>2, <1>6, <1>8, <1>9
<1> HIDE DEF d
<1> QED BY <1>8, <1>9, <1>14, <1>15

\* The sum over two sets that share nothing is the sum of both.
LEMMA SumsUnion ==
  ASSUME NEW S, IsFiniteSet(S), NEW w, \A x \in S : w[x] \in Nat, NEW it, Sums(it, S, w)
  PROVE  \A r, t \in SUBSET S : r \cap t = {} => it[r \cup t] = it[r] + it[t]
<1> SUFFICES ASSUME NEW r \in SUBSET S, NEW t \in SUBSET S, r \cap t = {}
             PROVE  it[r \cup t] = it[r] + it[t]
  OBVIOUS
<1> DEFINE Bad == {s \in SUBSET t : it[r \cup s] # it[r] + it[s]}
           Sizes == {Cardinality(s) : s \in Bad}
<1>1. \A s \in SUBSET S : IsFiniteSet(s) /\ Cardinality(s) \in Nat
  BY FS_Subset, FS_CardinalityType
<1>2. \A s \in SUBSET S : it[s] \in Nat
  BY SumsNat
<1>3. SUFFICES ASSUME Bad # {} PROVE FALSE
  OBVIOUS
<1>4. Sizes \subseteq Nat /\ Sizes # {}
  BY <1>1, <1>3
<1>5. PICK n \in Sizes : \A k \in Sizes : n <= k
  <2> HIDE DEF Sizes
  <2> QED BY <1>4, LeastElement
<1>6. PICK s \in Bad : n = Cardinality(s)
  BY <1>5
<1>7. ASSUME s = {} PROVE FALSE
  <2>1. r \cup s = r
    BY <1>7
  <2>2. it[s] = 0
    BY <1>7, SumsNat
  <2>3. it[r] \in Nat
    BY <1>2
  <2>4. it[r \cup s] # it[r] + it[s]
    BY <1>6
  <2> HIDE DEF Bad
  <2>5. it[r \cup s] = it[r]
    BY <2>1
  <2> QED BY <2>2, <2>3, <2>4, <2>5
<1>8. PICK x \in s : TRUE
  BY <1>7
<1>9. Cardinality(s \ {x}) < Cardinality(s) /\ Cardinality(s) \in Nat /\ Cardinality(s \ {x}) \in Nat
  BY <1>1, <1>6, <1>8, TakeOut
<1>10. s \ {x} \notin Bad
  <2>1. s \ {x} \in Bad => Cardinality(s \ {x}) \in Sizes
    OBVIOUS
  <2> HIDE DEF Bad, Sizes
  <2> QED BY <1>5, <1>6, <1>9, <2>1
<1>11. it[r \cup (s \ {x})] = it[r] + it[s \ {x}]
  BY <1>6, <1>10
<1>12. it[s] = w[x] + it[s \ {x}]
  BY <1>6, <1>8, SumsTakeOut
<1>13. (r \cup s) \ {x} = r \cup (s \ {x})
  BY <1>6, <1>8
<1>14. it[r \cup s] = w[x] + it[r \cup (s \ {x})]
  BY <1>6, <1>8, <1>13, SumsTakeOut
<1>15. w[x] \in Nat /\ it[r] \in Nat /\ it[s \ {x}] \in Nat
  BY <1>2, <1>6, <1>8
<1> QED BY <1>6, <1>11, <1>12, <1>14, <1>15

-----------------------------------------------------------------------------
(* What is cited *)

\* A sum of tokens is a natural number, and nothing costs nothing.
LEMMA TokenSumNat ==
  ASSUME NEW S, IsFiniteSet(S), \A m \in S : m.tokens \in Nat
  PROVE  TokenSum(S) \in Nat
<1>1. PICK it : Sums(it, S, [m \in S |-> m.tokens]) /\ TokenSum(S) = it[S]
  BY TokenSumIsSum
<1> QED BY <1>1, SumsNat

LEMMA TokenSumEmpty == TokenSum({}) = 0
<1>1. PICK it : Sums(it, {}, [m \in {} |-> m.tokens]) /\ TokenSum({}) = it[{}]
  BY TokenSumIsSum, FS_EmptySet
<1> QED BY <1>1 DEF Sums

\* Disjoint sets are paid for one after the other.
LEMMA TokenSumUnion ==
  ASSUME NEW S, IsFiniteSet(S), \A m \in S : m.tokens \in Nat,
         NEW T, IsFiniteSet(T), \A m \in T : m.tokens \in Nat, S \cap T = {}
  PROVE  TokenSum(S \cup T) = TokenSum(S) + TokenSum(T)
<1> DEFINE w == [m \in S \cup T |-> m.tokens]
           u == [m \in S |-> m.tokens]
           v == [m \in T |-> m.tokens]
<1>1. IsFiniteSet(S \cup T)
  BY FS_Union
<1>2. PICK it : Sums(it, S \cup T, w) /\ TokenSum(S \cup T) = it[S \cup T]
  BY <1>1, TokenSumIsSum
<1>3. PICK i : Sums(i, S, u) /\ TokenSum(S) = i[S]
  BY TokenSumIsSum
<1>4. PICK j : Sums(j, T, v) /\ TokenSum(T) = j[T]
  BY TokenSumIsSum
<1>5. /\ \A x \in S : w[x] = u[x]
      /\ \A x \in T : w[x] = v[x]
      /\ \A x \in S \cup T : w[x] \in Nat
  OBVIOUS
<1> HIDE DEF u, v, w
<1>6. it[S] = i[S]
  <2>1. S \subseteq S \cup T /\ S \subseteq S
    OBVIOUS
  <2> QED BY <1>2, <1>3, <1>5, <2>1, SumsAgree
<1>7. it[T] = j[T]
  <2>1. T \subseteq S \cup T /\ T \subseteq T
    OBVIOUS
  <2> QED BY <1>2, <1>4, <1>5, <2>1, SumsAgree
<1>8. it[S \cup T] = it[S] + it[T]
  <2> DEFINE R == S \cup T
  <2>1. /\ S \in SUBSET R /\ T \in SUBSET R /\ S \cap T = {}
        /\ IsFiniteSet(R) /\ Sums(it, R, w) /\ \A x \in R : w[x] \in Nat
    BY <1>1, <1>2, <1>5
  <2> HIDE DEF R
  <2>2. \A r, t \in SUBSET R : r \cap t = {} => it[r \cup t] = it[r] + it[t]
    BY <2>1, SumsUnion
  <2> QED BY <2>1, <2>2
<1> QED BY <1>2, <1>3, <1>4, <1>6, <1>7, <1>8

\* One more element that is not there yet.
LEMMA TokenSumAdd ==
  ASSUME NEW S, IsFiniteSet(S), \A m \in S : m.tokens \in Nat, NEW x, x \notin S, x.tokens \in Nat
  PROVE  TokenSum(S \cup {x}) = TokenSum(S) + x.tokens
<1>1. IsFiniteSet({x})
  BY FS_Singleton
<1>2. PICK it : Sums(it, {x}, [m \in {x} |-> m.tokens]) /\ TokenSum({x}) = it[{x}]
  BY <1>1, TokenSumIsSum
<1>3. it[{x}] = x.tokens + it[{x} \ {x}] /\ it[{}] = 0
  <2>1. \A y \in {x} : [m \in {x} |-> m.tokens][y] \in Nat
    OBVIOUS
  <2>2. it[{x}] = [m \in {x} |-> m.tokens][x] + it[{x} \ {x}]
    <3>1. {x} \in SUBSET {x} /\ x \in {x}
      OBVIOUS
    <3> DEFINE w == [m \in {x} |-> m.tokens]
    <3>2. (\A y \in {x} : w[y] \in Nat) /\ Sums(it, {x}, w)
      BY <1>2, <2>1
    <3> HIDE DEF w
    <3>3. it[{x}] = w[x] + it[{x} \ {x}]
      BY <1>1, <3>1, <3>2, SumsTakeOut
    <3> QED BY <3>3 DEF w
  <2> QED BY <2>2, <1>2 DEF Sums
<1>4. {x} \ {x} = {}
  OBVIOUS
<1>5. TokenSum({x}) = x.tokens
  BY <1>2, <1>3, <1>4
<1> QED BY <1>1, <1>5, TokenSumUnion

\* More memories never cost less.
LEMMA TokenSumMonotone ==
  ASSUME NEW T, IsFiniteSet(T), \A m \in T : m.tokens \in Nat, NEW S, S \subseteq T
  PROVE  TokenSum(S) <= TokenSum(T)
<1>1. IsFiniteSet(S) /\ IsFiniteSet(T \ S)
  BY FS_Subset, FS_Difference
<1>2. S \cup (T \ S) = T
  OBVIOUS
<1>3. TokenSum(S) \in Nat /\ TokenSum(T \ S) \in Nat
  BY <1>1, TokenSumNat
<1>4. TokenSum(S \cup (T \ S)) = TokenSum(S) + TokenSum(T \ S)
  BY <1>1, TokenSumUnion
<1>5. TokenSum(T) = TokenSum(S) + TokenSum(T \ S)
  BY <1>2, <1>4
<1> QED BY <1>3, <1>5

\* Entries that are natural numbers have a natural number as their sum.
LEMMA EntrySumNat ==
  ASSUME NEW w, NEW S, IsFiniteSet(S), \A n \in S : w[n] \in Nat
  PROVE  EntrySum(w, S) \in Nat
<1>1. PICK it : Sums(it, S, w) /\ EntrySum(w, S) = it[S]
  BY EntrySumIsSum
<1> QED BY <1>1, SumsNat

=============================================================================
