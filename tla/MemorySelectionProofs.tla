----------------------- MODULE MemorySelectionProofs -----------------------
(***************************************************************************)
(* Proofs about MemorySelection, for every set of memories, every snapshot *)
(* and every request.  The order in which candidates are packed is total   *)
(* for each policy, so that there is a best one; what the packing loop     *)
(* chose is then known for all candidates that rank before the pool.       *)
(***************************************************************************)
EXTENDS MemorySelection, SetLemmas

-----------------------------------------------------------------------------
(* Numbers and the comparison of tuples *)

\* Quotients are compared by cross multiplication, and the comparison is
\* transitive because the divisors are positive.
LEMMA QuotientsOrdered ==
  \A u, v, w \in Int : \A a, b, c \in Nat \ {0} :
    /\ u * b >= v * a /\ v * c >= w * b => u * c >= w * a
    /\ u * b >= v * a /\ v * c >= w * b /\ u * c = w * a => u * b = v * a /\ v * c = w * b
<1> SUFFICES ASSUME NEW u \in Int, NEW v \in Int, NEW w \in Int,
                    NEW a \in Nat \ {0}, NEW b \in Nat \ {0}, NEW c \in Nat \ {0},
                    u * b >= v * a, v * c >= w * b
             PROVE  u * c >= w * a /\ (u * c = w * a => u * b = v * a /\ v * c = w * b)
  OBVIOUS
<1>0. \A x, y \in Int : \A n \in Nat \ {0} : /\ x >= y => x * n >= y * n
                                             /\ x > y => x * n > y * n
  OBVIOUS
<1>1. /\ u * b \in Int /\ v * a \in Int /\ v * c \in Int /\ w * b \in Int
      /\ u * c \in Int /\ w * a \in Int
  OBVIOUS
<1>2. /\ (u * b) * c = (u * c) * b
      /\ (v * a) * c = (v * c) * a
      /\ (w * b) * a = (w * a) * b
  OBVIOUS
<1>3. (u * b) * c >= (v * a) * c /\ (v * c) * a >= (w * b) * a
  BY <1>0, <1>1
<1>4. (u * c) * b >= (v * a) * c /\ (v * a) * c >= (w * a) * b
  BY <1>2, <1>3
<1> DEFINE p == (u * c) * b
           q == (v * a) * c
           r == (w * a) * b
<1>5. p \in Int /\ q \in Int /\ r \in Int
  OBVIOUS
<1>6. ~(u * c < w * a)
  <2>1. u * c < w * a => r > p
    BY <1>0, <1>1
  <2> HIDE DEF p, q, r
  <2> QED BY <1>4, <1>5, <2>1 DEF p, q, r
<1>7. ASSUME u * c = w * a PROVE u * b = v * a /\ v * c = w * b
  <2>1. p = r
    BY <1>7
  <2>2. p = q /\ q = r
    BY <1>4, <1>5, <2>1
  <2>3. u * b > v * a => (u * b) * c > (v * a) * c
    BY <1>0, <1>1
  <2>4. v * c > w * b => (v * c) * a > (w * b) * a
    BY <1>0, <1>1
  <2>5. (u * b) * c = (v * a) * c /\ (v * c) * a = (w * b) * a
    BY <1>2, <2>2
  <2>6. ~(u * b > v * a) /\ ~(v * c > w * b)
    BY <1>1, <2>3, <2>4, <2>5
  <2> QED BY <1>1, <2>6
<1> QED BY <1>1, <1>6, <1>7

\* Exceeds on tuples of the lengths that occur.
LEMMA ExceedsPairs ==
  \A a, b, p, q \in Int : Exceeds(<<a, b>>, <<p, q>>) <=> a > p \/ (a = p /\ b > q)
<1> SUFFICES ASSUME NEW a \in Int, NEW b \in Int, NEW p \in Int, NEW q \in Int
             PROVE  Exceeds(<<a, b>>, <<p, q>>) <=> a > p \/ (a = p /\ b > q)
  OBVIOUS
<1>1. DOMAIN <<a, b>> = {1, 2} /\ 1..(1 - 1) = {} /\ 1..(2 - 1) = {1}
  OBVIOUS
<1> QED BY <1>1 DEF Exceeds

\* A tuple exceeds another at the first place where they differ.
LEMMA ExceedsTriples ==
  \A a, b, c, p, q, r \in Int :
    Exceeds(<<a, b, c>>, <<p, q, r>>) <=>
      a > p \/ (a = p /\ b > q) \/ (a = p /\ b = q /\ c > r)
<1> SUFFICES ASSUME NEW a \in Int, NEW b \in Int, NEW c \in Int,
                    NEW p \in Int, NEW q \in Int, NEW r \in Int
             PROVE  Exceeds(<<a, b, c>>, <<p, q, r>>) <=>
                      a > p \/ (a = p /\ b > q) \/ (a = p /\ b = q /\ c > r)
  OBVIOUS
<1>1. /\ DOMAIN <<a, b, c>> = {1, 2, 3}
      /\ 1..(1 - 1) = {} /\ 1..(2 - 1) = {1} /\ 1..(3 - 1) = {1, 2}
  OBVIOUS
<1> QED BY <1>1 DEF Exceeds

LEMMA ExceedsQuintuples ==
  \A s, t : DOMAIN s = 1..5 =>
    (Exceeds(s, t) <=>
      \/ s[1] > t[1]
      \/ s[1] = t[1] /\ s[2] > t[2]
      \/ s[1] = t[1] /\ s[2] = t[2] /\ s[3] > t[3]
      \/ s[1] = t[1] /\ s[2] = t[2] /\ s[3] = t[3] /\ s[4] > t[4]
      \/ s[1] = t[1] /\ s[2] = t[2] /\ s[3] = t[3] /\ s[4] = t[4] /\ s[5] > t[5])
<1>1. /\ 1..5 = {1, 2, 3, 4, 5}
      /\ 1..(1 - 1) = {} /\ 1..(2 - 1) = {1} /\ 1..(3 - 1) = {1, 2}
      /\ 1..(4 - 1) = {1, 2, 3} /\ 1..(5 - 1) = {1, 2, 3, 4}
  OBVIOUS
<1> QED BY <1>1 DEF Exceeds

-----------------------------------------------------------------------------
(* The order of the candidates *)

\* What a candidate can be, whatever the stage.
Candidate == [memory : snapshot, relevance : 0..Scale]

Called == snapshot \in Snapshot /\ request \in Request

\* Every ranking is by a quotient, which may be over one, and then by up to four
\* numbers.
Lead(c) ==
  CASE request.policy = "sliding_window" -> c.memory.turn
    [] request.policy = "vector_top_k" -> c.memory.similarity
    [] OTHER -> Utility(c)

Share(c) ==
  IF request.policy = "utility_per_token" \/ (Proposed /\ request.tokenAware) THEN Weight(c) ELSE 1

Tie(c) ==
  CASE request.policy = "sliding_window" -> <<c.memory.created, 0 - c.memory.id, 0, 0>>
    [] request.policy = "vector_top_k" -> <<0 - c.memory.id, 0, 0, 0>>
    [] request.policy = "utility_per_token" -> <<c.memory.similarity, 0 - c.memory.id, 0, 0>>
    [] OTHER -> <<Utility(c), c.relevance, Recency(c), 0 - c.memory.id>>

\* What a call needs to know of the memories of its snapshot.
LEMMA MemoryTyped ==
  ASSUME Called
  PROVE  /\ IsFiniteSet(snapshot)
         /\ \A m \in snapshot :
              /\ m.id \in Int /\ m.turn \in Int /\ m.tokens \in Nat
              /\ m.created \in Int /\ m.from \in Int
              /\ m.importance \in Int /\ m.similarity \in Int
              /\ m.importance >= 0 /\ m.similarity <= Scale
              /\ m.to # None => m.to \in Int /\ m.from <= m.to
              /\ m.type = "state" => m.key # None
         /\ \A m, n \in snapshot : m.id = n.id => m = n
<1>1. snapshot \subseteq Memory /\ IsFiniteSet(snapshot)
      /\ \A m, n \in snapshot : m.id = n.id => m = n
  BY SnapshotAssumption DEF Called
<1>2. Scale \in Nat
  BY MemoryAssumption
<1>3. \A m \in snapshot : MemoryShape(m)
  BY <1>1, MemoryAssumption
<1> QED BY <1>1, <1>2, <1>3 DEF MemoryShape

\* What a call needs to know of its request.
LEMMA RequestTyped ==
  ASSUME Called
  PROVE  /\ request.policy \in Policies
         /\ request.mandatory => request.temporal
         /\ request.turn \in Nat /\ request.budget \in Int
         /\ request.intent \in {"current", "point", "range"}
         /\ request.start \in Int /\ request.end \in Int
BY RequestAssumption DEF Called, RequestShape

\* Everything that a candidate is ranked by is a number.
LEMMA RankTyped ==
  ASSUME Called, NEW c \in Candidate
  PROVE  /\ c.memory \in snapshot /\ c.relevance \in Int
         /\ Recency(c) \in Int /\ Utility(c) \in Int /\ Weight(c) \in Nat \ {0}
         /\ Lead(c) \in Int /\ Share(c) \in Nat \ {0}
         /\ Tie(c) = <<Tie(c)[1], Tie(c)[2], Tie(c)[3], Tie(c)[4]>>
         /\ \A k \in 1..4 : Tie(c)[k] \in Int
<1>1. c.memory \in snapshot /\ c.relevance \in Int
  BY MemoryAssumption DEF Candidate
<1>2. /\ c.memory.id \in Int /\ c.memory.turn \in Int /\ c.memory.tokens \in Nat
      /\ c.memory.created \in Int /\ c.memory.importance \in Int /\ c.memory.similarity \in Int
  BY <1>1, MemoryTyped
<1>3. request.turn \in Nat /\ Scale \in Nat
  BY RequestTyped, MemoryAssumption
<1>4. Recency(c) \in Int
  <2>1. 1 + Larger(request.turn - c.memory.turn, 0) \in Nat \ {0}
    BY <1>2, <1>3 DEF Larger
  <2> QED BY <1>3, <2>1 DEF Recency
<1>5. Utility(c) \in Int /\ Weight(c) \in Nat \ {0}
  BY <1>1, <1>2, <1>4 DEF Utility, Weight, Larger
<1>6. Lead(c) \in Int /\ Share(c) \in Nat \ {0}
  BY <1>2, <1>5 DEF Lead, Share
<1>7. \E w, x, y, z \in Int : Tie(c) = <<w, x, y, z>>
  <2> HIDE DEF Utility, Recency
  <2>1. 0 - c.memory.id \in Int /\ 0 \in Int
    BY <1>2
  <2>2. CASE request.policy = "sliding_window"
    BY <1>2, <2>1, <2>2 DEF Tie
  <2>3. CASE request.policy = "vector_top_k"
    BY <1>2, <2>1, <2>3 DEF Tie
  <2>4. CASE request.policy = "utility_per_token"
    BY <1>2, <2>1, <2>4 DEF Tie
  <2>5. CASE request.policy \notin {"sliding_window", "vector_top_k", "utility_per_token"}
    BY <1>1, <1>4, <1>5, <2>1, <2>5 DEF Tie
  <2> QED BY <2>2, <2>3, <2>4, <2>5
<1>8. /\ Tie(c) = <<Tie(c)[1], Tie(c)[2], Tie(c)[3], Tie(c)[4]>>
      /\ Tie(c)[1] \in Int /\ Tie(c)[2] \in Int /\ Tie(c)[3] \in Int /\ Tie(c)[4] \in Int
  BY <1>7
<1>9. \A k \in 1..4 : k = 1 \/ k = 2 \/ k = 3 \/ k = 4
  OBVIOUS
<1> QED BY <1>1, <1>4, <1>5, <1>6, <1>8, <1>9

\* What Before compares, in one form for all policies.
LexBefore(s, t) ==
  \/ s[1] > t[1]
  \/ s[1] = t[1] /\ s[2] > t[2]
  \/ s[1] = t[1] /\ s[2] = t[2] /\ s[3] > t[3]
  \/ s[1] = t[1] /\ s[2] = t[2] /\ s[3] = t[3] /\ s[4] > t[4]

\* A candidate ranks before another by its quotient, and by the tie-break among
\* equal quotients.
LEMMA BeforeMeans ==
  ASSUME Called
  PROVE  \A c, d \in Candidate :
           Before(c, d) <=>
             \/ Lead(c) * Share(d) > Lead(d) * Share(c)
             \/ Lead(c) * Share(d) = Lead(d) * Share(c) /\ LexBefore(Tie(c), Tie(d))
<1> SUFFICES ASSUME NEW c \in Candidate, NEW d \in Candidate
             PROVE  Before(c, d) <=>
                      \/ Lead(c) * Share(d) > Lead(d) * Share(c)
                      \/ Lead(c) * Share(d) = Lead(d) * Share(c) /\ LexBefore(Tie(c), Tie(d))
  OBVIOUS
<1>1. /\ c.memory \in snapshot /\ d.memory \in snapshot
      /\ c.relevance \in Int /\ d.relevance \in Int
      /\ Recency(c) \in Int /\ Recency(d) \in Int
      /\ Utility(c) \in Int /\ Utility(d) \in Int
      /\ Weight(c) \in Nat \ {0} /\ Weight(d) \in Nat \ {0}
  BY RankTyped
<1>2. /\ c.memory.id \in Int /\ c.memory.turn \in Int
      /\ c.memory.created \in Int /\ c.memory.similarity \in Int
      /\ d.memory.id \in Int /\ d.memory.turn \in Int
      /\ d.memory.created \in Int /\ d.memory.similarity \in Int
  BY <1>1, MemoryTyped
<1>3. /\ 0 - c.memory.id \in Int /\ 0 - d.memory.id \in Int
      /\ \A x \in Int : x * 1 = x
      /\ Utility(c) * Weight(d) \in Int /\ Utility(d) * Weight(c) \in Int
  BY <1>1, <1>2
<1>4. request.policy \in Policies
  BY RequestTyped
<1> HIDE DEF Utility, Weight, Recency
<1>5. CASE request.policy = "sliding_window"
  <2>1. Share(c) = 1 /\ Share(d) = 1
    BY <1>5 DEF Share, Proposed
  <2>2. Before(c, d) <=>
          Exceeds(<<c.memory.turn, c.memory.created, 0 - c.memory.id>>,
                  <<d.memory.turn, d.memory.created, 0 - d.memory.id>>)
    BY <1>5 DEF Before, Standing
  <2>3. Before(c, d) <=>
          \/ c.memory.turn > d.memory.turn
          \/ (c.memory.turn = d.memory.turn /\ c.memory.created > d.memory.created)
          \/ (c.memory.turn = d.memory.turn /\ c.memory.created = d.memory.created
                /\ 0 - c.memory.id > 0 - d.memory.id)
    <3> DEFINE s == c.memory.turn
               t == d.memory.turn
               u == c.memory.created
               v == d.memory.created
               i == 0 - c.memory.id
               j == 0 - d.memory.id
    <3>1. s \in Int /\ t \in Int /\ u \in Int /\ v \in Int /\ i \in Int /\ j \in Int
      BY <1>2, <1>3
    <3>2. Before(c, d) <=> Exceeds(<<s, u, i>>, <<t, v, j>>)
      BY <2>2
    <3> HIDE DEF s, t, u, v, i, j
    <3>3. Before(c, d) <=> s > t \/ (s = t /\ u > v) \/ (s = t /\ u = v /\ i > j)
      BY <3>1, <3>2, ExceedsTriples
    <3> QED BY <3>3 DEF s, t, u, v, i, j
  <2>4. /\ Tie(c) = <<c.memory.created, 0 - c.memory.id, 0, 0>>
        /\ Tie(d) = <<d.memory.created, 0 - d.memory.id, 0, 0>>
        /\ Lead(c) = c.memory.turn /\ Lead(d) = d.memory.turn
    BY <1>5 DEF Tie, Lead
  <2> QED BY <1>2, <1>3, <2>1, <2>3, <2>4 DEF LexBefore
<1>6. CASE request.policy = "vector_top_k"
  <2>1. Share(c) = 1 /\ Share(d) = 1
    BY <1>6 DEF Share, Proposed
  <2>2. Before(c, d) <=> Exceeds(<<c.memory.similarity, 0 - c.memory.id>>,
                                 <<d.memory.similarity, 0 - d.memory.id>>)
    BY <1>6 DEF Before, Standing
  <2>3. Before(c, d) <=>
          \/ c.memory.similarity > d.memory.similarity
          \/ (c.memory.similarity = d.memory.similarity /\ 0 - c.memory.id > 0 - d.memory.id)
    BY <1>2, <1>3, <2>2, ExceedsPairs
  <2>4. /\ Tie(c) = <<0 - c.memory.id, 0, 0, 0>> /\ Tie(d) = <<0 - d.memory.id, 0, 0, 0>>
        /\ Lead(c) = c.memory.similarity /\ Lead(d) = d.memory.similarity
    BY <1>6 DEF Tie, Lead
  <2> QED BY <1>2, <1>3, <2>1, <2>3, <2>4 DEF LexBefore
<1>7. CASE request.policy = "utility_per_token"
  <2>1. Share(c) = Weight(c) /\ Share(d) = Weight(d)
    BY <1>7 DEF Share
  <2>2. Before(c, d) <=>
          Exceeds(<<Utility(c) * Weight(d), c.memory.similarity, 0 - c.memory.id>>,
                  <<Utility(d) * Weight(c), d.memory.similarity, 0 - d.memory.id>>)
    BY <1>7 DEF Before, Standing
  <2> DEFINE x == Utility(c) * Weight(d)
             y == Utility(d) * Weight(c)
  <2>3. Before(c, d) <=>
          \/ x > y
          \/ (x = y /\ c.memory.similarity > d.memory.similarity)
          \/ (x = y /\ c.memory.similarity = d.memory.similarity
                /\ 0 - c.memory.id > 0 - d.memory.id)
    <3> DEFINE u == c.memory.similarity
               v == d.memory.similarity
               i == 0 - c.memory.id
               j == 0 - d.memory.id
    <3>1. x \in Int /\ y \in Int /\ u \in Int /\ v \in Int /\ i \in Int /\ j \in Int
      BY <1>2, <1>3
    <3>2. Before(c, d) <=> Exceeds(<<x, u, i>>, <<y, v, j>>)
      BY <2>2
    <3> HIDE DEF x, y, u, v, i, j
    <3>3. Before(c, d) <=> x > y \/ (x = y /\ u > v) \/ (x = y /\ u = v /\ i > j)
      BY <3>1, <3>2, ExceedsTriples
    <3> QED BY <3>3, Zenon DEF u, v, i, j
  <2>4. /\ Tie(c) = <<c.memory.similarity, 0 - c.memory.id, 0, 0>>
        /\ Tie(d) = <<d.memory.similarity, 0 - d.memory.id, 0, 0>>
        /\ x = Lead(c) * Share(d) /\ y = Lead(d) * Share(c)
    BY <1>7, <2>1 DEF Tie, Lead
  <2> HIDE DEF x, y
  <2> QED BY <1>2, <1>3, <2>3, <2>4 DEF LexBefore
<1>8. CASE request.policy = "proposed"
  <2> DEFINE x == IF request.tokenAware THEN Utility(c) * Weight(d) ELSE Utility(c)
             y == IF request.tokenAware THEN Utility(d) * Weight(c) ELSE Utility(d)
  <2>1. x \in Int /\ y \in Int /\ x = Lead(c) * Share(d) /\ y = Lead(d) * Share(c)
    <3>1. Lead(c) = Utility(c) /\ Lead(d) = Utility(d)
      BY <1>8 DEF Lead
    <3>2. CASE request.tokenAware
      BY <1>3, <1>8, <3>1, <3>2 DEF Share, Proposed
    <3>3. CASE ~request.tokenAware
      <4>1. Share(c) = 1 /\ Share(d) = 1
        BY <1>8, <3>3 DEF Share, Proposed
      <4> QED BY <1>1, <3>1, <3>3, <4>1
    <3> QED BY <3>2, <3>3
  <2>2. Before(c, d) <=>
          Exceeds(<<x, Utility(c), c.relevance, Recency(c), 0 - c.memory.id>>,
                  <<y, Utility(d), d.relevance, Recency(d), 0 - d.memory.id>>)
    BY <1>8 DEF Before, Standing
  <2>3. /\ Tie(c) = <<Utility(c), c.relevance, Recency(c), 0 - c.memory.id>>
        /\ Tie(d) = <<Utility(d), d.relevance, Recency(d), 0 - d.memory.id>>
    BY <1>8 DEF Tie
  <2> HIDE DEF x, y
  <2>4. Before(c, d) <=>
          \/ x > y
          \/ x = y /\ Utility(c) > Utility(d)
          \/ x = y /\ Utility(c) = Utility(d) /\ c.relevance > d.relevance
          \/ x = y /\ Utility(c) = Utility(d) /\ c.relevance = d.relevance
               /\ Recency(c) > Recency(d)
          \/ x = y /\ Utility(c) = Utility(d) /\ c.relevance = d.relevance
               /\ Recency(c) = Recency(d) /\ 0 - c.memory.id > 0 - d.memory.id
    <3> DEFINE s == Utility(c)
               t == Utility(d)
               u == c.relevance
               v == d.relevance
               p == Recency(c)
               q == Recency(d)
               i == 0 - c.memory.id
               j == 0 - d.memory.id
    <3>1. /\ x \in Int /\ y \in Int /\ s \in Int /\ t \in Int /\ u \in Int /\ v \in Int
          /\ p \in Int /\ q \in Int /\ i \in Int /\ j \in Int
      BY <1>1, <1>3, <2>1
    <3>2. Before(c, d) <=> Exceeds(<<x, s, u, p, i>>, <<y, t, v, q, j>>)
      BY <2>2
    <3> HIDE DEF s, t, u, v, p, q, i, j
    <3>3. Before(c, d) <=>
            \/ x > y
            \/ x = y /\ s > t
            \/ x = y /\ s = t /\ u > v
            \/ x = y /\ s = t /\ u = v /\ p > q
            \/ x = y /\ s = t /\ u = v /\ p = q /\ i > j
      <4> DEFINE a == <<x, s, u, p, i>>
                 b == <<y, t, v, q, j>>
      <4>1. DOMAIN a = 1..5
        OBVIOUS
      <4>2. /\ a[1] = x /\ a[2] = s /\ a[3] = u /\ a[4] = p /\ a[5] = i
            /\ b[1] = y /\ b[2] = t /\ b[3] = v /\ b[4] = q /\ b[5] = j
        OBVIOUS
      <4>3. Before(c, d) <=> Exceeds(a, b)
        BY <3>2
      <4> HIDE DEF a, b
      <4> QED BY <4>1, <4>2, <4>3, ExceedsQuintuples
    <3> QED BY <3>3 DEF s, t, u, v, p, q, i, j
  <2>5. LexBefore(Tie(c), Tie(d)) <=>
          \/ Utility(c) > Utility(d)
          \/ Utility(c) = Utility(d) /\ c.relevance > d.relevance
          \/ Utility(c) = Utility(d) /\ c.relevance = d.relevance /\ Recency(c) > Recency(d)
          \/ Utility(c) = Utility(d) /\ c.relevance = d.relevance
               /\ Recency(c) = Recency(d) /\ 0 - c.memory.id > 0 - d.memory.id
    BY <2>3 DEF LexBefore
  <2>6. Before(c, d) <=> x > y \/ (x = y /\ LexBefore(Tie(c), Tie(d)))
    BY <2>4, <2>5
  <2> QED BY <2>1, <2>6
<1> QED BY <1>4, <1>5, <1>6, <1>7, <1>8 DEF Policies

\* Two candidates never tie: the id of the memory decides last.
LEMMA TiesBreak ==
  ASSUME Called
  PROVE  \A c, d \in Candidate : Tie(c) = Tie(d) => c.memory = d.memory
<1> SUFFICES ASSUME NEW c \in Candidate, NEW d \in Candidate, Tie(c) = Tie(d)
             PROVE  c.memory.id = d.memory.id
  BY RankTyped, MemoryTyped
<1>1. c.memory.id \in Int /\ d.memory.id \in Int
  BY RankTyped, MemoryTyped
<1> HIDE DEF Utility, Recency
<1>2. 0 - c.memory.id = 0 - d.memory.id
  <2>1. CASE request.policy = "sliding_window"
    <3>1. Tie(c)[2] = 0 - c.memory.id /\ Tie(d)[2] = 0 - d.memory.id
      BY <2>1 DEF Tie
    <3> QED BY <3>1
  <2>2. CASE request.policy = "vector_top_k"
    <3>1. Tie(c)[1] = 0 - c.memory.id /\ Tie(d)[1] = 0 - d.memory.id
      BY <2>2 DEF Tie
    <3> QED BY <3>1
  <2>3. CASE request.policy = "utility_per_token"
    <3>1. Tie(c)[2] = 0 - c.memory.id /\ Tie(d)[2] = 0 - d.memory.id
      BY <2>3 DEF Tie
    <3> QED BY <3>1
  <2>4. CASE request.policy \notin {"sliding_window", "vector_top_k", "utility_per_token"}
    <3>1. Tie(c)[4] = 0 - c.memory.id /\ Tie(d)[4] = 0 - d.memory.id
      BY <2>4 DEF Tie
    <3> QED BY <3>1
  <2> QED BY <2>1, <2>2, <2>3, <2>4
<1> QED BY <1>1, <1>2

\* The order is a strict and total one, on memories that differ.
LEMMA BeforeTotal ==
  ASSUME Called
  PROVE  \A c, d \in Candidate :
           /\ ~(Before(c, d) /\ Before(d, c))
           /\ c.memory # d.memory => Before(c, d) \/ Before(d, c)
<1> SUFFICES ASSUME NEW c \in Candidate, NEW d \in Candidate
             PROVE  /\ ~(Before(c, d) /\ Before(d, c))
                    /\ c.memory # d.memory => Before(c, d) \/ Before(d, c)
  OBVIOUS
<1>1. /\ Lead(c) \in Int /\ Share(c) \in Nat /\ Lead(d) \in Int /\ Share(d) \in Nat
      /\ Tie(c) = <<Tie(c)[1], Tie(c)[2], Tie(c)[3], Tie(c)[4]>>
      /\ Tie(d) = <<Tie(d)[1], Tie(d)[2], Tie(d)[3], Tie(d)[4]>>
      /\ Tie(c)[1] \in Int /\ Tie(c)[2] \in Int /\ Tie(c)[3] \in Int /\ Tie(c)[4] \in Int
      /\ Tie(d)[1] \in Int /\ Tie(d)[2] \in Int /\ Tie(d)[3] \in Int /\ Tie(d)[4] \in Int
  BY RankTyped
<1> DEFINE x == Lead(c) * Share(d)
           y == Lead(d) * Share(c)
<1>2. x \in Int /\ y \in Int
  BY <1>1
<1>3. /\ Before(c, d) <=> x > y \/ (x = y /\ LexBefore(Tie(c), Tie(d)))
      /\ Before(d, c) <=> y > x \/ (y = x /\ LexBefore(Tie(d), Tie(c)))
  BY BeforeMeans
<1>4. ~(LexBefore(Tie(c), Tie(d)) /\ LexBefore(Tie(d), Tie(c)))
  BY <1>1 DEF LexBefore
<1>5. \/ LexBefore(Tie(c), Tie(d)) \/ LexBefore(Tie(d), Tie(c))
      \/ /\ Tie(c)[1] = Tie(d)[1] /\ Tie(c)[2] = Tie(d)[2]
         /\ Tie(c)[3] = Tie(d)[3] /\ Tie(c)[4] = Tie(d)[4]
  BY <1>1 DEF LexBefore
<1>6. c.memory # d.memory => LexBefore(Tie(c), Tie(d)) \/ LexBefore(Tie(d), Tie(c))
  BY <1>1, <1>5, TiesBreak
<1> HIDE DEF x, y
<1> QED BY <1>2, <1>3, <1>4, <1>6

\* The order of the packing is transitive, for each policy.
LEMMA BeforeTransitive ==
  ASSUME Called
  PROVE  \A c, d, e \in Candidate : Before(c, d) /\ Before(d, e) => Before(c, e)
<1> SUFFICES ASSUME NEW c \in Candidate, NEW d \in Candidate, NEW e \in Candidate,
                    Before(c, d), Before(d, e)
             PROVE  Before(c, e)
  OBVIOUS
<1>1. /\ Lead(c) \in Int /\ Lead(d) \in Int /\ Lead(e) \in Int
      /\ Share(c) \in Nat \ {0} /\ Share(d) \in Nat \ {0} /\ Share(e) \in Nat \ {0}
      /\ Tie(c)[1] \in Int /\ Tie(c)[2] \in Int /\ Tie(c)[3] \in Int /\ Tie(c)[4] \in Int
      /\ Tie(d)[1] \in Int /\ Tie(d)[2] \in Int /\ Tie(d)[3] \in Int /\ Tie(d)[4] \in Int
      /\ Tie(e)[1] \in Int /\ Tie(e)[2] \in Int /\ Tie(e)[3] \in Int /\ Tie(e)[4] \in Int
  BY RankTyped
<1> DEFINE cd == Lead(c) * Share(d)
           dc == Lead(d) * Share(c)
           de == Lead(d) * Share(e)
           ed == Lead(e) * Share(d)
           ce == Lead(c) * Share(e)
           ec == Lead(e) * Share(c)
<1>2. /\ cd \in Int /\ dc \in Int /\ de \in Int /\ ed \in Int /\ ce \in Int /\ ec \in Int
  BY <1>1
<1>3. /\ cd >= dc /\ de >= ed => ce >= ec
      /\ cd >= dc /\ de >= ed /\ ce = ec => cd = dc /\ de = ed
  <2> DEFINE u == Lead(c)
             v == Lead(d)
             w == Lead(e)
             k == Share(c)
             l == Share(d)
             m == Share(e)
  <2>1. /\ u \in Int /\ v \in Int /\ w \in Int
        /\ k \in Nat \ {0} /\ l \in Nat \ {0} /\ m \in Nat \ {0}
    BY <1>1
  <2> HIDE DEF u, v, w, k, l, m
  <2>2. /\ u * l >= v * k /\ v * m >= w * l => u * m >= w * k
        /\ u * l >= v * k /\ v * m >= w * l /\ u * m = w * k => u * l = v * k /\ v * m = w * l
    BY <2>1, QuotientsOrdered
  <2> QED BY <2>2 DEF u, v, w, k, l, m
<1>4. /\ cd > dc \/ (cd = dc /\ LexBefore(Tie(c), Tie(d)))
      /\ de > ed \/ (de = ed /\ LexBefore(Tie(d), Tie(e)))
      /\ Before(c, e) <=> ce > ec \/ (ce = ec /\ LexBefore(Tie(c), Tie(e)))
  BY BeforeMeans
<1>5. LexBefore(Tie(c), Tie(d)) /\ LexBefore(Tie(d), Tie(e)) => LexBefore(Tie(c), Tie(e))
  BY <1>1 DEF LexBefore
<1> HIDE DEF cd, dc, de, ed, ce, ec
<1> QED BY <1>2, <1>3, <1>4, <1>5

\* No two candidates stand for one memory.
Functional(C) == \A c, d \in C : c.memory = d.memory => c = d

\* There is a best candidate: the one that ranks before most others.
LEMMA BestIs ==
  ASSUME Called
  PROVE  \A C : C \subseteq Candidate /\ IsFiniteSet(C) /\ Functional(C) /\ C # {} =>
           Best(C) \in C /\ \A d \in C \ {Best(C)} : Before(Best(C), d)
<1> SUFFICES ASSUME NEW C, C \subseteq Candidate, IsFiniteSet(C), Functional(C), C # {}
             PROVE  \E c \in C : \A d \in C \ {c} : Before(c, d)
  BY DEF Best
<1> DEFINE Behind(c) == {d \in C : Before(c, d)}
           Counts == {Cardinality(Behind(c)) : c \in C}
<1>1. Cardinality(C) \in Nat
  BY FS_CardinalityType
<1>2. \A c \in C : /\ IsFiniteSet(Behind(c)) /\ Cardinality(Behind(c)) \in Nat
                   /\ Cardinality(Behind(c)) <= Cardinality(C)
  <2> SUFFICES ASSUME NEW c \in C
               PROVE  /\ IsFiniteSet(Behind(c)) /\ Cardinality(Behind(c)) \in Nat
                      /\ Cardinality(Behind(c)) <= Cardinality(C)
    OBVIOUS
  <2>1. Behind(c) \subseteq C
    OBVIOUS
  <2> HIDE DEF Behind
  <2> QED BY <2>1, FS_Subset, FS_CardinalityType
<1>3. PICK n \in Counts : \A k \in Counts : k <= n
  <2>1. Counts \subseteq Nat /\ Counts # {} /\ \A k \in Counts : k <= Cardinality(C)
    BY <1>2
  <2> HIDE DEF Counts
  <2> QED BY <1>1, <2>1, GreatestElement
<1>4. PICK c \in C : n = Cardinality(Behind(c))
  BY <1>3
<1>5. \A d \in C : Cardinality(Behind(d)) <= Cardinality(Behind(c))
  BY <1>3, <1>4
<1>6. ASSUME NEW d \in C \ {c}, ~Before(c, d) PROVE FALSE
  <2>1. Before(d, c)
    BY <1>6, BeforeTotal DEF Functional
  <2>2. Behind(c) \cup {c} \subseteq Behind(d) /\ c \notin Behind(c)
    BY <2>1, BeforeTransitive, BeforeTotal
  <2>3. IsFiniteSet(Behind(c)) /\ IsFiniteSet(Behind(d))
        /\ Cardinality(Behind(c)) \in Nat /\ Cardinality(Behind(d)) \in Nat
        /\ Cardinality(Behind(d)) <= Cardinality(Behind(c))
    BY <1>2, <1>5
  <2> HIDE DEF Behind
  <2>4. Cardinality(Behind(c) \cup {c}) = Cardinality(Behind(c)) + 1
    BY <2>2, <2>3, FS_AddElement
  <2>5. Cardinality(Behind(c) \cup {c}) <= Cardinality(Behind(d))
    BY <2>2, <2>3, FS_Subset
  <2> QED BY <2>3, <2>4, <2>5
<1> QED BY <1>6

\* Such candidates are as finite as the memories.
LEMMA FunctionalFinite ==
  ASSUME Called
  PROVE  \A C : C \subseteq Candidate /\ Functional(C) => IsFiniteSet(C)
<1> SUFFICES ASSUME NEW C, C \subseteq Candidate, Functional(C) PROVE IsFiniteSet(C)
  OBVIOUS
<1> DEFINE f == [c \in C |-> c.memory]
<1>1. f \in [C -> snapshot]
  BY RankTyped
<1>2. \A c, d \in C : f[c] = f[d] => c = d
  BY DEF Functional
<1>3. f \in Injection(C, snapshot)
  BY <1>1, <1>2 DEF Injection, IsInjective
<1> QED BY <1>3, FS_Injection, MemoryTyped

-----------------------------------------------------------------------------
(* The inductive invariant *)

Shown == {m \in snapshot : Visible(m)}

\* The call ended without an exception, after its mandatory memories were known.
Closed == stage = "done" /\ status \in {"ok", "insufficient_context_budget"}

Needed == {m \in MemoriesOf(candidates) : m.type = "state" /\ m.needed}

Typed == TypeOK /\ Functional(candidates)

\* What the stages before this one have and have not produced.
Progress ==
  /\ available \subseteq Shown
  /\ stage # "done" => status = "none"
  /\ stage \notin {"budget", "done"} => request.budget >= 0
  /\ stage \in {"budget", "filter"} => available = {}
  /\ stage \in {"budget", "filter", "retrieve"} => retrieved = {} /\ candidates = {}
  /\ stage \in {"budget", "filter", "retrieve", "expand", "resolve", "require"} => states = {}
  /\ stage \in {"budget", "filter", "retrieve", "expand", "resolve", "require", "protect"} =>
       protected = {}
  /\ stage \notin {"pack", "account", "done"} => pool = {} /\ flexible = <<>>
  /\ ~Proposed => protected = {} /\ states = {}
  /\ stage \in {"expand", "resolve"} => Proposed /\ request.temporal
  /\ stage \in {"require", "protect", "mandatory"} => Proposed
  /\ stage = "rank" => ~Proposed

\* Every version of a key is looked at before one is kept, and one is kept.
VersionsRight ==
  /\ stage = "expand" => MemoriesOf(candidates) = retrieved
  /\ stage = "resolve" =>
       /\ retrieved \subseteq MemoriesOf(candidates)
       /\ \A k \in Keys(MemoriesOf(candidates)) : Chain(k) \subseteq MemoriesOf(candidates)
  /\ Proposed /\ request.temporal
       /\ (stage \in {"require", "protect", "mandatory", "pack", "account"} \/ Closed) =>
       /\ \A k \in Keys(retrieved) : Answering(Chain(k)) \subseteq MemoriesOf(candidates)
       /\ \A m \in MemoriesOf(candidates) : m.key # None => m \in Answering(Chain(m.key))
  /\ stage = "require" /\ request.temporal =>
       \A m, n \in MemoriesOf(candidates) : m.key # None /\ m.key = n.key => m = n

\* The mandatory memories are what the request calls for, and nothing else is
\* selected when they cost too much.
MandatoryRight ==
  /\ Proposed /\ (stage \in {"protect", "mandatory", "pack", "account"} \/ Closed) =>
       states = IF request.mandatory THEN Needed ELSE {}
  /\ Proposed /\ (stage \in {"mandatory", "pack", "account"} \/ Closed) =>
       protected = IF request.preserve THEN {m \in available : Applies(m)} ELSE {}
  /\ status = "insufficient_context_budget" =>
       flexible = <<>> /\ Cost(Mandatory) > request.budget

Considered == Competitors \ pool

\* Up to the pool the choice is final: what was considered ranks before what is
\* left, and is packed exactly if it is to be.
PackingRight ==
  stage \in {"pack", "account"} \/ Answered =>
    /\ pool \subseteq Competitors
    /\ stage # "pack" => pool = {}
    /\ Packed \subseteq MemoriesOf(Considered)
    /\ \A c \in Considered, d \in pool : Before(c, d)
    /\ remaining = FlexibleBudget - Cost(Packed)
    /\ request.policy = "sliding_window" =>
         /\ pool # {} => MemoriesOf(Considered) \subseteq Packed
         /\ \A d \in Considered :
              d.memory \in Packed <=>
                Cost({c.memory : c \in {e \in Competitors : e = d \/ Before(e, d)}})
                  <= request.budget
    /\ request.policy # "sliding_window" =>
         \A d \in Considered :
           d.memory \in Packed <=>
             d.memory.tokens + Cost(MemoriesOf(PackedAhead(d))) <= FlexibleBudget

IInv == Typed /\ Progress /\ VersionsRight /\ MandatoryRight /\ PackingRight /\ NoSpuriousError

-----------------------------------------------------------------------------
(* The steps before the packing *)

LEMMA Initially == Init => IInv
<1> SUFFICES ASSUME Init PROVE IInv
  OBVIOUS
<1>1. /\ snapshot \in Snapshot /\ request \in Request /\ stage = "budget"
      /\ available = {} /\ retrieved = {} /\ candidates = {}
      /\ protected = {} /\ states = {}
      /\ pool = {} /\ flexible = <<>> /\ remaining = 0 /\ status = "none"
  BY DEF Init
<1>2. Typed
  <2>1. <<>> \in Seq(candidates)
    OBVIOUS
  <2>2. TypeOK
    BY <1>1, <2>1 DEF TypeOK, Stages, Statuses
  <2> QED BY <1>1, <2>2 DEF Typed, Functional
<1>3. Progress
  BY <1>1 DEF Progress
<1>4. VersionsRight /\ MandatoryRight /\ PackingRight /\ NoSpuriousError
  BY <1>1 DEF VersionsRight, MandatoryRight, PackingRight, NoSpuriousError, Closed, Answered
<1> QED BY <1>2, <1>3, <1>4 DEF IInv

\* A call that fails keeps what it had.
LEMMA RaiseKeeps ==
  ASSUME IInv, stage # "done", stage \notin {"pack", "account"}, Raise, NoSpuriousError'
  PROVE  IInv'
<1>1. /\ stage' = "done" /\ status' = "error"
      /\ UNCHANGED <<snapshot, request, available, retrieved, candidates, protected, states,
                     pool, flexible, remaining>>
  BY DEF Raise, Finish, input, packing
<1>2. Typed'
  BY <1>1 DEF IInv, Typed, TypeOK, Functional, Stages, Statuses
<1>3. Progress'
  BY <1>1 DEF IInv, Progress, Shown, Visible, Proposed
<1>4. VersionsRight' /\ MandatoryRight' /\ PackingRight'
  BY <1>1 DEF VersionsRight, MandatoryRight, PackingRight, Closed, Answered
<1> QED BY <1>2, <1>3, <1>4 DEF IInv

LEMMA RefuseBudgetKeeps == ASSUME IInv, RefuseBudget PROVE IInv'
<1>1. /\ stage' = "done" /\ status' = "invalid_budget_configuration"
      /\ UNCHANGED <<snapshot, request, available, retrieved, candidates, protected, states,
                     pool, flexible, remaining>>
  BY DEF RefuseBudget, Finish, input, packing
<1>2. Typed'
  BY <1>1 DEF IInv, Typed, TypeOK, Functional, Stages, Statuses
<1>3. Progress'
  BY <1>1 DEF IInv, Progress, Shown, Visible, Proposed
<1>4. VersionsRight' /\ MandatoryRight' /\ PackingRight' /\ NoSpuriousError'
  BY <1>1 DEF VersionsRight, MandatoryRight, PackingRight, NoSpuriousError, Closed, Answered
<1> QED BY <1>2, <1>3, <1>4 DEF IInv

LEMMA AcceptBudgetKeeps == ASSUME IInv, AcceptBudget PROVE IInv'
<1>1. /\ stage = "budget" /\ stage' = "filter" /\ request.budget >= 0
      /\ UNCHANGED <<snapshot, request, available, retrieved, candidates, protected, states,
                     pool, flexible, remaining, status>>
  BY DEF AcceptBudget, input, packing
<1>2. Typed'
  BY <1>1 DEF IInv, Typed, TypeOK, Functional, Stages, Statuses
<1>3. Progress' /\ status' = "none"
  BY <1>1 DEF IInv, Progress, Shown, Visible, Proposed
<1>4. VersionsRight' /\ MandatoryRight' /\ PackingRight' /\ NoSpuriousError'
  BY <1>1, <1>3 DEF VersionsRight, MandatoryRight, PackingRight, NoSpuriousError, Closed, Answered
<1> QED BY <1>2, <1>3, <1>4 DEF IInv

LEMMA FilterKeeps == ASSUME IInv, Filter PROVE IInv'
<1>1. /\ stage = "filter" /\ Typed /\ Progress /\ status = "none"
      /\ available = {} /\ retrieved = {} /\ candidates = {} /\ states = {} /\ protected = {}
      /\ pool = {} /\ flexible = <<>>
  BY DEF IInv, Progress, Filter
<1>2. CASE /\ available' = Shown
           /\ stage' = "retrieve"
           /\ UNCHANGED <<input, retrieved, candidates, protected, states, packing, status>>
  <2>1. /\ available' = Shown /\ stage' = "retrieve"
        /\ UNCHANGED <<snapshot, request, retrieved, candidates, protected, states,
                       pool, flexible, remaining, status>>
    BY <1>2 DEF input, packing
  <2>2. Typed'
    <3>1. Shown \subseteq snapshot
      BY DEF Shown
    <3>2. <<>> \in Seq(candidates')
      OBVIOUS
    <3> QED BY <1>1, <2>1, <3>1, <3>2 DEF Typed, TypeOK, Functional, Stages, Statuses
  <2>3. Progress' /\ status' = "none"
    BY <1>1, <2>1 DEF Progress, Shown, Visible, Proposed
  <2>4. VersionsRight' /\ MandatoryRight' /\ PackingRight' /\ NoSpuriousError'
    BY <2>1, <2>3
    DEF VersionsRight, MandatoryRight, PackingRight, NoSpuriousError, Closed, Answered
  <2> QED BY <2>2, <2>3, <2>4 DEF IInv
<1>3. CASE /\ Raise
           /\ ~ /\ Proposed => Unambiguous(Shown)
                /\ request.policy = "sliding_window" => Comparable(Shown)
  <2>1. UNCHANGED <<snapshot, request>>
    BY <1>3 DEF Raise, input
  <2>2. NoSpuriousError'
    BY <1>3, <2>1 DEF NoSpuriousError, WellVersioned, Shown, Visible, Unambiguous, Comparable
  <2> QED BY <1>1, <1>3, <2>2, RaiseKeeps
<1> QED BY <1>2, <1>3 DEF Filter, Shown

\* What follows from the types of the invariant.
LEMMA TypedMeans ==
  ASSUME Typed
  PROVE  /\ Called
         /\ available \subseteq snapshot /\ candidates \subseteq Candidate
         /\ MemoriesOf(candidates) \subseteq available
         /\ IsFiniteSet(candidates) /\ IsFiniteSet(available)
         /\ Mandatory \subseteq snapshot /\ IsFiniteSet(Mandatory)
         /\ Cost(Mandatory) \in Nat
         /\ request.budget \in Int
<1>1. /\ Called /\ available \subseteq snapshot
      /\ candidates \subseteq [memory : available, relevance : 0..Scale]
      /\ protected \subseteq available /\ states \subseteq available
  BY DEF Typed, TypeOK, Called
<1>2. candidates \subseteq Candidate /\ MemoriesOf(candidates) \subseteq available
  BY <1>1 DEF Candidate, MemoriesOf
<1>3. IsFiniteSet(candidates)
  BY <1>1, <1>2, FunctionalFinite DEF Typed
<1>4. Mandatory \subseteq snapshot
  BY <1>1 DEF Mandatory
<1>5. IsFiniteSet(available) /\ IsFiniteSet(Mandatory)
  BY <1>1, <1>4, MemoryTyped, FS_Subset
<1>6. \A m \in Mandatory : m.tokens \in Nat
  BY <1>1, <1>4, MemoryTyped
<1>7. Cost(Mandatory) \in Nat
  BY <1>5, <1>6, TokenSumNat DEF Cost, TokenSum
<1> QED BY <1>1, <1>2, <1>3, <1>4, <1>5, <1>7, RequestTyped

\* The empty sequence is a packing of whatever candidates there are.
LEMMA EmptyPacking == \A C : <<>> \in Seq(C)
  OBVIOUS

\* Candidates made of memories stand for these memories, and those of two sets
\* for the memories of both.
LEMMA MemoriesOfMade ==
  ASSUME NEW S, NEW C,
         \/ C = {[memory |-> m, relevance |-> Relevance(m)] : m \in S}
         \/ C = {[memory |-> m, relevance |-> 0] : m \in S}
  PROVE  MemoriesOf(C) = S
<1>1. \A c \in C : c.memory \in S
  OBVIOUS
<1>2. ASSUME NEW m \in S PROVE \E c \in C : c.memory = m
  <2>1. \/ [memory |-> m, relevance |-> Relevance(m)] \in C
        \/ [memory |-> m, relevance |-> 0] \in C
    OBVIOUS
  <2>2. \A r : [memory |-> m, relevance |-> r].memory = m
    OBVIOUS
  <2> QED BY <2>1, <2>2
<1> QED BY <1>1, <1>2, Zenon DEF MemoriesOf

LEMMA MemoriesOfBoth == \A C, D : MemoriesOf(C \cup D) = MemoriesOf(C) \cup MemoriesOf(D)
BY DEF MemoriesOf

LEMMA RetrieveKeeps == ASSUME IInv, Retrieve PROVE IInv'
<1>1. /\ stage = "retrieve" /\ Typed /\ Progress /\ status = "none"
      /\ candidates = {} /\ states = {} /\ protected = {} /\ pool = {} /\ flexible = <<>>
      /\ request.budget >= 0 /\ Called
  BY TypedMeans DEF IInv, Progress, Retrieve
<1>2. /\ retrieved' = Nearest(Searched)
      /\ candidates' = {[memory |-> m, relevance |-> Relevance(m)] : m \in retrieved'}
      /\ stage' = IF ~Proposed THEN "rank" ELSE IF request.temporal THEN "expand" ELSE "require"
      /\ UNCHANGED <<snapshot, request, available, protected, states, pool, flexible,
                     remaining, status>>
  BY DEF Retrieve, input, packing
<1>3. retrieved' \subseteq available
  BY <1>2 DEF Nearest, Searched
<1>4. \A m \in available : Relevance(m) \in 0..Scale
  <2>1. \A m \in available : m.similarity \in Int /\ m.similarity <= Scale
    BY <1>1, MemoryTyped, TypedMeans
  <2>2. Scale \in Nat
    BY MemoryAssumption
  <2> QED BY <2>1, <2>2 DEF Relevance, Larger
<1>5. /\ candidates' \subseteq [memory : available, relevance : 0..Scale]
      /\ Functional(candidates)' /\ MemoriesOf(candidates') = retrieved'
  <2>1. candidates' \subseteq [memory : available, relevance : 0..Scale]
    BY <1>2, <1>3, <1>4
  <2>2. Functional(candidates)'
    BY <1>2 DEF Functional
  <2>3. MemoriesOf(candidates') = retrieved'
    BY <1>2, MemoriesOfMade
  <2> QED BY <2>1, <2>2, <2>3
<1>6. Typed'
  BY <1>1, <1>2, <1>3, <1>5, EmptyPacking DEF Typed, TypeOK, Stages, Statuses
<1>7. Progress'
  BY <1>1, <1>2 DEF Progress, Shown, Visible, Proposed
<1>8. VersionsRight'
  BY <1>2, <1>5 DEF VersionsRight, Closed, MemoriesOf
<1>9. MandatoryRight' /\ PackingRight' /\ NoSpuriousError'
  BY <1>1, <1>2 DEF MandatoryRight, PackingRight, NoSpuriousError, Closed, Answered
<1> QED BY <1>6, <1>7, <1>8, <1>9 DEF IInv

LEMMA TakeAllKeeps == ASSUME IInv, TakeAll PROVE IInv'
<1>1. /\ stage = "retrieve" /\ Typed /\ Progress /\ status = "none"
      /\ candidates = {} /\ states = {} /\ protected = {} /\ pool = {} /\ flexible = <<>>
      /\ request.budget >= 0 /\ Called
  BY TypedMeans DEF IInv, Progress, TakeAll
<1>2. /\ candidates' = {[memory |-> m, relevance |-> 0] : m \in available}
      /\ stage' = "rank" /\ ~Proposed
      /\ UNCHANGED <<snapshot, request, available, retrieved, protected, states, pool, flexible,
                     remaining, status>>
  BY DEF TakeAll, input, packing, Proposed
<1>3. 0 \in 0..Scale
  BY MemoryAssumption
<1>4. /\ candidates' \subseteq [memory : available, relevance : 0..Scale]
      /\ Functional(candidates)'
  BY <1>2, <1>3 DEF Functional
<1>5. Typed'
  BY <1>1, <1>2, <1>4, EmptyPacking DEF Typed, TypeOK, Stages, Statuses
<1>6. Progress'
  BY <1>1, <1>2 DEF Progress, Shown, Visible, Proposed
<1>7. VersionsRight' /\ MandatoryRight' /\ PackingRight' /\ NoSpuriousError'
  BY <1>1, <1>2
  DEF VersionsRight, MandatoryRight, PackingRight, NoSpuriousError, Closed, Answered
<1> QED BY <1>5, <1>6, <1>7 DEF IInv

LEMMA ExpandKeeps == ASSUME IInv, Expand PROVE IInv'
<1> DEFINE chains == {Chain(k) : k \in Keys(MemoriesOf(candidates))}
           added  == (UNION chains) \ MemoriesOf(candidates)
<1>1. /\ stage = "expand" /\ Typed /\ Progress /\ status = "none"
      /\ MemoriesOf(candidates) = retrieved
      /\ states = {} /\ protected = {} /\ pool = {} /\ flexible = <<>>
      /\ request.budget >= 0 /\ Proposed /\ request.temporal /\ Called
  BY TypedMeans DEF IInv, Progress, VersionsRight, Expand
<1>2. CASE /\ candidates' = candidates \cup {[memory |-> m, relevance |-> 0] : m \in added}
           /\ stage' = "resolve"
           /\ UNCHANGED <<input, available, retrieved, protected, states, packing, status>>
  <2>1. UNCHANGED <<snapshot, request, available, retrieved, protected, states, pool, flexible,
                    remaining, status>>
    BY <1>2 DEF input, packing
  <2>2. added \subseteq available /\ added \cap MemoriesOf(candidates) = {}
    <3>1. \A S \in chains : S \subseteq available
      BY DEF Chain
    <3> HIDE DEF chains
    <3> QED BY <3>1
  <2>3. candidates' \subseteq [memory : available, relevance : 0..Scale]
    <3>1. candidates \subseteq [memory : available, relevance : 0..Scale] /\ 0 \in 0..Scale
      BY <1>1, MemoryAssumption DEF Typed, TypeOK
    <3> HIDE DEF added
    <3> QED BY <1>2, <2>2, <3>1
  <2>4. Functional(candidates')
    <3> HIDE DEF added
    <3>1. Functional(candidates)
      BY <1>1 DEF Typed
    <3> QED BY <1>2, <2>2, <3>1 DEF Functional, MemoriesOf
  <2>5. MemoriesOf(candidates') = MemoriesOf(candidates) \cup UNION chains
    <3>1. MemoriesOf(candidates') = MemoriesOf(candidates) \cup added
      <4> DEFINE fresh == {[memory |-> m, relevance |-> 0] : m \in added}
      <4>1. candidates' = candidates \cup fresh
        BY <1>2
      <4> HIDE DEF added
      <4>2. MemoriesOf(fresh) = added
        BY MemoriesOfMade
      <4> HIDE DEF fresh
      <4> QED BY <4>1, <4>2, MemoriesOfBoth
    <3> HIDE DEF chains
    <3> QED BY <3>1
  <2>6. Typed'
    <3>1. Functional(candidates)'
      BY <2>4 DEF Functional
    <3> QED BY <1>1, <1>2, <2>1, <2>3, <3>1, EmptyPacking DEF Typed, TypeOK, Stages, Statuses
  <2>7. Progress'
    BY <1>1, <1>2, <2>1 DEF Progress, Shown, Visible, Proposed
  <2>8. \A k \in Keys(MemoriesOf(candidates')) :
          k \in Keys(MemoriesOf(candidates)) /\ Chain(k) \subseteq MemoriesOf(candidates')
    BY <2>5 DEF Keys, Chain
  <2>9. VersionsRight'
    BY <1>1, <1>2, <2>1, <2>5, <2>8 DEF VersionsRight, Closed, MemoriesOf, Chain
  <2>10. MandatoryRight' /\ PackingRight' /\ NoSpuriousError'
    BY <1>1, <1>2, <2>1 DEF MandatoryRight, PackingRight, NoSpuriousError, Closed, Answered
  <2> QED BY <2>6, <2>7, <2>9, <2>10 DEF IInv
<1>3. CASE (\E c \in chains : ~Comparable(c)) /\ Raise
  <2>1. UNCHANGED <<snapshot, request>>
    BY <1>3 DEF Raise, input
  <2>2. ~Comparable(Shown)
    <3>1. \A c \in chains : c \subseteq Shown
      BY <1>1 DEF Chain, Progress
    <3> HIDE DEF chains
    <3> QED BY <1>3, <3>1 DEF Comparable
  <2>3. NoSpuriousError'
    BY <2>1, <2>2 DEF NoSpuriousError, Shown, Visible, Comparable
  <2> QED BY <1>1, <1>3, <2>3, RaiseKeeps
<1> QED BY <1>2, <1>3 DEF Expand

\* A finite set with no two elements has at most one.
LEMMA AtMostOne ==
  \A S : IsFiniteSet(S) => (Cardinality(S) <= 1 <=> \A m, n \in S : m = n)
<1> SUFFICES ASSUME NEW S, IsFiniteSet(S)
             PROVE  Cardinality(S) <= 1 <=> \A m, n \in S : m = n
  OBVIOUS
<1>1. Cardinality(S) \in Nat
  BY FS_CardinalityType
<1>2. ASSUME NEW m \in S, NEW n \in S, m # n PROVE ~(Cardinality(S) <= 1)
  <2>1. IsFiniteSet({m}) /\ Cardinality({m}) = 1
    BY FS_Singleton
  <2>2. IsFiniteSet({m} \cup {n}) /\ Cardinality({m} \cup {n}) = 2
    <3> DEFINE M == {m}
    <3>1. n \notin M
      BY <1>2
    <3> HIDE DEF M
    <3>2. IsFiniteSet(M) /\ Cardinality(M) = 1
      BY <2>1 DEF M
    <3>3. IsFiniteSet(M \cup {n}) /\ Cardinality(M \cup {n}) = 1 + 1
      BY <3>1, <3>2, FS_AddElement
    <3> QED BY <3>3 DEF M
  <2>3. Cardinality({m} \cup {n}) <= Cardinality(S)
    BY <2>2, FS_Subset
  <2> QED BY <1>1, <2>2, <2>3
<1>3. ASSUME \A m, n \in S : m = n PROVE Cardinality(S) <= 1
  <2>1. CASE S = {}
    BY <2>1, FS_EmptySet
  <2>2. ASSUME NEW m \in S PROVE Cardinality(S) <= 1
    <3>1. S = {m}
      BY <1>3, <2>2
    <3> QED BY <3>1, FS_Singleton
  <2> QED BY <2>1, <2>2
<1> QED BY <1>2, <1>3

\* Of the versions that the store can have produced, one at most answers.
LEMMA OneAnswers ==
  ASSUME Called, NEW S, S \subseteq Shown, NEW k, k # None, \A m \in S : m.key = k,
         NEW m \in Answering(S), NEW n \in Answering(S), m # n
  PROVE  ~WellVersioned(Shown)
<1>1. m \in S /\ n \in S /\ Matches(m) /\ Matches(n)
  BY DEF Answering
<1>2. /\ m \in snapshot /\ n \in snapshot /\ m \in Shown /\ n \in Shown
      /\ m.key = n.key /\ m.key # None
  BY <1>1 DEF Shown
<1>3. /\ m.from \in Int /\ n.from \in Int /\ m.id \in Int /\ n.id \in Int
      /\ m.to # None => m.to \in Int
      /\ n.to # None => n.to \in Int
  BY <1>2, MemoryTyped
<1>4. /\ request.start \in Int /\ request.end \in Int
      /\ request.intent \in {"current", "point", "range"}
  BY RequestTyped
<1>5. CASE request.intent = "current"
  <2>1. m.active /\ n.active
    BY <1>1, <1>5 DEF Matches
  <2> QED BY <1>2, <2>1 DEF WellVersioned, Unambiguous
<1>6. CASE request.intent = "point"
  <2>1. /\ m.from <= request.start /\ (m.to = None \/ request.start < m.to)
        /\ n.from <= request.start /\ (n.to = None \/ request.start < n.to)
    BY <1>1, <1>6 DEF Matches
  <2>2. /\ ~(m.to # None /\ m.to <= n.from)
        /\ ~(n.to # None /\ n.to <= m.from)
    BY <1>3, <1>4, <2>1
  <2> QED BY <1>2, <2>2 DEF WellVersioned
<1>7. CASE request.intent = "range"
  <2>1. Longer(m, n) /\ Longer(n, m)
    BY <1>7 DEF Answering
  <2>2. Overlap(m) \in Int /\ Overlap(n) \in Int
    BY <1>3, <1>4 DEF Overlap, Smaller, Larger
  <2> DEFINE a == Overlap(m)
             b == m.from
             c == 0 - m.id
             p == Overlap(n)
             q == n.from
             r == 0 - n.id
  <2>3. Exceeds(<<a, b, c>>, <<p, q, r>>) /\ Exceeds(<<p, q, r>>, <<a, b, c>>)
    BY <2>1 DEF Longer
  <2>4. a \in Int /\ b \in Int /\ c \in Int /\ p \in Int /\ q \in Int /\ r \in Int
    BY <1>3, <2>2
  <2> HIDE DEF a, b, c, p, q, r
  <2>5. /\ a > p \/ (a = p /\ b > q) \/ (a = p /\ b = q /\ c > r)
        /\ p > a \/ (p = a /\ q > b) \/ (p = a /\ q = b /\ r > c)
    BY <2>3, <2>4, ExceedsTriples
  <2> QED BY <2>4, <2>5
<1> QED BY <1>4, <1>5, <1>6, <1>7

LEMMA ResolveKeeps == ASSUME IInv, Resolve PROVE IInv'
<1> DEFINE found    == MemoriesOf(candidates)
           group(k) == {m \in found : m.key = k}
           clear    == \A k \in Keys(found) :
                         /\ HistoricalIntent => \A m \in group(k) : m.aware = request.aware
                         /\ Cardinality(Answering(group(k))) <= 1
<1>1. /\ stage = "resolve" /\ Typed /\ Progress /\ status = "none"
      /\ states = {} /\ protected = {} /\ pool = {} /\ flexible = <<>>
      /\ request.budget >= 0 /\ Proposed /\ request.temporal /\ Called
      /\ retrieved \subseteq found
      /\ found \subseteq available /\ available \subseteq Shown /\ IsFiniteSet(available)
  BY TypedMeans DEF IInv, Progress, VersionsRight, Resolve
<1>2. \A k \in Keys(found) : group(k) = Chain(k)
  <2>1. \A k \in Keys(found) : Chain(k) \subseteq found
    BY <1>1 DEF IInv, VersionsRight
  <2> QED BY <1>1, <2>1 DEF Chain
<1>3. \A k : Answering(group(k)) \subseteq group(k) /\ IsFiniteSet(Answering(group(k)))
  <2> SUFFICES ASSUME NEW k PROVE Answering(group(k)) \subseteq group(k) /\ IsFiniteSet(Answering(group(k)))
    OBVIOUS
  <2>1. group(k) \subseteq available
    BY <1>1
  <2> HIDE DEF group
  <2>2. Answering(group(k)) \subseteq group(k)
    BY DEF Answering
  <2> QED BY <1>1, <2>1, <2>2, FS_Subset
<1>4. \A m \in found : m.key # None => m.key \in Keys(found)
  BY DEF Keys
<1>5. CASE /\ clear
           /\ candidates' = {c \in candidates :
                               \/ c.memory.key = None
                               \/ c.memory \in Answering(group(c.memory.key))}
           /\ stage' = "require"
           /\ UNCHANGED <<input, available, retrieved, protected, states, packing, status>>
  <2>1. UNCHANGED <<snapshot, request, available, retrieved, protected, states, pool, flexible,
                    remaining, status>>
    BY <1>5 DEF input, packing
  <2>2. candidates' \subseteq candidates
    BY <1>5
  <2>3. \A m : m \in MemoriesOf(candidates') <=>
                 m \in found /\ (m.key = None \/ m \in Answering(group(m.key)))
    <3> HIDE DEF group
    <3> QED BY <1>5 DEF MemoriesOf
  <2>4. Typed'
    BY <1>1, <1>5, <2>1, <2>2, EmptyPacking DEF Typed, TypeOK, Stages, Statuses, Functional
  <2>5. Progress'
    BY <1>1, <1>5, <2>1 DEF Progress, Shown, Visible, Proposed
  <2>6. ASSUME NEW k \in Keys(retrieved) PROVE Answering(Chain(k)) \subseteq MemoriesOf(candidates')
    <3>1. k \in Keys(found) /\ k # None
      BY <1>1 DEF Keys
    <3>2. group(k) = Chain(k) /\ Answering(group(k)) \subseteq group(k)
      BY <1>2, <1>3, <3>1
    <3>3. \A m \in group(k) : m \in found /\ m.key = k
      OBVIOUS
    <3> HIDE DEF group
    <3> QED BY <2>3, <3>1, <3>2, <3>3
  <2>7. ASSUME NEW m \in MemoriesOf(candidates'), m.key # None
        PROVE  /\ m \in Answering(group(m.key)) /\ group(m.key) = Chain(m.key)
               /\ Cardinality(Answering(group(m.key))) <= 1
    <3>1. m \in found /\ m \in Answering(group(m.key))
      BY <2>3, <2>7
    <3>2. m.key \in Keys(found)
      BY <1>4, <2>7, <3>1
    <3>3. Cardinality(Answering(group(m.key))) <= 1
      BY <1>5, <3>2
    <3> QED BY <1>2, <3>1, <3>2, <3>3
  <2>8. ASSUME NEW m \in MemoriesOf(candidates'), NEW n \in MemoriesOf(candidates'),
               m.key # None, m.key = n.key
        PROVE  m = n
    <3>1. m \in Answering(group(m.key)) /\ n \in Answering(group(m.key))
      BY <2>7, <2>8
    <3>2. Cardinality(Answering(group(m.key))) <= 1
      BY <2>7, <2>8
    <3> HIDE DEF group
    <3> QED BY <1>3, <3>1, <3>2, AtMostOne
  <2>9. VersionsRight'
    <3>1. \A k : Chain(k)' = Chain(k)
      BY <2>1 DEF Chain
    <3>2. \A S : Answering(S)' = Answering(S)
      BY <2>1 DEF Answering, Matches, Longer, Overlap
    <3>3. \A m \in MemoriesOf(candidates') : m.key # None => m \in Answering(Chain(m.key))
      <4> SUFFICES ASSUME NEW m \in MemoriesOf(candidates'), m.key # None
                   PROVE  m \in Answering(Chain(m.key))
        OBVIOUS
      <4>1. m \in Answering(group(m.key)) /\ group(m.key) = Chain(m.key)
        BY <2>7
      <4> HIDE DEF group
      <4> QED BY <4>1
    <3>4. \A k \in Keys(retrieved) : (Answering(Chain(k)))' = Answering(Chain(k))
      BY <2>1 DEF Answering, Matches, Longer, Overlap, Chain
    <3>5. \A m : (Answering(Chain(m.key)))' = Answering(Chain(m.key))
      BY <2>1 DEF Answering, Matches, Longer, Overlap, Chain
    <3>6. MemoriesOf(candidates)' = MemoriesOf(candidates') /\ Keys(retrieved)' = Keys(retrieved)
      BY <2>1 DEF MemoriesOf, Keys
    <3> QED BY <1>5, <2>6, <2>8, <3>3, <3>4, <3>5, <3>6 DEF VersionsRight, Closed
  <2>10. MandatoryRight' /\ PackingRight' /\ NoSpuriousError'
    BY <1>1, <1>5, <2>1 DEF MandatoryRight, PackingRight, NoSpuriousError, Closed, Answered
  <2> QED BY <2>4, <2>5, <2>9, <2>10 DEF IInv
<1>6. CASE ~clear /\ Raise
  <2>1. UNCHANGED <<snapshot, request>>
    BY <1>6 DEF Raise, input
  <2>2. PICK k \in Keys(found) :
          ~ /\ HistoricalIntent => \A m \in group(k) : m.aware = request.aware
            /\ Cardinality(Answering(group(k))) <= 1
    BY <1>6
  <2>3. group(k) \subseteq Shown /\ k # None
    BY <1>1 DEF Keys
  <2>4. NoSpuriousError'
    <3>1. CASE \E m \in group(k) : m.aware # request.aware
      BY <2>1, <2>3, <3>1 DEF NoSpuriousError, Shown, Visible
    <3>2. CASE ~(Cardinality(Answering(group(k))) <= 1)
      <4>1. \E m, n \in Answering(group(k)) : m # n
        <5>1. IsFiniteSet(Answering(group(k)))
          BY <1>3
        <5> HIDE DEF group
        <5> QED BY <3>2, <5>1, AtMostOne
      <4>2. \A m \in group(k) : m.key = k
        OBVIOUS
      <4>3. ~WellVersioned(Shown)
        <5> HIDE DEF group
        <5> QED BY <1>1, <2>3, <4>1, <4>2, OneAnswers
      <4> QED BY <2>1, <4>3 DEF NoSpuriousError, Shown, Visible, WellVersioned, Unambiguous
    <3> QED BY <2>2, <3>1, <3>2
  <2> QED BY <1>1, <1>6, <2>4, RaiseKeeps
<1> QED BY <1>5, <1>6 DEF Resolve

\* What was resolved stays so while the candidates stay.
LEMMA VersionsStay ==
  ASSUME UNCHANGED <<request, available, retrieved, candidates>>
  PROVE  /\ \A k : (Answering(Chain(k)))' = Answering(Chain(k))
         /\ MemoriesOf(candidates)' = MemoriesOf(candidates)
         /\ Keys(retrieved)' = Keys(retrieved)
<1>1. \A k : (Answering(Chain(k)))' = Answering(Chain(k))
  BY DEF Answering, Matches, Longer, Overlap, Chain
<1> QED BY <1>1 DEF MemoriesOf, Keys

\* Two needed states of one key cannot have come out of the resolution.
LEMMA RequireMeans ==
  ASSUME IInv, Require
  PROVE  /\ stage' = "protect"
         /\ states' = IF request.mandatory THEN Needed ELSE {}
         /\ UNCHANGED <<snapshot, request, available, retrieved, candidates, protected,
                        pool, flexible, remaining, status>>
<1>1. /\ Typed /\ VersionsRight /\ stage = "require" /\ states = {}
      /\ request.mandatory => request.temporal
  BY TypedMeans, RequestTyped DEF IInv, Progress, Require
<1>2. \A m \in MemoriesOf(candidates) : m.type = "state" => m.key # None
  BY <1>1, TypedMeans, MemoryTyped
<1>3. request.mandatory => \A m, n \in Needed : m.key = n.key => m = n
  BY <1>1, <1>2 DEF Needed, VersionsRight
<1> QED BY <1>1, <1>3 DEF Require, Needed, input, packing

LEMMA RequireKeeps == ASSUME IInv, Require PROVE IInv'
<1>1. /\ stage = "require" /\ Typed /\ Progress /\ VersionsRight /\ status = "none"
      /\ protected = {} /\ pool = {} /\ flexible = <<>> /\ request.budget >= 0 /\ Proposed
      /\ MemoriesOf(candidates) \subseteq available
  BY TypedMeans DEF IInv, Progress, Require
<1>2. /\ stage' = "protect"
      /\ states' = IF request.mandatory THEN Needed ELSE {}
      /\ UNCHANGED <<snapshot, request, available, retrieved, candidates, protected,
                     pool, flexible, remaining, status>>
  BY RequireMeans
<1>3. states' \subseteq available
  BY <1>1, <1>2 DEF Needed
<1>4. Typed'
  BY <1>1, <1>2, <1>3 DEF Typed, TypeOK, Functional, Stages, Statuses
<1>5. Progress'
  BY <1>1, <1>2 DEF Progress, Shown, Visible, Proposed
<1>6. VersionsRight'
  BY <1>1, <1>2, VersionsStay DEF VersionsRight, Closed, Proposed
<1>7. MandatoryRight' /\ PackingRight' /\ NoSpuriousError'
  BY <1>1, <1>2 DEF MandatoryRight, PackingRight, NoSpuriousError, Closed, Answered, Needed, MemoriesOf
<1> QED BY <1>4, <1>5, <1>6, <1>7 DEF IInv

LEMMA ProtectKeeps == ASSUME IInv, Protect PROVE IInv'
<1>1. /\ stage = "protect" /\ Typed /\ Progress /\ VersionsRight /\ MandatoryRight
      /\ status = "none" /\ protected = {} /\ pool = {} /\ flexible = <<>> /\ Proposed
  BY DEF IInv, Progress, Protect
<1>2. /\ stage' = "mandatory"
      /\ protected' = IF request.preserve THEN {m \in available : Applies(m)} ELSE {}
      /\ UNCHANGED <<snapshot, request, available, retrieved, candidates, states,
                     pool, flexible, remaining, status>>
  BY DEF Protect, input, packing
<1>3. Typed'
  BY <1>1, <1>2 DEF Typed, TypeOK, Functional, Stages, Statuses
<1>4. Progress'
  BY <1>1, <1>2 DEF Progress, Shown, Visible, Proposed
<1>5. VersionsRight'
  BY <1>1, <1>2, VersionsStay DEF VersionsRight, Closed, Proposed
<1>6. MandatoryRight'
  BY <1>1, <1>2 DEF MandatoryRight, Closed, Needed, MemoriesOf, Proposed, Applies, ActiveProtected
<1>7. PackingRight' /\ NoSpuriousError'
  BY <1>1, <1>2 DEF PackingRight, NoSpuriousError, Answered
<1> QED BY <1>3, <1>4, <1>5, <1>6, <1>7 DEF IInv

LEMMA FailMandatoryKeeps == ASSUME IInv, FailMandatory PROVE IInv'
<1>1. /\ stage = "mandatory" /\ Typed /\ Progress /\ VersionsRight /\ MandatoryRight
      /\ status = "none" /\ pool = {} /\ flexible = <<>> /\ Proposed
  BY DEF IInv, Progress, FailMandatory
<1>2. /\ stage' = "done" /\ status' = "insufficient_context_budget" /\ ~Affordable
      /\ UNCHANGED <<snapshot, request, available, retrieved, candidates, protected, states,
                     pool, flexible, remaining>>
  BY DEF FailMandatory, Finish, input, packing
<1>3. Cost(Mandatory) > request.budget
  BY <1>1, <1>2, TypedMeans DEF Affordable
<1>4. (Cost(Mandatory) > request.budget)'
  <2>1. Mandatory' = Mandatory
    BY <1>2 DEF Mandatory
  <2> QED BY <1>2, <1>3, <2>1
<1>5. Typed'
  BY <1>1, <1>2 DEF Typed, TypeOK, Functional, Stages, Statuses
<1>6. Progress'
  BY <1>1, <1>2 DEF Progress, Shown, Visible, Proposed
<1>7. VersionsRight'
  BY <1>1, <1>2, VersionsStay DEF VersionsRight, Closed, Proposed
<1>8. MandatoryRight'
  BY <1>1, <1>2, <1>4
  DEF MandatoryRight, Closed, Needed, MemoriesOf, Proposed, Applies, ActiveProtected
<1>9. PackingRight' /\ NoSpuriousError'
  BY <1>1, <1>2 DEF PackingRight, NoSpuriousError, Answered
<1> QED BY <1>5, <1>6, <1>7, <1>8, <1>9 DEF IInv

\* Nothing has been considered when the packing starts.
LEMMA PackingStarts ==
  ASSUME stage' = "pack", pool' = Competitors', flexible' = <<>>,
         remaining' = FlexibleBudget', remaining' \in Nat
  PROVE  PackingRight'
<1>1. Packed' = {} /\ Considered' = {} /\ (MemoriesOf(Considered))' = {}
  BY DEF Packed, Considered, MemoriesOf
<1>2. Cost({}) = 0
  BY TokenSumEmpty DEF Cost, TokenSum
<1>3. Cost(Packed') = 0
  BY <1>1, <1>2
<1>4. (remaining = FlexibleBudget - Cost(Packed))'
  <2>1. remaining' = FlexibleBudget'
    OBVIOUS
  <2>2. \A x \in Nat : x - 0 = x
    OBVIOUS
  <2>3. remaining' \in Nat
    OBVIOUS
  <2> QED BY <1>3, <2>1, <2>2, <2>3
<1> QED BY <1>1, <1>4 DEF PackingRight, Answered

LEMMA AdmitMandatoryKeeps == ASSUME IInv, AdmitMandatory PROVE IInv'
<1>1. /\ stage = "mandatory" /\ Typed /\ Progress /\ VersionsRight /\ MandatoryRight
      /\ status = "none" /\ pool = {} /\ flexible = <<>> /\ Proposed /\ request.budget >= 0
  BY DEF IInv, Progress, AdmitMandatory
<1>2. /\ stage' = "pack" /\ Affordable
      /\ pool' = {c \in candidates : Competes(c)}
      /\ remaining' = request.budget - Cost(Mandatory)
      /\ UNCHANGED <<snapshot, request, available, retrieved, candidates, protected, states,
                     flexible, status>>
  BY DEF AdmitMandatory, input
<1>3. remaining' \in Nat
  BY <1>1, <1>2, TypedMeans DEF Affordable
<1>4. pool' \subseteq candidates
  BY <1>2
<1>5. Typed'
  BY <1>1, <1>2, <1>3, <1>4 DEF Typed, TypeOK, Functional, Stages, Statuses
<1>6. Progress'
  BY <1>1, <1>2 DEF Progress, Shown, Visible, Proposed
<1>7. VersionsRight'
  BY <1>1, <1>2, VersionsStay DEF VersionsRight, Closed, Proposed
<1>8. MandatoryRight'
  BY <1>1, <1>2 DEF MandatoryRight, Closed, Needed, MemoriesOf, Proposed, Applies, ActiveProtected
<1>9. PackingRight'
  <2>1. (pool = Competitors)' /\ (remaining = FlexibleBudget)'
    <3>1. Mandatory' = Mandatory /\ Proposed' /\ \A c : Competes(c)' <=> Competes(c)
      BY <1>1, <1>2 DEF Mandatory, Proposed, Competes, ActiveProtected
    <3> QED BY <1>2, <3>1 DEF Competitors, FlexibleBudget
  <2> QED BY <1>1, <1>2, <1>3, <2>1, PackingStarts
<1>10. NoSpuriousError'
  BY <1>1, <1>2 DEF NoSpuriousError
<1> QED BY <1>5, <1>6, <1>7, <1>8, <1>9, <1>10 DEF IInv

LEMMA RankKeeps == ASSUME IInv, Rank PROVE IInv'
<1>1. /\ stage = "rank" /\ Typed /\ Progress /\ protected = {} /\ states = {}
      /\ status = "none" /\ pool = {} /\ flexible = <<>> /\ ~Proposed /\ request.budget >= 0
  BY DEF IInv, Progress, Rank
<1>2. /\ stage' = "pack"
      /\ pool' = candidates /\ remaining' = request.budget
      /\ UNCHANGED <<snapshot, request, available, retrieved, candidates, protected, states,
                     flexible, status>>
  BY DEF Rank, input
<1>3. remaining' \in Nat
  BY <1>1, <1>2, TypedMeans
<1>4. Typed'
  BY <1>1, <1>2, <1>3 DEF Typed, TypeOK, Functional, Stages, Statuses
<1>5. Progress'
  BY <1>1, <1>2 DEF Progress, Shown, Visible, Proposed
<1>6. ~Proposed'
  BY <1>1, <1>2 DEF Proposed
<1>7. PackingRight'
  <2>1. Mandatory' = {}
    BY <1>1, <1>2 DEF Mandatory
  <2>2. Cost(Mandatory') = 0
    BY <2>1, TokenSumEmpty DEF Cost, TokenSum
  <2>3. (remaining = FlexibleBudget)'
    <3>1. request.budget - 0 = request.budget
      BY <1>1, TypedMeans
    <3> QED BY <1>2, <2>2, <3>1 DEF FlexibleBudget
  <2>4. (pool = Competitors)'
    BY <1>2, <1>6 DEF Competitors
  <2> QED BY <1>1, <1>2, <1>3, <2>3, <2>4, PackingStarts
<1>8. VersionsRight' /\ MandatoryRight' /\ NoSpuriousError'
  BY <1>1, <1>2, <1>6 DEF VersionsRight, MandatoryRight, NoSpuriousError
<1> QED BY <1>4, <1>5, <1>7, <1>8 DEF IInv

-----------------------------------------------------------------------------
(* The packing *)

\* The order and the competitors stay while a call is packed.
LEMMA CompetitionStays ==
  ASSUME UNCHANGED <<request, candidates, protected, states>>
  PROVE  /\ \A c, d : Before(c, d)' <=> Before(c, d)
         /\ Competitors' = Competitors
         /\ Mandatory' = Mandatory
         /\ FlexibleBudget' = FlexibleBudget
         /\ Proposed' <=> Proposed
<1>1. \A c, d : Standing(c, d)' = Standing(c, d)
  BY DEF Standing, Utility, Recency
<1>2. \A c, d : Before(c, d)' <=> Before(c, d)
  BY <1>1 DEF Before
<1>3. Mandatory' = Mandatory /\ (Proposed' <=> Proposed)
  BY DEF Mandatory, Proposed
<1>4. \A c : Competes(c)' <=> Competes(c)
  BY <1>3 DEF Competes
<1>5. Competitors' = Competitors
  BY <1>3, <1>4 DEF Competitors
<1>6. FlexibleBudget' = FlexibleBudget
  BY <1>3 DEF FlexibleBudget
<1> QED BY <1>2, <1>3, <1>5, <1>6

\* What is known while candidates are packed and afterwards.
LEMMA PackingFacts ==
  ASSUME IInv, stage \in {"pack", "account"} \/ Answered
  PROVE  /\ Called /\ Typed /\ Progress
         /\ Competitors \subseteq candidates /\ Competitors \subseteq Candidate
         /\ Functional(Competitors)
         /\ pool \subseteq Competitors
         /\ Packed \subseteq MemoriesOf(Considered)
         /\ Packed \subseteq snapshot /\ IsFiniteSet(Packed)
         /\ Cost(Packed) \in Nat /\ FlexibleBudget \in Int /\ remaining \in Nat
         /\ remaining = FlexibleBudget - Cost(Packed)
         /\ FlexibleBudget <= request.budget
         /\ request.policy = "sliding_window" => FlexibleBudget = request.budget
         /\ request.budget \in Int
         /\ \A c \in Considered, d \in pool : Before(c, d)
         /\ \A m \in snapshot : m.tokens \in Nat
<1>1. Called /\ Typed /\ Progress /\ PackingRight
  BY TypedMeans DEF IInv
<1>2. Competitors \subseteq candidates
  BY DEF Competitors
<1>3. Competitors \subseteq Candidate /\ Functional(Competitors)
  BY <1>1, <1>2, TypedMeans DEF Typed, Functional
<1>4. /\ pool \subseteq Competitors /\ Packed \subseteq MemoriesOf(Considered)
      /\ remaining = FlexibleBudget - Cost(Packed)
      /\ \A c \in Considered, d \in pool : Before(c, d)
  BY <1>1 DEF PackingRight
<1>5. Packed \subseteq snapshot
  BY <1>1, <1>2, <1>4, TypedMeans DEF Considered, MemoriesOf
<1>6. \A m \in snapshot : m.tokens \in Nat
  BY <1>1, MemoryTyped
<1>7. IsFiniteSet(Packed)
  BY <1>1, <1>5, MemoryTyped, FS_Subset
<1>8. Cost(Packed) \in Nat
  BY <1>5, <1>6, <1>7, TokenSumNat DEF Cost, TokenSum
<1>9. request.budget \in Int /\ Cost(Mandatory) \in Nat
  BY <1>1, TypedMeans
<1>10. request.policy = "sliding_window" => Cost(Mandatory) = 0
  <2>1. request.policy = "sliding_window" => Mandatory = {}
    BY <1>1 DEF Progress, Proposed, Mandatory
  <2> QED BY <2>1, TokenSumEmpty DEF Cost, TokenSum
<1>11. /\ FlexibleBudget \in Int /\ FlexibleBudget <= request.budget
       /\ request.policy = "sliding_window" => FlexibleBudget = request.budget
  BY <1>9, <1>10 DEF FlexibleBudget
<1>12. remaining \in Nat
  BY <1>1 DEF Typed, TypeOK
<1> QED BY <1>1, <1>2, <1>3, <1>4, <1>5, <1>6, <1>7, <1>8, <1>9, <1>11, <1>12

\* What is known of the candidate whose turn it is: all that was considered
\* ranks before it and all that is left behind it, and it was not packed yet.
LEMMA NextInLine ==
  ASSUME IInv, stage = "pack", pool # {}
  PROVE  /\ Best(pool) \in pool /\ Best(pool).memory \in snapshot
         /\ Best(pool).memory.tokens \in Nat
         /\ \A d \in pool \ {Best(pool)} : Before(Best(pool), d)
         /\ \A c \in Considered : Before(c, Best(pool))
         /\ \A c \in Competitors : Before(c, Best(pool)) => c \in Considered
         /\ \A d \in pool : d.memory \notin Packed
         /\ \A d \in Considered : ~Before(Best(pool), d) /\ d.memory # Best(pool).memory
         /\ Cost(Packed \cup {Best(pool).memory}) = Cost(Packed) + Best(pool).memory.tokens
<1> DEFINE b == Best(pool)
<1>1. /\ Called /\ Competitors \subseteq Candidate /\ Functional(Competitors)
      /\ pool \subseteq Competitors /\ Packed \subseteq MemoriesOf(Considered)
      /\ \A c \in Considered, d \in pool : Before(c, d)
      /\ IsFiniteSet(Packed) /\ \A m \in snapshot : m.tokens \in Nat
      /\ Packed \subseteq snapshot
  BY PackingFacts
<1>2. pool \subseteq Candidate /\ Functional(pool) /\ IsFiniteSet(pool)
  <2>1. pool \subseteq Candidate /\ Functional(pool)
    BY <1>1 DEF Functional
  <2> QED BY <1>1, <2>1, FunctionalFinite
<1>3. b \in pool /\ \A d \in pool \ {b} : Before(b, d)
  BY <1>1, <1>2, BestIs
<1> HIDE DEF b
<1>4. b.memory \in snapshot /\ b.memory.tokens \in Nat
  BY <1>1, <1>2, <1>3, RankTyped
<1>5. \A c \in Considered : Before(c, b)
  BY <1>1, <1>3
<1>6. \A c \in Competitors : Before(c, b) => c \in Considered
  BY <1>1, <1>3, BeforeTotal DEF Considered
<1>7. \A c \in Considered, d \in pool : c.memory # d.memory
  BY <1>1 DEF Considered, Functional
<1>8. \A d \in pool : d.memory \notin Packed
  BY <1>1, <1>7 DEF MemoriesOf
<1>9. \A d \in Considered : ~Before(b, d) /\ d.memory # b.memory
  BY <1>1, <1>3, <1>5, <1>7, BeforeTotal DEF Considered
<1>10. Cost(Packed \cup {b.memory}) = Cost(Packed) + b.memory.tokens
  <2>1. TokenSum(Packed \cup {b.memory}) = TokenSum(Packed) + b.memory.tokens
    BY <1>1, <1>3, <1>4, <1>8, TokenSumAdd
  <2> QED BY <2>1 DEF Cost, TokenSum
<1> QED BY <1>3, <1>4, <1>5, <1>6, <1>8, <1>9, <1>10 DEF b

\* The memories ahead of the one whose turn it is are the packed ones.
LEMMA AheadIsPacked ==
  ASSUME IInv, stage = "pack", pool # {}
  PROVE  /\ MemoriesOf({c \in Competitors : Before(c, Best(pool)) /\ c.memory \in Packed}) = Packed
         /\ request.policy = "sliding_window" =>
              {c.memory : c \in {e \in Competitors : e = Best(pool) \/ Before(e, Best(pool))}}
                = Packed \cup {Best(pool).memory}
<1> DEFINE b == Best(pool)
<1>1. /\ b \in pool /\ \A c \in Considered : Before(c, b)
      /\ \A c \in Competitors : Before(c, b) => c \in Considered
  BY NextInLine
<1>2. Packed \subseteq MemoriesOf(Considered) /\ pool \subseteq Competitors
  BY PackingFacts
<1>3. request.policy = "sliding_window" => MemoriesOf(Considered) \subseteq Packed
  BY DEF IInv, PackingRight
<1> HIDE DEF b
<1>4. Considered \subseteq Competitors
  BY DEF Considered
<1>5. MemoriesOf({c \in Competitors : Before(c, b) /\ c.memory \in Packed}) = Packed
  BY <1>1, <1>2, <1>4 DEF MemoriesOf
<1>6. ASSUME request.policy = "sliding_window"
      PROVE  {c.memory : c \in {e \in Competitors : e = b \/ Before(e, b)}} = Packed \cup {b.memory}
  <2>1. {e \in Competitors : e = b \/ Before(e, b)} = Considered \cup {b}
    BY <1>1, <1>2, <1>4
  <2>2. MemoriesOf(Considered) = Packed
    BY <1>2, <1>3, <1>6
  <2>3. MemoriesOf(Considered \cup {b}) = MemoriesOf(Considered) \cup MemoriesOf({b})
    BY MemoriesOfBoth
  <2>4. MemoriesOf({b}) = {b.memory}
    BY DEF MemoriesOf
  <2>5. MemoriesOf(Considered \cup {b}) = Packed \cup {b.memory}
    BY <2>2, <2>3, <2>4
  <2> QED BY <2>1, <2>5 DEF MemoriesOf
<1> QED BY <1>5, <1>6 DEF b

LEMMA TakeKeeps == ASSUME IInv, Take PROVE IInv'
<1> DEFINE b == Best(pool)
<1>1. /\ stage = "pack" /\ pool # {} /\ Typed /\ Progress /\ VersionsRight /\ MandatoryRight
      /\ PackingRight /\ status = "none"
  BY DEF IInv, Progress, Take
<1>2. /\ Fits(b) /\ flexible' = Append(flexible, b) /\ remaining' = remaining - b.memory.tokens
      /\ pool' = pool \ {b}
      /\ UNCHANGED <<snapshot, request, stage, available, retrieved, candidates, protected,
                     states, status>>
  BY DEF Take, input
<1>3. /\ b \in pool /\ b.memory \in snapshot /\ b.memory.tokens \in Nat
      /\ \A d \in pool \ {b} : Before(b, d)
      /\ \A d \in pool : d.memory \notin Packed
      /\ \A d \in Considered : ~Before(b, d) /\ d.memory # b.memory
      /\ Cost(Packed \cup {b.memory}) = Cost(Packed) + b.memory.tokens
  BY <1>1, NextInLine
<1>4. /\ Competitors \subseteq candidates /\ Functional(Competitors)
      /\ pool \subseteq Competitors /\ Packed \subseteq MemoriesOf(Considered)
      /\ Cost(Packed) \in Nat /\ FlexibleBudget \in Int /\ remaining \in Nat
      /\ remaining = FlexibleBudget - Cost(Packed)
      /\ FlexibleBudget <= request.budget /\ request.budget \in Int
      /\ \A c \in Considered, d \in pool : Before(c, d)
  BY <1>1, PackingFacts
<1>5. /\ MemoriesOf({c \in Competitors : Before(c, b) /\ c.memory \in Packed}) = Packed
      /\ request.policy = "sliding_window" =>
           {c.memory : c \in {e \in Competitors : e = b \/ Before(e, b)}} = Packed \cup {b.memory}
  BY <1>1, AheadIsPacked
<1> HIDE DEF b
<1>6. b.memory.tokens <= remaining /\ remaining' \in Nat
  BY <1>2, <1>3, <1>4 DEF Fits
<1>7. /\ \A c, d : Before(c, d)' <=> Before(c, d)
      /\ Competitors' = Competitors /\ Mandatory' = Mandatory
      /\ FlexibleBudget' = FlexibleBudget /\ (Proposed' <=> Proposed)
  BY <1>2, CompetitionStays
<1>8. flexible \in Seq(candidates) /\ b \in candidates
  BY <1>1, <1>3, <1>4 DEF Typed, TypeOK
<1>9. Packed' = Packed \cup {b.memory} /\ flexible' \in Seq(candidates)
  <2>1. /\ Len(flexible) \in Nat /\ DOMAIN flexible = 1..Len(flexible)
        /\ DOMAIN flexible' = 1..(Len(flexible) + 1)
        /\ flexible' \in Seq(candidates)
        /\ \A n \in 1..Len(flexible) : flexible'[n] = flexible[n]
        /\ flexible'[Len(flexible) + 1] = b
    BY <1>2, <1>8
  <2>2. DOMAIN flexible' = DOMAIN flexible \cup {Len(flexible) + 1}
    BY <2>1
  <2>3. Packed' = {flexible'[n].memory : n \in DOMAIN flexible'}
    BY DEF Packed
  <2> QED BY <2>1, <2>2, <2>3 DEF Packed
<1>10. Considered' = Considered \cup {b}
  BY <1>2, <1>3, <1>4, <1>7 DEF Considered
<1>11. Typed'
  BY <1>1, <1>2, <1>6, <1>9 DEF Typed, TypeOK, Functional
<1>12. Progress'
  BY <1>1, <1>2, <1>7 DEF Progress, Shown, Visible
<1>13. VersionsRight'
  BY <1>1, <1>2, <1>7, VersionsStay DEF VersionsRight, Closed
<1>14. MandatoryRight'
  BY <1>1, <1>2, <1>7 DEF MandatoryRight, Closed, Needed, MemoriesOf, Applies, ActiveProtected
<1>15. NoSpuriousError'
  BY <1>1, <1>2 DEF NoSpuriousError
<1>16. pool' \subseteq Competitors' /\ (stage' # "pack" => pool' = {})
  BY <1>1, <1>2, <1>4, <1>7
<1>17. Packed' \subseteq (MemoriesOf(Considered))'
  <2>1. (MemoriesOf(Considered))' = MemoriesOf(Considered) \cup MemoriesOf({b})
    BY <1>10, MemoriesOfBoth
  <2>2. MemoriesOf({b}) = {b.memory}
    BY DEF MemoriesOf
  <2> QED BY <1>4, <1>9, <2>1, <2>2
<1>18. \A c \in Considered', d \in pool' : Before(c, d)'
  BY <1>2, <1>3, <1>4, <1>7, <1>10
<1>19. remaining' = FlexibleBudget' - Cost(Packed)'
  BY <1>2, <1>3, <1>4, <1>7, <1>9
<1>20. ASSUME request.policy = "sliding_window"
       PROVE  /\ pool' # {} => (MemoriesOf(Considered))' \subseteq Packed'
              /\ \A d \in Considered' :
                   d.memory \in Packed' <=>
                     Cost({c.memory : c \in {e \in Competitors' : e = d \/ Before(e, d)'}})
                       <= request.budget
  <2>1. pool # {} => MemoriesOf(Considered) \subseteq Packed
    BY <1>1, <1>20 DEF PackingRight
  <2>2. (MemoriesOf(Considered))' = MemoriesOf(Considered) \cup {b.memory}
    <3>1. MemoriesOf({b}) = {b.memory}
      BY DEF MemoriesOf
    <3> QED BY <1>10, <3>1, MemoriesOfBoth
  <2>3. (MemoriesOf(Considered))' \subseteq Packed'
    BY <1>1, <1>9, <2>1, <2>2
  <2>4. ASSUME NEW d \in Considered'
        PROVE  d.memory \in Packed' <=>
                 Cost({c.memory : c \in {e \in Competitors' : e = d \/ Before(e, d)'}})
                   <= request.budget
    <3>1. {e \in Competitors' : e = d \/ Before(e, d)'} = {e \in Competitors : e = d \/ Before(e, d)}
      BY <1>7
    <3>2. CASE d \in Considered
      <4>1. d.memory \in Packed' <=> d.memory \in Packed
        BY <1>3, <1>9, <3>2
      <4>2. d.memory \in Packed <=>
              Cost({c.memory : c \in {e \in Competitors : e = d \/ Before(e, d)}}) <= request.budget
        BY <1>1, <1>20, <3>2 DEF PackingRight
      <4> QED BY <3>1, <4>1, <4>2
    <3>3. CASE d = b
      <4>1. d.memory \in Packed'
        BY <1>9, <3>3
      <4>2. {c.memory : c \in {e \in Competitors : e = d \/ Before(e, d)}} = Packed \cup {b.memory}
        BY <1>5, <1>20, <3>3
      <4>3. Cost(Packed \cup {b.memory}) <= request.budget
        BY <1>3, <1>4, <1>6
      <4> QED BY <3>1, <4>1, <4>2, <4>3
    <3> QED BY <1>10, <3>2, <3>3
  <2> QED BY <2>3, <2>4
<1>21. ASSUME request.policy # "sliding_window", NEW d \in Considered'
       PROVE  d.memory \in Packed' <=>
                d.memory.tokens + Cost((MemoriesOf(PackedAhead(d)))') <= FlexibleBudget
  <2>1. (PackedAhead(d))' = {c \in Competitors : Before(c, d) /\ c.memory \in Packed'}
    BY <1>7 DEF PackedAhead
  <2>2. {c \in Competitors : Before(c, d) /\ c.memory \in Packed'}
          = {c \in Competitors : Before(c, d) /\ c.memory \in Packed}
    <3>1. ~Before(b, d)
      <4>1. CASE d = b
        <5>1. b \in Candidate
          BY <1>1, <1>3, PackingFacts
        <5> QED BY <1>1, <4>1, <5>1, BeforeTotal, PackingFacts
      <4>2. CASE d \in Considered
        BY <1>3, <4>2
      <4> QED BY <1>10, <4>1, <4>2
    <3>2. \A c \in Competitors : c.memory = b.memory => c = b
      BY <1>3, <1>4 DEF Functional
    <3> QED BY <1>9, <3>1, <3>2
  <2>3. (MemoriesOf(PackedAhead(d)))'
          = MemoriesOf({c \in Competitors : Before(c, d) /\ c.memory \in Packed})
    BY <2>1, <2>2
  <2>4. CASE d \in Considered
    <3>1. d.memory \in Packed' <=> d.memory \in Packed
      BY <1>3, <1>9, <2>4
    <3>2. d.memory \in Packed <=>
            d.memory.tokens + Cost(MemoriesOf(PackedAhead(d))) <= FlexibleBudget
      BY <1>1, <1>21, <2>4 DEF PackingRight
    <3>3. PackedAhead(d) = {c \in Competitors : Before(c, d) /\ c.memory \in Packed}
      BY DEF PackedAhead
    <3> QED BY <2>3, <3>1, <3>2, <3>3
  <2>5. CASE d = b
    <3>1. d.memory \in Packed' /\ (MemoriesOf(PackedAhead(d)))' = Packed
      BY <1>5, <1>9, <2>3, <2>5
    <3>2. b.memory.tokens + Cost(Packed) <= FlexibleBudget
      BY <1>3, <1>4, <1>6
    <3> QED BY <2>5, <3>1, <3>2
  <2> QED BY <1>10, <2>4, <2>5
<1>22. PackingRight'
  BY <1>2, <1>7, <1>16, <1>17, <1>18, <1>19, <1>20, <1>21 DEF PackingRight
<1> QED BY <1>11, <1>12, <1>13, <1>14, <1>15, <1>22 DEF IInv

LEMMA SkipKeeps == ASSUME IInv, Skip PROVE IInv'
<1> DEFINE b == Best(pool)
<1>1. /\ stage = "pack" /\ pool # {} /\ Typed /\ Progress /\ VersionsRight /\ MandatoryRight
      /\ PackingRight /\ status = "none"
  BY DEF IInv, Progress, Skip
<1>2. /\ ~Fits(b)
      /\ pool' = IF request.policy = "sliding_window" THEN {} ELSE pool \ {b}
      /\ UNCHANGED <<snapshot, request, stage, available, retrieved, candidates, protected,
                     states, flexible, remaining, status>>
  BY DEF Skip, input
<1>3. /\ b \in pool /\ b.memory \in snapshot /\ b.memory.tokens \in Nat
      /\ \A d \in pool \ {b} : Before(b, d)
      /\ \A d \in pool : d.memory \notin Packed
      /\ Cost(Packed \cup {b.memory}) = Cost(Packed) + b.memory.tokens
  BY <1>1, NextInLine
<1>4. /\ Competitors \subseteq candidates /\ Competitors \subseteq Candidate
      /\ pool \subseteq Competitors /\ Packed \subseteq MemoriesOf(Considered)
      /\ Cost(Packed) \in Nat /\ FlexibleBudget \in Int /\ remaining \in Nat
      /\ remaining = FlexibleBudget - Cost(Packed)
      /\ request.policy = "sliding_window" => FlexibleBudget = request.budget
      /\ \A c \in Considered, d \in pool : Before(c, d)
      /\ Called /\ \A m \in snapshot : m.tokens \in Nat
      /\ Packed \subseteq snapshot
  BY <1>1, PackingFacts
<1>5. MemoriesOf({c \in Competitors : Before(c, b) /\ c.memory \in Packed}) = Packed
  BY <1>1, AheadIsPacked
<1> HIDE DEF b
<1>6. b.memory.tokens > remaining
  BY <1>2, <1>3, <1>4 DEF Fits
<1>7. /\ \A c, d : Before(c, d)' <=> Before(c, d)
      /\ Competitors' = Competitors /\ Mandatory' = Mandatory
      /\ FlexibleBudget' = FlexibleBudget /\ (Proposed' <=> Proposed)
  BY <1>2, CompetitionStays
<1>8. Packed' = Packed
  BY <1>2 DEF Packed
<1>9. /\ pool' \subseteq pool /\ Considered \subseteq Considered'
      /\ Considered' \subseteq Considered \cup pool
      /\ request.policy # "sliding_window" => Considered' = Considered \cup {b}
  BY <1>2, <1>3, <1>4, <1>7 DEF Considered
<1>10. Typed'
  BY <1>1, <1>2, <1>9 DEF Typed, TypeOK, Functional
<1>11. Progress'
  BY <1>1, <1>2, <1>7 DEF Progress, Shown, Visible
<1>12. VersionsRight'
  BY <1>1, <1>2, <1>7, VersionsStay DEF VersionsRight, Closed
<1>13. MandatoryRight'
  BY <1>1, <1>2, <1>7 DEF MandatoryRight, Closed, Needed, MemoriesOf, Applies, ActiveProtected
<1>14. NoSpuriousError'
  BY <1>1, <1>2 DEF NoSpuriousError
<1>15. pool' \subseteq Competitors' /\ (stage' # "pack" => pool' = {})
  BY <1>1, <1>2, <1>4, <1>7, <1>9
<1>16. Packed' \subseteq (MemoriesOf(Considered))'
  BY <1>4, <1>8, <1>9 DEF MemoriesOf
<1>17. \A c \in Considered', d \in pool' : Before(c, d)'
  <2>1. CASE request.policy = "sliding_window"
    BY <1>2, <2>1
  <2>2. CASE request.policy # "sliding_window"
    BY <1>2, <1>3, <1>4, <1>7, <1>9, <2>2
  <2> QED BY <2>1, <2>2
<1>18. remaining' = FlexibleBudget' - Cost(Packed)'
  BY <1>2, <1>4, <1>7, <1>8
<1>19. ASSUME request.policy = "sliding_window"
       PROVE  /\ pool' = {}
              /\ \A d \in Considered' :
                   d.memory \in Packed' <=>
                     Cost({c.memory : c \in {e \in Competitors' : e = d \/ Before(e, d)'}})
                       <= request.budget
  <2>1. ASSUME NEW d \in Considered'
        PROVE  d.memory \in Packed' <=>
                 Cost({c.memory : c \in {e \in Competitors' : e = d \/ Before(e, d)'}})
                   <= request.budget
    <3> DEFINE Prefix == {c.memory : c \in {e \in Competitors : e = d \/ Before(e, d)}}
    <3>1. {e \in Competitors' : e = d \/ Before(e, d)'} = {e \in Competitors : e = d \/ Before(e, d)}
      BY <1>7
    <3>2. CASE d \in Considered
      <4>1. d.memory \in Packed <=> Cost(Prefix) <= request.budget
        BY <1>1, <1>19, <3>2 DEF PackingRight
      <4> QED BY <1>8, <3>1, <4>1
    <3>3. CASE d \in pool
      <4>1. d.memory \notin Packed'
        BY <1>3, <1>8, <3>3
      <4>2. Packed \cup {b.memory} \subseteq Prefix
        <5>1. \A m \in Packed : \E c \in Considered : m = c.memory
          BY <1>4 DEF MemoriesOf
        <5>2. \A c \in Considered : c \in Competitors /\ Before(c, d)
          BY <1>4, <3>3 DEF Considered
        <5>3. b \in Competitors /\ (b = d \/ Before(b, d))
          BY <1>3, <1>4, <3>3
        <5> QED BY <5>1, <5>2, <5>3
      <4>3. Prefix \subseteq snapshot
        BY <1>4, RankTyped
      <4> HIDE DEF Prefix
      <4>4. IsFiniteSet(Prefix) /\ \A m \in Prefix : m.tokens \in Nat
        BY <1>4, <4>3, MemoryTyped, FS_Subset
      <4>5. TokenSum(Packed \cup {b.memory}) <= TokenSum(Prefix) /\ TokenSum(Prefix) \in Nat
        BY <4>2, <4>4, TokenSumMonotone, TokenSumNat
      <4>6. Cost(Packed) + b.memory.tokens <= Cost(Prefix) /\ Cost(Prefix) \in Nat
        BY <1>3, <4>5 DEF Cost, TokenSum
      <4>7. ~(Cost(Prefix) <= request.budget)
        <5>1. request.budget = FlexibleBudget
          BY <1>4, <1>19
        <5>2. Cost(Packed) + b.memory.tokens > FlexibleBudget
          BY <1>3, <1>4, <1>6
        <5> QED BY <1>3, <1>4, <4>6, <5>1, <5>2
      <4> QED BY <3>1, <4>1, <4>7 DEF Prefix
    <3> QED BY <1>9, <3>2, <3>3
  <2> QED BY <1>2, <1>19, <2>1
<1>20. ASSUME request.policy # "sliding_window", NEW d \in Considered'
       PROVE  d.memory \in Packed' <=>
                d.memory.tokens + Cost((MemoriesOf(PackedAhead(d)))') <= FlexibleBudget
  <2>1. (PackedAhead(d))' = {c \in Competitors : Before(c, d) /\ c.memory \in Packed}
    BY <1>7, <1>8 DEF PackedAhead
  <2>2. (MemoriesOf(PackedAhead(d)))'
          = MemoriesOf({c \in Competitors : Before(c, d) /\ c.memory \in Packed})
    BY <2>1
  <2>3. CASE d \in Considered
    <3>1. d.memory \in Packed <=>
            d.memory.tokens + Cost(MemoriesOf(PackedAhead(d))) <= FlexibleBudget
      BY <1>1, <1>20, <2>3 DEF PackingRight
    <3>2. PackedAhead(d) = {c \in Competitors : Before(c, d) /\ c.memory \in Packed}
      BY DEF PackedAhead
    <3> QED BY <1>8, <2>2, <3>1, <3>2
  <2>4. CASE d = b
    <3>1. d.memory \notin Packed' /\ (MemoriesOf(PackedAhead(d)))' = Packed
      BY <1>3, <1>5, <1>8, <2>2, <2>4
    <3>2. ~(b.memory.tokens + Cost(Packed) <= FlexibleBudget)
      BY <1>3, <1>4, <1>6
    <3> QED BY <2>4, <3>1, <3>2
  <2> QED BY <1>9, <1>20, <2>3, <2>4
<1>21. PackingRight'
  BY <1>2, <1>7, <1>15, <1>16, <1>17, <1>18, <1>19, <1>20 DEF PackingRight
<1> QED BY <1>10, <1>11, <1>12, <1>13, <1>14, <1>21 DEF IInv

\* The competitors that were considered are all of them now.
LEMMA StopPackingKeeps == ASSUME IInv, StopPacking PROVE IInv'
<1>1. /\ stage = "pack" /\ pool = {} /\ Typed /\ Progress /\ VersionsRight /\ MandatoryRight
      /\ PackingRight /\ status = "none"
  BY DEF IInv, Progress, StopPacking
<1>2. /\ stage' = "account"
      /\ UNCHANGED <<snapshot, request, available, retrieved, candidates, protected,
                     states, pool, flexible, remaining, status>>
  BY DEF StopPacking, input, packing
<1>3. /\ \A c, d : Before(c, d)' <=> Before(c, d)
      /\ Competitors' = Competitors /\ Mandatory' = Mandatory
      /\ FlexibleBudget' = FlexibleBudget /\ (Proposed' <=> Proposed)
  BY <1>2, CompetitionStays
<1>4. Typed'
  BY <1>1, <1>2 DEF Typed, TypeOK, Functional, Stages
<1>5. Progress'
  BY <1>1, <1>2, <1>3 DEF Progress, Shown, Visible
<1>6. VersionsRight'
  BY <1>1, <1>2, <1>3, VersionsStay DEF VersionsRight, Closed
<1>7. MandatoryRight'
  BY <1>1, <1>2, <1>3 DEF MandatoryRight, Closed, Needed, MemoriesOf, Applies, ActiveProtected
<1>8. Packed' = Packed /\ Considered' = Considered
      /\ \A d : (MemoriesOf(PackedAhead(d)))' = MemoriesOf(PackedAhead(d))
      /\ (MemoriesOf(Considered))' = MemoriesOf(Considered)
  BY <1>2, <1>3 DEF Packed, Considered, PackedAhead, MemoriesOf
<1>9. PackingRight'
  BY <1>1, <1>2, <1>3, <1>8 DEF PackingRight
<1>10. NoSpuriousError'
  BY <1>1, <1>2 DEF NoSpuriousError
<1> QED BY <1>4, <1>5, <1>6, <1>7, <1>9, <1>10 DEF IInv

\* What the final accounting counts is what the loop has spent.
LEMMA SelectedCost ==
  ASSUME IInv, stage \in {"pack", "account"} \/ Answered
  PROVE  /\ remaining = request.budget - Cost(Selected)
         /\ Cost(Selected) \in Nat /\ remaining \in Nat
<1>1. /\ Typed /\ Progress /\ Packed \subseteq MemoriesOf(Considered)
      /\ Packed \subseteq snapshot /\ IsFiniteSet(Packed) /\ Cost(Packed) \in Nat
      /\ remaining = FlexibleBudget - Cost(Packed) /\ remaining \in Nat
      /\ \A m \in snapshot : m.tokens \in Nat
  BY PackingFacts
<1>2. /\ Mandatory \subseteq snapshot /\ IsFiniteSet(Mandatory) /\ Cost(Mandatory) \in Nat
      /\ request.budget \in Int
  BY <1>1, TypedMeans
<1>3. Mandatory \cap Packed = {}
  <2>1. CASE Proposed
    <3>1. \A c \in Considered : c.memory \notin Mandatory
      BY <2>1 DEF Considered, Competitors, Competes
    <3> QED BY <1>1, <3>1 DEF MemoriesOf
  <2>2. CASE ~Proposed
    BY <1>1, <2>2 DEF Progress, Mandatory
  <2> QED BY <2>1, <2>2
<1>4. TokenSum(Mandatory \cup Packed) = TokenSum(Mandatory) + TokenSum(Packed)
  <2>1. /\ \A m \in Mandatory : m.tokens \in Nat
        /\ \A m \in Packed : m.tokens \in Nat
    BY <1>1, <1>2
  <2> QED BY <1>1, <1>2, <1>3, <2>1, TokenSumUnion
<1>5. Cost(Selected) = Cost(Mandatory) + Cost(Packed)
  BY <1>4 DEF Cost, TokenSum, Selected
<1> QED BY <1>1, <1>2, <1>5 DEF FlexibleBudget

\* The RuntimeError of select_memory is never raised.
LEMMA AccountKeeps == ASSUME IInv, Account PROVE IInv'
<1>1. /\ stage = "account" /\ Typed /\ Progress /\ VersionsRight /\ MandatoryRight
      /\ PackingRight /\ status = "none"
  BY DEF IInv, Progress, Account
<1>2. ~(Cost(Selected) > request.budget)
  BY <1>1, SelectedCost, TypedMeans
<1>3. /\ stage' = "done" /\ status' = "ok"
      /\ UNCHANGED <<snapshot, request, available, retrieved, candidates, protected,
                     states, pool, flexible, remaining>>
  BY <1>2 DEF Account, Finish, input, packing
<1>4. /\ \A c, d : Before(c, d)' <=> Before(c, d)
      /\ Competitors' = Competitors /\ Mandatory' = Mandatory
      /\ FlexibleBudget' = FlexibleBudget /\ (Proposed' <=> Proposed)
  BY <1>3, CompetitionStays
<1>5. Typed'
  BY <1>1, <1>3 DEF Typed, TypeOK, Functional, Stages, Statuses
<1>6. Progress'
  BY <1>1, <1>3, <1>4 DEF Progress, Shown, Visible
<1>7. VersionsRight'
  BY <1>1, <1>3, <1>4, VersionsStay DEF VersionsRight, Closed
<1>8. MandatoryRight'
  BY <1>1, <1>3, <1>4 DEF MandatoryRight, Closed, Needed, MemoriesOf, Applies, ActiveProtected
<1>9. Packed' = Packed /\ Considered' = Considered
      /\ \A d : (MemoriesOf(PackedAhead(d)))' = MemoriesOf(PackedAhead(d))
      /\ (MemoriesOf(Considered))' = MemoriesOf(Considered)
  BY <1>3, <1>4 DEF Packed, Considered, PackedAhead, MemoriesOf
<1>10. PackingRight'
  BY <1>1, <1>3, <1>4, <1>9 DEF PackingRight
<1>11. NoSpuriousError'
  BY <1>3 DEF NoSpuriousError
<1> QED BY <1>5, <1>6, <1>7, <1>8, <1>10, <1>11 DEF IInv

LEMMA StutterKeeps == ASSUME IInv, UNCHANGED vars PROVE IInv'
<1>1. UNCHANGED <<snapshot, request, stage, available, retrieved, candidates, protected,
                  states, pool, flexible, remaining, status>>
  BY DEF vars
<1>2. /\ \A c, d : Before(c, d)' <=> Before(c, d)
      /\ Competitors' = Competitors /\ Mandatory' = Mandatory
      /\ FlexibleBudget' = FlexibleBudget /\ (Proposed' <=> Proposed)
  BY <1>1, CompetitionStays
<1>3. Typed'
  BY <1>1 DEF IInv, Typed, TypeOK, Functional
<1>4. Progress'
  BY <1>1, <1>2 DEF IInv, Progress, Shown, Visible
<1>5. VersionsRight'
  <2>1. VersionsRight
    BY DEF IInv
  <2>2. /\ \A k : (Answering(Chain(k)))' = Answering(Chain(k)) /\ Chain(k)' = Chain(k)
        /\ MemoriesOf(candidates)' = MemoriesOf(candidates)
        /\ Keys(retrieved)' = Keys(retrieved)
        /\ (Keys(MemoriesOf(candidates)))' = Keys(MemoriesOf(candidates))
    BY <1>1, VersionsStay DEF Chain, Keys, MemoriesOf
  <2> QED BY <1>1, <1>2, <2>1, <2>2 DEF VersionsRight, Closed
<1>6. MandatoryRight'
  BY <1>1, <1>2 DEF IInv, MandatoryRight, Closed, Needed, MemoriesOf, Applies, ActiveProtected
<1>7. Packed' = Packed /\ Considered' = Considered
      /\ \A d : (MemoriesOf(PackedAhead(d)))' = MemoriesOf(PackedAhead(d))
      /\ (MemoriesOf(Considered))' = MemoriesOf(Considered)
  BY <1>1, <1>2 DEF Packed, Considered, PackedAhead, MemoriesOf
<1>8. PackingRight'
  BY <1>1, <1>2, <1>7 DEF IInv, PackingRight, Answered
<1>9. NoSpuriousError'
  BY <1>1 DEF IInv, NoSpuriousError, WellVersioned, Unambiguous, Comparable
<1> QED BY <1>3, <1>4, <1>5, <1>6, <1>8, <1>9 DEF IInv

LEMMA Invariance == Spec => []IInv
<1>1. Init => IInv
  BY Initially
<1>2. IInv /\ [Next]_vars => IInv'
  <2> SUFFICES ASSUME IInv, [Next]_vars PROVE IInv'
    OBVIOUS
  <2>1. CASE UNCHANGED vars
    BY <2>1, StutterKeeps
  <2>2. CASE Next
    BY <2>2, RefuseBudgetKeeps, AcceptBudgetKeeps, FilterKeeps, RetrieveKeeps, TakeAllKeeps,
       ExpandKeeps, ResolveKeeps, RequireKeeps, ProtectKeeps, FailMandatoryKeeps,
       AdmitMandatoryKeeps, RankKeeps, TakeKeeps, SkipKeeps, StopPackingKeeps, AccountKeeps
    DEF Next
  <2> QED BY <2>1, <2>2
<1> QED BY <1>1, <1>2, PTL DEF Spec

-----------------------------------------------------------------------------
(* The theorems *)

\* Every stage hands on memories of the snapshot that are visible, candidates
\* that it was given, and tokens that are not negative.
THEOREM TypeCorrect == Spec => []TypeOK
<1>1. IInv => TypeOK
  BY DEF IInv, Typed
<1> QED BY <1>1, Invariance, PTL

\* A call fails only on a snapshot that breaks the versioning rules or mixes
\* time zones.
THEOREM ErrorsAreJustified == Spec => []NoSpuriousError
<1>1. IInv => NoSpuriousError
  BY DEF IInv
<1> QED BY <1>1, Invariance, PTL

\* What is packed was a candidate.
LEMMA PackedCandidates == ASSUME IInv PROVE Packed \subseteq MemoriesOf(candidates)
<1>1. flexible \in Seq(candidates)
  BY DEF IInv, Typed, TypeOK
<1>2. \A n \in DOMAIN flexible : flexible[n] \in candidates
  BY <1>1
<1> QED BY <1>2 DEF Packed, MemoriesOf

\* No stage brings in a memory of another session or of a turn that has not
\* happened, whatever the policy.
THEOREM FutureIsUnseen == Spec => []NothingFromTheFuture
<1>1. ASSUME IInv PROVE NothingFromTheFuture
  <2>1. /\ MemoriesOf(candidates) \subseteq available /\ available \subseteq Shown
        /\ protected \subseteq available /\ states \subseteq available
    BY <1>1, TypedMeans DEF IInv, Progress, Typed, TypeOK
  <2>2. Selected \subseteq Shown
    BY <1>1, <2>1, PackedCandidates DEF Selected, Mandatory
  <2> QED BY <2>2 DEF NothingFromTheFuture, Shown, Visible
<1> QED BY <1>1, Invariance, PTL

\* Every protected constraint that applies and every needed state that was
\* resolved is selected, or the call reports that they do not fit and selects
\* nothing else.
THEOREM MandatoryIsWhole == Spec => []MandatoryWhole
<1>1. ASSUME IInv PROVE MandatoryWhole
  BY <1>1
  DEF IInv, MandatoryRight, MandatoryWhole, Closed, Needed, Applies, ActiveProtected, Selected, Mandatory
<1> QED BY <1>1, Invariance, PTL

\* Finding any version of a chain is as good as finding all: the version that
\* answers in the whole chain is a candidate and no other version is selected.
THEOREM ChainsAreResolved == Spec => []VersionsResolved
<1>1. ASSUME IInv, Proposed, request.temporal, Answered, NEW k \in Keys(available)
      PROVE  /\ k \in Keys(retrieved) => Answering(Chain(k)) \subseteq MemoriesOf(candidates)
             /\ {m \in Selected \ protected : m.key = k} \subseteq Answering(Chain(k))
  <2>1. Closed /\ k # None
    BY <1>1 DEF Closed, Answered, Keys
  <2>2. /\ \A j \in Keys(retrieved) : Answering(Chain(j)) \subseteq MemoriesOf(candidates)
        /\ \A m \in MemoriesOf(candidates) : m.key # None => m \in Answering(Chain(m.key))
    BY <1>1, <2>1 DEF IInv, VersionsRight
  <2>3. states \subseteq MemoriesOf(candidates)
    BY <1>1, <2>1 DEF IInv, MandatoryRight, Needed
  <2>4. Selected \ protected \subseteq MemoriesOf(candidates)
    BY <1>1, <2>3, PackedCandidates DEF Selected, Mandatory
  <2> QED BY <2>1, <2>2, <2>4
<1>2. IInv => VersionsResolved
  BY <1>1 DEF VersionsResolved
<1> QED BY <1>2, Invariance, PTL

\* For any number of candidates, the packing loop computes the greedy choice in
\* the order of its policy, and what it has left is what the accounting finds.
THEOREM PackingIsGreedy == Spec => []GreedyPacking
<1>1. ASSUME IInv, Answered PROVE GreedyPacking
  <2>1. remaining = request.budget - Cost(Selected)
    BY <1>1, SelectedCost
  <2>2. pool = {} /\ PackingRight
    BY <1>1 DEF IInv, PackingRight, Answered
  <2>3. Considered = Competitors
    BY <2>2 DEF Considered
  <2> QED BY <1>1, <2>1, <2>2, <2>3 DEF PackingRight, GreedyPacking
<1>2. IInv => GreedyPacking
  BY <1>1 DEF GreedyPacking
<1> QED BY <1>2, Invariance, PTL

\* The sliding window is the longest run of newest memories that fits.
THEOREM WindowIsContiguous == Spec => []WindowContiguous
<1>1. ASSUME IInv, Answered PROVE WindowContiguous
  <2>1. pool = {} /\ PackingRight
    BY <1>1 DEF IInv, PackingRight, Answered
  <2>2. Considered = Competitors
    BY <2>1 DEF Considered
  <2> QED BY <1>1, <2>1, <2>2 DEF PackingRight, WindowContiguous
<1>2. IInv => WindowContiguous
  BY <1>1 DEF WindowContiguous
<1> QED BY <1>2, Invariance, PTL

\* select_memory never raises its RuntimeError and the budget is never exceeded:
\* the final accounting finds what every policy selected to fit, the mandatory
\* memories included.
THEOREM AccountingAgrees == Spec => [][Account => status' = "ok" /\ Cost(Selected) <= request.budget]_vars
<1>1. ASSUME IInv, Account PROVE status' = "ok" /\ Cost(Selected) <= request.budget
  <2>1. stage = "account" /\ request.budget \in Int
    BY <1>1, TypedMeans DEF IInv, Account
  <2>2. Cost(Selected) <= request.budget /\ ~(Cost(Selected) > request.budget)
    BY <1>1, <2>1, SelectedCost
  <2> QED BY <1>1, <2>2 DEF Account, Finish
<1>2. IInv /\ [Next]_vars => [Account => status' = "ok" /\ Cost(Selected) <= request.budget]_vars
  BY <1>1
<1> QED BY <1>2, Invariance, PTL DEF Spec

\* The other check of select_memory never fails either: after the resolution no
\* two states that the task needs have one key.
THEOREM NeededStatesAreClear == Spec => [][Require => stage' = "protect"]_vars
<1>1. IInv /\ [Next]_vars => [Require => stage' = "protect"]_vars
  BY RequireMeans
<1> QED BY <1>1, Invariance, PTL DEF Spec

=============================================================================
