--------------------------- MODULE MemorySelection ---------------------------
(***************************************************************************)
(* How a prompt's memories are chosen: the proposed policy of              *)
(* pipeline/orchestrator.py with memory/selector.py, and the baselines of  *)
(* memory/baselines.py.  One behaviour is one call of a policy: a snapshot *)
(* of memories and a request go in, one stage of select_memory is a step,  *)
(* and the packing loop takes one candidate per step.                      *)
(*                                                                         *)
(* A memory carries what its text decides for the one query of a request:  *)
(* its cosine similarity, whether the rules find it applicable (a          *)
(* constraint) and whether the task needs it (a state).  Real numbers are  *)
(* integers on a scale of 0..Scale, and times are integers.                *)
(***************************************************************************)
EXTENDS Integers, Sequences, FiniteSetsExt

CONSTANTS Memory,      \* the memories a scenario can hold
          Snapshot,    \* the sets of them a run can start from
          Request,     \* the calls of a policy
          Scale,       \* the integer that stands for 1.0
          None

Policies == {"proposed", "sliding_window", "vector_top_k", "utility_per_token"}
Types    == {"constraint", "state", "preference", "fact", "experience"}

MemoryShape(m) ==
  /\ m.id \in Nat /\ m.turn \in Nat /\ m.tokens \in Nat
  /\ m.type \in Types
  /\ m.type = "state" => m.key # None
  /\ {m.active, m.protected, m.aware, m.applicable, m.needed} \subseteq BOOLEAN
  /\ m.created \in Int /\ m.from \in Int
  /\ m.to # None => m.to \in Int /\ m.from <= m.to
  /\ m.importance \in 0..Scale
  /\ m.similarity \in -Scale..Scale

\* Two of the ablation switches cannot be combined: a required state is found
\* among resolved versions.
RequestShape(r) ==
  /\ r.policy \in Policies
  /\ {r.preserve, r.temporal, r.mandatory, r.tokenAware, r.aware} \subseteq BOOLEAN
  /\ r.mandatory => r.temporal
  /\ r.turn \in Nat /\ r.topK \in Nat \ {0} /\ r.budget \in Int
  /\ r.intent \in {"current", "point", "range"}
  /\ r.start \in Int /\ r.end \in Int /\ r.start < r.end

ASSUME MemoryAssumption ==
  /\ Scale \in Nat \ {0}
  /\ \A m \in Memory : MemoryShape(m)
  /\ None \notin Int

ASSUME SnapshotAssumption ==
  /\ \A s \in Snapshot : s \subseteq Memory /\ IsFiniteSet(s)
  /\ \A s \in Snapshot : \A m, n \in s : m.id = n.id => m = n

ASSUME RequestAssumption == \A r \in Request : RequestShape(r)

VARIABLES
  snapshot,    \* the memories of the run
  request,     \* the call
  stage,       \* where the call is
  available,   \* the memories of this session and of the past
  retrieved,   \* the hits of the semantic search
  candidates,  \* the candidates that are left, with their relevance
  protected,   \* the constraints that apply
  states,      \* the states the task needs
  pool,        \* the candidates still to be packed
  flexible,    \* the packed candidates, best first
  remaining,   \* the tokens that are left
  status       \* how the call ended

vars == <<snapshot, request, stage, available, retrieved, candidates,
          protected, states, pool, flexible, remaining, status>>

input  == <<snapshot, request>>
packing == <<pool, flexible, remaining>>

Stages == {"budget", "filter", "retrieve", "expand", "resolve", "require",
           "protect", "mandatory", "rank", "pack", "account", "done"}

Statuses == {"none", "ok", "invalid_budget_configuration",
             "insufficient_context_budget", "error"}

Proposed == request.policy = "proposed"

ActiveProtected(m) == m.type = "constraint" /\ m.active /\ m.protected

\* The memories a sequence or set of candidates stands for.
MemoriesOf(C) == {c.memory : c \in C}
Packed == {flexible[n].memory : n \in DOMAIN flexible}
Mandatory == protected \cup states
Selected == Mandatory \cup Packed

Cost(S) == MapThenSumSet(LAMBDA m : m.tokens, S)

\* No two time stamps of S are an aware and a naive one.
Comparable(S) == \A m, n \in S : m.aware = n.aware

-----------------------------------------------------------------------------
(* Rankings *)

Larger(x, y) == IF x >= y THEN x ELSE y
Smaller(x, y) == IF x <= y THEN x ELSE y

\* The relevance of a memory the search found.
Relevance(m) == Larger(m.similarity, 0)

Recency(c) == Scale \div (1 + Larger(request.turn - c.memory.turn, 0))

\* The default weights 0.6, 0.3 and 0.1.
Utility(c) == 6 * c.relevance + 3 * c.memory.importance + Recency(c)

Weight(c) == Larger(c.memory.tokens, 1)

\* What c shows when it is compared with d, the most decisive number first.  A
\* quotient U(c) / W(c) is compared with another one by cross multiplication.
Standing(c, d) ==
  CASE request.policy = "sliding_window" ->
         <<c.memory.turn, c.memory.created, 0 - c.memory.id>>
    [] request.policy = "vector_top_k" ->
         <<c.memory.similarity, 0 - c.memory.id>>
    [] request.policy = "utility_per_token" ->
         <<Utility(c) * Weight(d), c.memory.similarity, 0 - c.memory.id>>
    [] OTHER ->
         <<IF request.tokenAware THEN Utility(c) * Weight(d) ELSE Utility(c),
           Utility(c), c.relevance, Recency(c), 0 - c.memory.id>>

Exceeds(s, t) ==
  \E n \in DOMAIN s : s[n] > t[n] /\ \A k \in 1..(n - 1) : s[k] = t[k]

Before(c, d) == Exceeds(Standing(c, d), Standing(d, c))

Best(C) == CHOOSE c \in C : \A d \in C \ {c} : Before(c, d)

\* semantic_retrieve: by similarity, then by id.
Nearer(m, n) == Exceeds(<<m.similarity, 0 - m.id>>, <<n.similarity, 0 - n.id>>)

Nearest(S) == {m \in S : Cardinality({n \in S : Nearer(n, m)}) < request.topK}

-----------------------------------------------------------------------------
(* Versions *)

\* The chain members among the available memories.
Chain(k) == {m \in available : m.key = k}

HistoricalIntent == request.intent # "current"

\* [from, to) contains the instant asked for, or overlaps the period.
Overlap(m) ==
  Smaller(request.end, IF m.to = None THEN request.end ELSE m.to)
    - Larger(request.start, m.from)

\* Faulty variant: the end of an interval is included.
MatchesClosed(m) ==
  CASE request.intent = "current" -> m.active
    [] request.intent = "point"   ->
         m.from <= request.start /\ (m.to = None \/ request.start <= m.to)
    [] request.intent = "range"   -> Overlap(m) > 0

Matches(m) ==
  CASE request.intent = "current" -> m.active
    [] request.intent = "point"   ->
         m.from <= request.start /\ (m.to = None \/ request.start < m.to)
    [] request.intent = "range"   -> Overlap(m) > 0

Longer(m, n) == Exceeds(<<Overlap(m), m.from, 0 - m.id>>, <<Overlap(n), n.from, 0 - n.id>>)

\* The one version of S that answers the request, if there is one.
Answering(S) ==
  LET valid == {m \in S : Matches(m)}
  IN  IF request.intent = "range"
      THEN {m \in valid : \A n \in valid \ {m} : Longer(m, n)}
      ELSE valid

Keys(S) == {m.key : m \in S} \ {None}

-----------------------------------------------------------------------------
(* The stages *)

Init ==
  /\ snapshot \in Snapshot
  /\ request \in Request
  /\ stage = "budget"
  /\ available = {} /\ retrieved = {} /\ candidates = {}
  /\ protected = {} /\ states = {}
  /\ pool = {} /\ flexible = <<>> /\ remaining = 0
  /\ status = "none"

Finish(s) == stage' = "done" /\ status' = s

Raise ==
  /\ Finish("error")
  /\ UNCHANGED <<input, available, retrieved, candidates, protected, states, packing>>

\* B_memory = B_total - C_fixed.
RefuseBudget ==
  /\ stage = "budget"
  /\ request.budget < 0
  /\ Finish("invalid_budget_configuration")
  /\ UNCHANGED <<input, available, retrieved, candidates, protected, states, packing>>

AcceptBudget ==
  /\ stage = "budget"
  /\ request.budget >= 0
  /\ stage' = "filter"
  /\ UNCHANGED <<input, available, retrieved, candidates, protected, states, packing, status>>

\* Faulty variant: the memories of later turns are in.
VisibleLater(m) == m.session = request.session

Visible(m) == m.session = request.session /\ m.turn <= request.turn

\* A key has at most one active version.
Unambiguous(S) ==
  \A m, n \in S : m.active /\ n.active /\ m.key = n.key /\ m.key # None => m = n

\* The proposed policy builds a SnapshotMemoryStore of what is visible.
Filter ==
  /\ stage = "filter"
  /\ LET visible == {m \in snapshot : Visible(m)}
     IN  \/ /\ Proposed => Unambiguous(visible)
            /\ request.policy = "sliding_window" => Comparable(visible)
            /\ available' = visible
            /\ stage' = "retrieve"
            /\ UNCHANGED <<input, retrieved, candidates, protected, states, packing, status>>
         \/ /\ ~ /\ Proposed => Unambiguous(visible)
                 /\ request.policy = "sliding_window" => Comparable(visible)
            /\ Raise

\* What the search looks at: the protected constraints take a path of their own.
Searched == {m \in available : ~(Proposed /\ request.preserve /\ ActiveProtected(m))}

Retrieve ==
  /\ stage = "retrieve"
  /\ request.policy # "sliding_window"
  /\ retrieved' = Nearest(Searched)
  /\ candidates' = {[memory |-> m, relevance |-> Relevance(m)] : m \in retrieved'}
  /\ stage' = IF ~Proposed THEN "rank" ELSE IF request.temporal THEN "expand" ELSE "require"
  /\ UNCHANGED <<input, available, protected, states, packing, status>>

\* The sliding window takes everything and searches nothing.
TakeAll ==
  /\ stage = "retrieve"
  /\ request.policy = "sliding_window"
  /\ candidates' = {[memory |-> m, relevance |-> 0] : m \in available}
  /\ stage' = "rank"
  /\ UNCHANGED <<input, available, retrieved, protected, states, packing, status>>

\* Faulty variant: only the versions that were found are resolved.
ExpandNothing ==
  /\ stage = "expand"
  /\ stage' = "resolve"
  /\ UNCHANGED <<input, available, retrieved, candidates, protected, states, packing, status>>

\* The whole chain of every key found; a version that the search did not find
\* gets no relevance.  Sorting a chain of aware and naive versions raises.
Expand ==
  /\ stage = "expand"
  /\ LET chains == {Chain(k) : k \in Keys(MemoriesOf(candidates))}
         added  == (UNION chains) \ MemoriesOf(candidates)
     IN  \/ /\ \A c \in chains : Comparable(c)
            /\ candidates' = candidates \cup {[memory |-> m, relevance |-> 0] : m \in added}
            /\ stage' = "resolve"
            /\ UNCHANGED <<input, available, retrieved, protected, states, packing, status>>
         \/ /\ \E c \in chains : ~Comparable(c)
            /\ Raise

\* One version of each key answers the request.  A historical request compares
\* its times with those of every version.
Resolve ==
  /\ stage = "resolve"
  /\ LET found    == MemoriesOf(candidates)
         group(k) == {m \in found : m.key = k}
         clear    == \A k \in Keys(found) :
                       /\ HistoricalIntent => \A m \in group(k) : m.aware = request.aware
                       /\ Cardinality(Answering(group(k))) <= 1
     IN  \/ /\ clear
            /\ candidates' = {c \in candidates :
                                \/ c.memory.key = None
                                \/ c.memory \in Answering(group(c.memory.key))}
            /\ stage' = "require"
            /\ UNCHANGED <<input, available, retrieved, protected, states, packing, status>>
         \/ ~clear /\ Raise

Require ==
  /\ stage = "require"
  /\ LET needed == {m \in MemoriesOf(candidates) : m.type = "state" /\ m.needed}
     IN  \/ /\ request.mandatory
            /\ \A m, n \in needed : m.key = n.key => m = n
            /\ states' = needed
            /\ stage' = "protect"
            /\ UNCHANGED <<input, available, retrieved, candidates, protected, packing, status>>
         \/ /\ request.mandatory
            /\ \E m, n \in needed : m.key = n.key /\ m # n
            /\ Raise
         \/ /\ ~request.mandatory
            /\ stage' = "protect"
            /\ UNCHANGED <<input, available, retrieved, candidates, protected, states,
                           packing, status>>

\* Faulty variant: a constraint must also have been retrieved.
AppliesIfFound(m) == ActiveProtected(m) /\ m.applicable /\ m \in MemoriesOf(candidates)

Applies(m) == ActiveProtected(m) /\ m.applicable

Protect ==
  /\ stage = "protect"
  /\ protected' = IF request.preserve THEN {m \in available : Applies(m)} ELSE {}
  /\ stage' = "mandatory"
  /\ UNCHANGED <<input, available, retrieved, candidates, states, packing, status>>

Affordable == Cost(Mandatory) <= request.budget

\* Nothing mandatory is left out to make the rest fit.
FailMandatory ==
  /\ stage = "mandatory"
  /\ ~Affordable
  /\ Finish("insufficient_context_budget")
  /\ UNCHANGED <<input, available, retrieved, candidates, protected, states, packing>>

Competes(c) ==
  /\ c.memory \notin Mandatory
  /\ ~(request.preserve /\ ActiveProtected(c.memory))

AdmitMandatory ==
  /\ stage = "mandatory"
  /\ Affordable
  /\ pool' = {c \in candidates : Competes(c)}
  /\ remaining' = request.budget - Cost(Mandatory)
  /\ stage' = "pack"
  /\ UNCHANGED <<input, available, retrieved, candidates, protected, states, flexible, status>>

\* A baseline packs all it has.
Rank ==
  /\ stage = "rank"
  /\ pool' = candidates
  /\ remaining' = request.budget
  /\ stage' = "pack"
  /\ UNCHANGED <<input, available, retrieved, candidates, protected, states, flexible, status>>

\* Faulty variants: off by one on either side.
FitsStrictly(c) == c.memory.tokens < remaining
FitsLoosely(c) == c.memory.tokens <= remaining + 1

Fits(c) == c.memory.tokens <= remaining

Take ==
  /\ stage = "pack"
  /\ pool # {}
  /\ LET c == Best(pool)
     IN  /\ Fits(c)
         /\ flexible' = Append(flexible, c)
         /\ remaining' = remaining - c.memory.tokens
         /\ pool' = pool \ {c}
  /\ UNCHANGED <<input, stage, available, retrieved, candidates, protected, states, status>>

\* Faulty variant: the window goes on behind a memory that does not fit.
SkipAlways ==
  /\ stage = "pack"
  /\ pool # {}
  /\ ~Fits(Best(pool))
  /\ pool' = pool \ {Best(pool)}
  /\ UNCHANGED <<input, stage, available, retrieved, candidates, protected, states,
                 flexible, remaining, status>>

\* What does not fit is passed over; the sliding window ends there.
Skip ==
  /\ stage = "pack"
  /\ pool # {}
  /\ ~Fits(Best(pool))
  /\ pool' = IF request.policy = "sliding_window" THEN {} ELSE pool \ {Best(pool)}
  /\ UNCHANGED <<input, stage, available, retrieved, candidates, protected, states,
                 flexible, remaining, status>>

StopPacking ==
  /\ stage = "pack"
  /\ pool = {}
  /\ stage' = "account"
  /\ UNCHANGED <<input, available, retrieved, candidates, protected, states, packing, status>>

\* The final accounting counts again what was selected.
Account ==
  /\ stage = "account"
  /\ Finish(IF Proposed /\ Cost(Selected) > request.budget THEN "error" ELSE "ok")
  /\ UNCHANGED <<input, available, retrieved, candidates, protected, states, packing>>

Next ==
  \/ RefuseBudget \/ AcceptBudget \/ Filter \/ Retrieve \/ TakeAll \/ Expand \/ Resolve
  \/ Require \/ Protect \/ FailMandatory \/ AdmitMandatory \/ Rank
  \/ Take \/ Skip \/ StopPacking \/ Account

Spec == Init /\ [][Next]_vars

-----------------------------------------------------------------------------
(* Properties *)

TypeOK ==
  /\ snapshot \in Snapshot /\ request \in Request
  /\ stage \in Stages /\ status \in Statuses
  /\ available \subseteq snapshot /\ retrieved \subseteq available
  /\ protected \subseteq available /\ states \subseteq available
  /\ candidates \subseteq [memory : available, relevance : 0..Scale]
  /\ pool \subseteq candidates
  /\ flexible \in Seq(candidates)
  /\ remaining \in Nat

Answered == stage = "done" /\ status = "ok"

\* docs/architecture.md, invariant 11: mandatory memory is never cut.  Every
\* applicable protected constraint of the session is selected however little it
\* resembles the query, so is every needed state that was resolved, and when
\* they do not fit nothing else is selected either.
MandatoryWhole ==
  Proposed /\ stage = "done" /\ status \in {"ok", "insufficient_context_budget"} =>
    /\ request.preserve =>
         {m \in available : m.type = "constraint" /\ m.active /\ m.protected /\ m.applicable}
           \subseteq Selected
    /\ request.mandatory =>
         {m \in MemoriesOf(candidates) : m.type = "state" /\ m.needed} \subseteq Selected
    /\ status = "insufficient_context_budget" =>
         flexible = <<>> /\ Cost(Mandatory) > request.budget

\* docs/architecture.md, invariants 3 to 5: finding any version of a chain is as
\* good as finding all of them.  The version that answers the request in the
\* whole chain is a candidate, and no other version is selected, even when the
\* search found only a version of another time.
VersionsResolved ==
  Proposed /\ request.temporal /\ Answered =>
    \A k \in Keys(available) :
      /\ k \in Keys(retrieved) => Answering(Chain(k)) \subseteq MemoriesOf(candidates)
      /\ {m \in Selected \ protected : m.key = k} \subseteq Answering(Chain(k))

\* What the memory store can have produced: one active version of a key, and
\* intervals of a chain that at most touch.
WellVersioned(S) ==
  /\ Unambiguous(S)
  /\ \A m, n \in S : m # n /\ m.key # None /\ m.key = n.key =>
       \/ m.to # None /\ m.to <= n.from
       \/ n.to # None /\ n.to <= m.from

\* A call fails only on a snapshot that breaks the versioning rules or mixes
\* time zones: two versions that touch at the instant asked for are no conflict,
\* and versions of another session or of a later turn do no harm.
NoSpuriousError ==
  status = "error" =>
    LET visible == {m \in snapshot : m.session = request.session /\ m.turn <= request.turn}
    IN  \/ ~WellVersioned(visible)
        \/ ~Comparable(visible)
        \/ \E m \in visible : m.aware # request.aware

\* No stage brings in a memory of another session or of a turn that has not
\* happened, the protected path and the version expansion included.
NothingFromTheFuture ==
  stage = "done" =>
    \A m \in Selected : m.session = request.session /\ m.turn <= request.turn

Competitors == IF Proposed THEN {c \in candidates : Competes(c)} ELSE candidates

PackedAhead(d) == {c \in Competitors : Before(c, d) /\ c.memory \in Packed}

FlexibleBudget == request.budget - Cost(Mandatory)

\* The packing loop computes the greedy choice: a competitor is selected exactly
\* if it fits beside the selected ones that rank before it.  And what the loop
\* of any policy has left is what the final accounting finds: nothing is packed
\* or charged twice, so the RuntimeError of select_memory is never raised.
GreedyPacking ==
  Answered =>
    /\ remaining = request.budget - Cost(Selected)
    /\ request.policy # "sliding_window" =>
         \A d \in Competitors :
           d.memory \in Packed <=>
             d.memory.tokens + Cost(MemoriesOf(PackedAhead(d))) <= FlexibleBudget

\* The sliding window is the longest run of newest memories that fits as a
\* whole: no older memory is selected behind one that was left out.
WindowContiguous ==
  Answered /\ request.policy = "sliding_window" =>
    \A d \in Competitors :
      d.memory \in Packed <=>
        Cost({c.memory : c \in {e \in Competitors : e = d \/ Before(e, d)}}) <= request.budget

=============================================================================
