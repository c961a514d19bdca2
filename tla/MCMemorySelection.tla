------------------------- MODULE MCMemorySelection -------------------------
(***************************************************************************)
(* Instances of MemorySelection for TLC: a chain of three versions of a    *)
(* state, a constraint that was replaced, constraints that do and do not   *)
(* apply, facts that compete, and what must not matter: a later turn,      *)
(* another session, a second active version and a naive time stamp.        *)
(***************************************************************************)
EXTENDS MemorySelection, TLC

CONSTANTS s1, s2, file, rule

Plain == [id |-> 0, session |-> s1, turn |-> 0, key |-> None, type |-> "fact",
          active |-> TRUE, protected |-> FALSE, aware |-> TRUE, created |-> 0,
          from |-> 0, to |-> None, tokens |-> 1, importance |-> 0, similarity |-> 0,
          applicable |-> FALSE, needed |-> FALSE]

State == [Plain EXCEPT !.type = "state", !.key = file, !.needed = TRUE]
Constraint == [Plain EXCEPT !.type = "constraint", !.protected = TRUE, !.applicable = TRUE]

Versions ==
  {[State EXCEPT !.id = 1, !.active = FALSE, !.to = 2, !.similarity = 2],
   [State EXCEPT !.id = 2, !.active = FALSE, !.from = 2, !.to = 4, !.turn = 1, !.tokens = 2],
   [State EXCEPT !.id = 3, !.from = 4, !.turn = 2, !.similarity = -1]}

Rules ==
  {[Constraint EXCEPT !.id = 4, !.key = rule, !.active = FALSE, !.protected = FALSE,
                      !.to = 3, !.similarity = 2],
   [Constraint EXCEPT !.id = 5, !.key = rule, !.from = 3, !.turn = 1, !.tokens = 2],
   [Constraint EXCEPT !.id = 6, !.applicable = FALSE, !.similarity = 2]}

Facts ==
  {[Plain EXCEPT !.id = 7, !.tokens = 2, !.importance = 2, !.similarity = 1, !.turn = 1],
   [Plain EXCEPT !.id = 8, !.importance = 1, !.similarity = 1],
   [Plain EXCEPT !.id = 9, !.tokens = 0, !.turn = 2, !.created = 1]}

Strange ==
  {[Constraint EXCEPT !.id = 10, !.turn = 3],
   [State EXCEPT !.id = 11, !.from = 5, !.turn = 3],
   [Constraint EXCEPT !.id = 12, !.session = s2],
   [State EXCEPT !.id = 13, !.from = 3, !.turn = 2],
   [State EXCEPT !.id = 14, !.active = FALSE, !.aware = FALSE, !.to = 1]}

MCMemory == Versions \cup Rules \cup Facts \cup Strange

\* Up to three memories, and every mix of versions, rules and facts with at most
\* one intruder.
MCSnapshot ==
  {S \in SUBSET MCMemory : Cardinality(S) <= 3}
  \cup {Versions \cup Rules \cup F \cup X : F \in SUBSET Facts,
                                          X \in {{}} \cup {{m} : m \in Strange}}

Full == [policy |-> "proposed", preserve |-> TRUE, temporal |-> TRUE, mandatory |-> TRUE,
         tokenAware |-> TRUE, aware |-> TRUE, session |-> s1, turn |-> 2, topK |-> 2,
         intent |-> "current", start |-> 0, end |-> 1, budget |-> 4]

\* ABLATION_PRESETS.
Presets ==
  {Full, [Full EXCEPT !.preserve = FALSE],
   [Full EXCEPT !.temporal = FALSE, !.mandatory = FALSE],
   [Full EXCEPT !.mandatory = FALSE], [Full EXCEPT !.tokenAware = FALSE]}

\* Now, an instant where two versions touch, and a period that overlaps three.
MCRequest ==
  {[r EXCEPT !.intent = t[1], !.start = t[2], !.end = t[3], !.budget = b] :
     r \in Presets, b \in {1, 4},
     t \in {<<"current", 0, 1>>, <<"point", 2, 3>>, <<"range", 1, 5>>}}
  \cup {[Full EXCEPT !.topK = 1], [Full EXCEPT !.topK = 1, !.budget = 3],
        [Full EXCEPT !.budget = -1], [Full EXCEPT !.budget = 6, !.topK = 5]}
  \cup {[Full EXCEPT !.policy = p, !.budget = b, !.topK = 3] :
           p \in Policies \ {"proposed"}, b \in {-1, 2, 3}}

=============================================================================
