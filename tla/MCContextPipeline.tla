-------------------------- MODULE MCContextPipeline --------------------------
(***************************************************************************)
(* Instances of ContextPipeline for TLC: two messages and an empty one, a  *)
(* protected constraint, a needed state and flexible memories, and budgets *)
(* at every boundary.                                                      *)
(***************************************************************************)
EXTENDS ContextPipeline, TLC

CONSTANTS m1, m2, bad, granted

MCMessage == {m1, m2, bad}
OneGrant == <<granted>>
NumberGrant == <<2>>

\* Each result costs one token, each section one for its title, each memory its
\* own tokens.
MCTokens(shown, display) ==
  1 + Len(shown)
    + Cost(display.protected \cup display.states \cup display.other)
    + Cardinality({n \in DOMAIN display : display[n] # {}})

Item(id, type, guarded, tokens) ==
  [id |-> id, type |-> type, guarded |-> guarded, tokens |-> tokens]

rule == Item(1, "constraint", TRUE, 1)
file == Item(2, "state", FALSE, 1)
fact == Item(3, "other", FALSE, 2)
past == Item(4, "state", FALSE, 1)

MCMemory == {rule, file, fact, past}

Proposed == [budget |-> 0, protected |-> {rule}, states |-> {file}, ranked |-> <<past, fact>>]
Baseline == [budget |-> 0, protected |-> {}, states |-> {}, ranked |-> <<rule, fact>>]

MCTask ==
  {[Proposed EXCEPT !.budget = b] : b \in {0, 2, 4, 5, 7}}
  \cup {[Baseline EXCEPT !.budget = b] : b \in {1, 4}}

\* The second message only goes with the numbers of the first one.
MCCall ==
  {[tool |-> "draft", message |-> m1], [tool |-> "draft", message |-> bad],
   [tool |-> "request", message |-> m1], [tool |-> "request", message |-> bad],
   [tool |-> "other"], [tool |-> "unknown"]}
  \cup {[tool |-> "send", message |-> m1, approval |-> a] : a \in {None, granted, 2, 3}}
  \cup {[tool |-> "send", message |-> m2, approval |-> a] : a \in {granted, 1, 2}}
  \cup {[tool |-> "send", message |-> bad, approval |-> granted]}

=============================================================================
