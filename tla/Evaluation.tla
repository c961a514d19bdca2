----------------------------- MODULE Evaluation -----------------------------
(***************************************************************************)
(* benchmark/evaluator.py: evaluate judges the tool calls of a run, and    *)
(* the way the run ended, against the ground truth of its scenario.        *)
(*                                                                         *)
(* A call is a function from fields to values: the tool, the action and    *)
(* the arguments in one.  A pattern is such a function too.  The metrics   *)
(* that count, rate and rank, and do not enter the verdict, are left out.  *)
(***************************************************************************)
EXTENDS Integers, Sequences

CONSTANTS Call,
          Scenario,    \* ground truths: see ScenarioShape
          Tried,       \* Tried[s]: the calls an agent may make in scenario s
          End,         \* the ways a run ends: see EndShape
          MaxCalls,    \* bound: the calls of a run
          Rejected,    \* evaluate raised ValueError
          None

\* rules: forbidden patterns and, or None, what approval is needed for what.
\* states: the argument of which calls has to have which value.
ScenarioShape(s) ==
  /\ \A r \in s.rules : r.forbidden # {} \/ r.approval # None
  /\ \A x, y \in s.states : x.memory_id = y.memory_id => x = y
  /\ s.temporal => s.states # {}
  /\ Len(s.expected) \in Nat /\ DOMAIN s.expected = 1..Len(s.expected)

\* The logs rejectedByBudget and candidates can be missing.
EndShape(e) ==
  /\ e.status \in {"ok", "invalid_budget_configuration", "insufficient_context_budget"}
  /\ e.goal \in BOOLEAN \cup {None} /\ {e.input, e.fixed} \subseteq Nat \cup {None}

ASSUME EvaluationAssumption ==
  /\ \A s \in Scenario : ScenarioShape(s) /\ Tried[s] \subseteq Call
  /\ \A e \in End : EndShape(e)
  /\ MaxCalls \in Nat /\ None \notin BOOLEAN

VARIABLES scenario,
          calls,       \* the calls the agent made
          result       \* None, Rejected or the verdict

vars == <<scenario, calls, result>>

-----------------------------------------------------------------------------
(* Matching *)

\* _matches: everything the pattern asks for is there, more may be.
Matches(call, pattern) ==
  \A f \in DOMAIN pattern : f \in DOMAIN call /\ call[f] = pattern[f]

Made(pattern) == \E n \in DOMAIN calls : Matches(calls[n], pattern)

MadeOneOf(patterns) == \E p \in patterns : Made(p)

\* A try of assign: the pattern that wants a call, the owner of each call so far
\* (0: nobody), the calls visited, and the call that is looked at next.
Tries(patterns) ==
  [pattern : DOMAIN patterns, owner : [DOMAIN calls -> 0..Len(patterns)],
   visited : SUBSET DOMAIN calls, next : 1..(Len(calls) + 1)]

\* Whether a try went well, and what it left behind.
Outcome(found, try) == [found |-> found, owner |-> try.owner, visited |-> try.visited]

\* What follows a look at the next call: the call after it, a try of the owner of
\* the call for another one, or the call after it when that try failed.
Skip(try) == [try EXCEPT !.next = @ + 1]

Visit(try) == [try EXCEPT !.visited = @ \cup {try.next}]

Ask(try) == [Visit(try) EXCEPT !.pattern = try.owner[try.next], !.next = 1]

GoOn(try, moved) == [Skip(try) EXCEPT !.owner = moved.owner, !.visited = moved.visited]

\* Faulty variant: a call that is taken stays taken.
LookGreedy(assign, try, patterns) ==
  LET n == try.next
  IN  IF n > Len(calls) THEN Outcome(FALSE, try)
      ELSE IF try.owner[n] # 0 \/ ~Matches(calls[n], patterns[try.pattern]) THEN assign[Skip(try)]
      ELSE [Outcome(TRUE, try) EXCEPT !.owner[n] = try.pattern]

\* The loop of assign: the pattern takes a call nobody has, or one whose owner
\* finds another.
Look(assign, try, patterns) ==
  LET n     == try.next
      moved == IF try.owner[n] = 0 THEN Outcome(TRUE, Visit(try)) ELSE assign[Ask(try)]
  IN  IF n > Len(calls) THEN Outcome(FALSE, try)
      ELSE IF n \in try.visited \/ ~Matches(calls[n], patterns[try.pattern]) THEN assign[Skip(try)]
      ELSE IF moved.found THEN [moved EXCEPT !.owner[n] = try.pattern]
      ELSE assign[GoOn(try, moved)]

Assign(patterns) ==
  LET assign[try \in Tries(patterns)] == Look(assign, try, patterns) IN assign

\* The patterns are served in turn, each by a new try, until one fails.
Serve(served, p, patterns) ==
  LET m == served[p - 1]
  IN  IF p = 0 THEN [found |-> TRUE, owner |-> [n \in DOMAIN calls |-> 0], visited |-> {}]
      ELSE IF ~m.found THEN m
      ELSE Assign(patterns)[[pattern |-> p, owner |-> m.owner, visited |-> {}, next |-> 1]]

\* _expected_calls_present
ExpectedCallsPresent(patterns) ==
  LET served[p \in 0..Len(patterns)] == Serve(served, p, patterns)
  IN  served[Len(patterns)].found

-----------------------------------------------------------------------------
(* Constraints and approvals *)

Unauthorized(approval) ==
  \E n \in DOMAIN calls :
    /\ Matches(calls[n], approval.execution)
    /\ "approval" \in DOMAIN calls[n] => calls[n]["approval"] \notin approval.valid

Violated(rule) ==
  MadeOneOf(rule.forbidden) \/ (rule.approval # None /\ Unauthorized(rule.approval))

ApprovalCorrect(approval) ==
  ~Unauthorized(approval) /\ (approval.requestRequired => Made(approval.request))

-----------------------------------------------------------------------------
(* Required states *)

Relevant(state) == {n \in DOMAIN calls : Matches(calls[n], state.call)}

Given(state) == {n \in Relevant(state) : state.argument \in DOMAIN calls[n]}

\* Faulty variant: the last use decides.
WrongInTheEnd(state) ==
  {calls[n][state.argument] : n \in {k \in Given(state) : \A l \in Given(state) : l <= k}}
    \ {state.expected}

\* The values used that are not the expected one.
Wrong(state) == {calls[n][state.argument] : n \in Given(state)} \ {state.expected}

\* Only a current state can be misused as stale.
Stale(state) == IF state.scope = "current" THEN state.stale ELSE {}

Omitted(state) == Given(state) = {} \/ Given(state) # Relevant(state)

Correct(state) == ~Omitted(state) /\ Wrong(state) = {}

AllCorrect == \A state \in scenario.states : Correct(state)

-----------------------------------------------------------------------------
(* How the run ended *)

\* A run that failed delivered no context.
Selected(end) == IF end.status = "ok" THEN end.selected ELSE {}

Known(log) == IF log = None THEN {} ELSE log

\* What evaluate and _selection_diagnostics raise ValueError for.
Acceptable(end) ==
  LET budget == Known(end.rejectedByBudget)
  IN  /\ end.status = "ok" => end.input # None
      /\ end.status = "ok" => end.goal # None \/ scenario.answers # None
      /\ end.before \cap end.rejected = {}
      /\ budget \cap (end.before \cup Selected(end)) = {}
      /\ Known(end.dropped) \cap Selected(end) = {} /\ Known(end.dropped) \subseteq end.before
      /\ end.candidates # None => end.before \cup end.rejected \cup budget \subseteq end.candidates

Missing(end) == scenario.targets \ Selected(end)

\* budget_selection_failure: a missing log is no empty log.
BudgetSelectionFailure(end) ==
  LET evidence == Missing(end) \cap (Known(end.rejectedByBudget) \cup Known(end.dropped))
  IN  CASE scenario.targets = {} -> None
        [] scenario.targets # {} /\ evidence # {} -> TRUE
        [] OTHER -> IF Missing(end) = {} \/ None \notin {end.rejectedByBudget, end.dropped}
                    THEN FALSE ELSE None

Answered(end) == scenario.answers # None /\ end.response \in scenario.answers

GoalOk(end) == IF end.goal # None THEN end.goal ELSE Answered(end)

OverBudget(end) == \E n \in {end.input, end.fixed} \ {None} : n > scenario.budget

TemporalVersionCorrect == IF scenario.temporal THEN AllCorrect ELSE None

Approvals == {r.approval : r \in scenario.rules} \ {None}

Forbidden == MadeOneOf(scenario.forbidden)

Success(end) ==
  /\ end.status = "ok" /\ GoalOk(end)
  /\ ExpectedCallsPresent(scenario.expected)
  /\ ~Forbidden /\ \A r \in scenario.rules : ~Violated(r)
  /\ AllCorrect
  /\ scenario.answers = None \/ Answered(end)
  /\ \A a \in Approvals : ApprovalCorrect(a)
  /\ ~OverBudget(end)

-----------------------------------------------------------------------------
(* The verdict *)

\* The failures that are noticed one by one.
Noticed(end) ==
  LET When(noticed, name) == IF noticed THEN {name} ELSE {}
  IN  UNION {When(end.status # "ok" \/ OverBudget(end), "budget_failure"),
             When(Missing(end) # {}, "selection_failure"),
             When(BudgetSelectionFailure(end) = TRUE, "budget_selection_failure"),
             When(TemporalVersionCorrect = FALSE, "temporal_failure"),
             When(Forbidden \/ \E r \in scenario.rules : Violated(r), "constraint_failure"),
             When(\E a \in Approvals : ~ApprovalCorrect(a), "approval_failure"),
             When(\E s \in scenario.states : Omitted(s), "state_omission"),
             When(\E s \in scenario.states : Wrong(s) \cap Stale(s) # {}, "stale_state_usage"),
             When(\E s \in scenario.states : Wrong(s) \ Stale(s) # {}, "state_error")}

Failures(end) ==
  IF end.status = "ok" /\ ~Success(end) /\ Missing(end) = {} /\ Noticed(end) = {}
  THEN {"reasoning_action_failure"} ELSE Noticed(end)

Verdict(end) ==
  [success  |-> Success(end),
   expected |-> ExpectedCallsPresent(scenario.expected),
   failures |-> Failures(end)]

-----------------------------------------------------------------------------

\* The agent makes a call; what the tools do with it is ContextPipeline.
Act(call) ==
  /\ result = None /\ Len(calls) < MaxCalls
  /\ calls' = Append(calls, call)
  /\ UNCHANGED <<scenario, result>>

Evaluate(end) ==
  /\ result = None
  /\ result' = IF Acceptable(end) THEN Verdict(end) ELSE Rejected
  /\ UNCHANGED <<scenario, calls>>

Init == scenario \in Scenario /\ calls = <<>> /\ result = None

Next ==
  \/ \E call \in Tried[scenario] : Act(call)
  \/ \E end \in End : Evaluate(end)

Spec == Init /\ [][Next]_vars

Judged == result \notin {None, Rejected}

-----------------------------------------------------------------------------
(* Properties *)

\* _expected_calls_present: the expected calls count as present exactly when
\* some assignment gives each of them a call of its own, whatever the order of
\* the calls and however broad the patterns are.
MatchingExact ==
  Judged =>
    LET Wanted == DOMAIN scenario.expected
    IN  result.expected <=>
          \E f \in [Wanted -> DOMAIN calls] :
            /\ \A p \in Wanted : Matches(calls[f[p]], scenario.expected[p])
            /\ \A p, q \in Wanted : f[p] = f[q] => p = q

\* A call that alone spoils a run: a forbidden one, one without the permission
\* it needs, one that leaves out a required value or uses another.
Mistake(call) ==
  \/ \E p \in scenario.forbidden \cup UNION {r.forbidden : r \in scenario.rules} : Matches(call, p)
  \/ \E a \in Approvals :
       Matches(call, a.execution) /\ ~\E id \in a.valid : Matches(call, [approval |-> id])
  \/ \E s \in scenario.states :
       Matches(call, s.call) /\ (s.argument \in DOMAIN call => call[s.argument] # s.expected)

\* evaluate: a run that did not succeed has a recorded cause, a successful one
\* has at most the causes that say something of the selected memories, and no
\* later call makes up for a mistake.
VerdictExplained ==
  Judged =>
    /\ ~result.success => result.failures # {}
    /\ result.success => result.failures \subseteq {"selection_failure", "budget_selection_failure"}
    /\ (\E n \in DOMAIN calls : Mistake(calls[n])) =>
         ~result.success /\ result.failures # {"reasoning_action_failure"}

=============================================================================
