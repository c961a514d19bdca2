--------------------------- MODULE ContextPipeline ---------------------------
(***************************************************************************)
(* pipeline/orchestrator.py, Orchestrator.run: select memories, build the  *)
(* prompt (context/builder.py), let the agent act (agent/agent.py with its *)
(* executor), feed the result back, again, until the agent answers, a tool *)
(* fails, the budget is exhausted or max_steps is reached; and what        *)
(* benchmark/runner.py, _run_one, reports of it.  Every run gets a fresh   *)
(* agent and fresh tools.                                                  *)
(*                                                                         *)
(* The selection policy may answer with any affordable choice: that is     *)
(* what MemorySelection guarantees.  The planner may choose any action.    *)
(***************************************************************************)
EXTENDS EmailTool, FiniteSetsExt

CONSTANTS Memory,        \* records with id, tokens, type, guarded
          Task,          \* what a run can be given: see TaskShape
          Call,          \* the tool calls a planner can choose
          Tokens(_, _),  \* the size of a prompt: tool results and what is shown
          StartTurn,     \* current_turn of the scenario
          MaxSteps       \* max_steps

\* guarded: is it an active protected constraint?
MemoryShape(m) ==
  m.tokens \in Nat /\ m.type \in {"constraint", "state", "other"} /\ m.guarded \in BOOLEAN

TaskShape(t) ==
  /\ t.budget \in Nat
  /\ t.protected \subseteq Memory /\ t.states \subseteq Memory
  /\ IsFiniteSet(t.protected) /\ IsFiniteSet(t.states)
  /\ t.ranked \in Seq(Memory)

CallShape(c) ==
  /\ c.tool \in {"draft", "request", "send", "other", "unknown"}
  /\ c.tool \in {"draft", "request", "send"} => c.message \in Message
  /\ c.tool = "send" => c.approval \in ApprovalId \cup {None}

ASSUME PipelineAssumption ==
  /\ StartTurn \in Nat /\ MaxSteps \in Nat \ {0}
  /\ \A m \in Memory : MemoryShape(m)
  /\ \A t \in Task : TaskShape(t)
  /\ \A c \in Call : CallShape(c)
  /\ None \notin BOOLEAN

VARIABLES
  task,          \* the scenario and the policy
  phase,         \* where the run is
  turn,          \* current_turn of the orchestrator
  agentTurn,     \* current_turn of the agent
  interactions,  \* the results the next prompt shows, with their turns
  actions,       \* tool_calls and tool_results
  fixed,         \* fixed_tokens of this step
  selection,     \* the SelectionResult of this step, or None
  kept,          \* how many flexible memories are left in the prompt
  traces,        \* the StepTraces
  outcome,       \* the PipelineRunResult, or None
  row            \* what _run_one reports, or None

tools   == <<mail, reply, actions>>
chosen  == <<fixed, selection, kept>>
clocks  == <<turn, agentTurn, interactions>>
results == <<outcome, row>>
vars    == <<task, phase, clocks, tools, chosen, traces, results>>

Steps == {"count", "select", "assemble", "act", "ended"}
Statuses == {"ok", "invalid_budget_configuration", "insufficient_context_budget"}

Cost(S) == MapThenSumSet(LAMBDA m : m.tokens, S)
Elements(s) == {s[n] : n \in DOMAIN s}
Subsequences(s) == {[n \in 1..Cardinality(K) |-> s[CHOOSE k \in K : Cardinality({j \in K : j < k}) = n - 1]]
                      : K \in SUBSET DOMAIN s}

-----------------------------------------------------------------------------
(* The prompt *)

\* Which section shows a memory: what a baseline selected looks the same as
\* what the proposed policy selected.
Display(protected, states, flexible) ==
  LET guarded == {m \in flexible : m.type = "constraint" /\ m.guarded}
      current == {m \in flexible : m.type = "state"}
  IN  [protected |-> protected \cup guarded,
       states    |-> states \cup current,
       other     |-> flexible \ (guarded \cup current)]

Nothing == Display({}, {}, {})

\* The prompt of selection sel that keeps k flexible memories.
Shown(sel, k) == Display(sel.protected, sel.states, Elements(SubSeq(sel.flexible, 1, k)))

Total == Tokens(interactions, Shown(selection, kept))

Selection(status, protected, states, flexible) ==
  [status |-> status, protected |-> protected, states |-> states, flexible |-> flexible]

-----------------------------------------------------------------------------
(* One step: count, select, assemble *)

Begin(t) ==
  /\ phase = "idle"
  /\ task' = t
  /\ phase' = "count"
  /\ turn' = StartTurn /\ agentTurn' = StartTurn /\ interactions' = <<>>
  /\ Reset /\ actions' = <<>>
  /\ fixed' = 0 /\ selection' = None /\ kept' = 0
  /\ traces' = <<>> /\ outcome' = None /\ row' = None

\* The fixed input alone may not fit any more: no selection then.
Count ==
  /\ phase = "count"
  /\ fixed' = Tokens(interactions, Nothing)
  /\ \/ /\ fixed' <= task.budget
        /\ phase' = "select"
        /\ UNCHANGED selection
     \/ /\ fixed' > task.budget
        /\ selection' = Selection("invalid_budget_configuration", {}, {}, <<>>)
        /\ phase' = "assemble"
  /\ kept' = 0
  /\ UNCHANGED <<task, clocks, tools, traces, results>>

Mandatory(t) == t.protected \cup t.states

Room == task.budget - fixed

SelectMandatoryOnly ==
  /\ phase = "select"
  /\ Cost(Mandatory(task)) > Room
  /\ selection' = Selection("insufficient_context_budget", task.protected, task.states, <<>>)
  /\ phase' = "assemble"
  /\ UNCHANGED <<task, clocks, tools, fixed, kept, traces, results>>

Select ==
  /\ phase = "select"
  /\ Cost(Mandatory(task)) <= Room
  /\ \E flexible \in Subsequences(task.ranked) :
       /\ Cost(Mandatory(task) \cup Elements(flexible)) <= Room
       /\ selection' = Selection("ok", task.protected, task.states, flexible)
       /\ kept' = Len(flexible)
  /\ phase' = "assemble"
  /\ UNCHANGED <<task, clocks, tools, fixed, traces, results>>

Trace(status, acted) ==
  [turn |-> turn, fixed |-> fixed, selection |-> selection, status |-> status,
   kept |-> kept, total |-> IF selection.status = "ok" THEN Total ELSE 0, acted |-> acted]

Finish(status, reason, completed) ==
  /\ outcome' = [status |-> status, reason |-> reason, completed |-> completed]
  /\ phase' = "ended"

\* The selection failed: there is nothing to assemble.
PassOnFailure ==
  /\ phase = "assemble"
  /\ selection.status # "ok"
  /\ traces' = Append(traces, Trace(selection.status, FALSE))
  /\ Finish(selection.status,
            IF selection.status = "insufficient_context_budget" THEN "context_budget"
                                                                ELSE selection.status, FALSE)
  /\ UNCHANGED <<task, clocks, tools, chosen, row>>

Assemble ==
  /\ phase = "assemble"
  /\ selection.status = "ok"
  /\ Total <= task.budget
  /\ phase' = "act"
  /\ UNCHANGED <<task, clocks, tools, chosen, traces, results>>

\* Faulty variants: two go at a time; nothing is dropped.
DropTwo ==
  /\ phase = "assemble"
  /\ selection.status = "ok"
  /\ Total > task.budget /\ kept > 0
  /\ kept' = IF kept > 1 THEN kept - 2 ELSE 0
  /\ UNCHANGED <<task, phase, clocks, tools, fixed, selection, traces, results>>

DropNothing ==
  /\ phase = "assemble"
  /\ selection.status = "ok"
  /\ Total > task.budget /\ kept > 0
  /\ UNCHANGED vars

\* The least valuable flexible memory goes, and the prompt is counted again.
Drop ==
  /\ phase = "assemble"
  /\ selection.status = "ok"
  /\ Total > task.budget /\ kept > 0
  /\ kept' = kept - 1
  /\ UNCHANGED <<task, phase, clocks, tools, fixed, selection, traces, results>>

\* The mandatory memories and their formatting do not fit.
Overflow ==
  /\ phase = "assemble"
  /\ selection.status = "ok"
  /\ Total > task.budget /\ kept = 0
  /\ traces' = Append(traces, Trace("insufficient_context_budget", FALSE))
  /\ Finish("insufficient_context_budget", "context_budget", FALSE)
  /\ UNCHANGED <<task, clocks, tools, chosen, row>>

-----------------------------------------------------------------------------
(* One step: act *)

Acted == traces' = Append(traces, Trace("ok", TRUE))

\* A text answer, empty or not, ends the run; the goal is reached if there was
\* an answer and a tool was used.
Answer(said) ==
  /\ phase = "act"
  /\ Acted
  /\ Finish("ok", "completed",
            said /\ actions # <<>> /\ \A n \in DOMAIN actions : actions[n].reply.ok)
  /\ UNCHANGED <<task, clocks, tools, chosen, row>>

\* A tool without an action, or an action without a tool.
Misfire ==
  /\ phase = "act"
  /\ Acted
  /\ Finish("ok", "tool_failure", FALSE)
  /\ UNCHANGED <<task, clocks, tools, chosen, row>>

\* What the executor does with a call; the mocks of files, calendar and tasks
\* just succeed here.
Perform(c) ==
  CASE c.tool = "draft"   -> Draft(c.message)
    [] c.tool = "request" -> RequestApproval(c.message)
    [] c.tool = "send"    -> Send(c.message, c.approval)
    [] c.tool = "other"   -> Succeed(None, FALSE) /\ UNCHANGED mail
    [] c.tool = "unknown" -> Fail

\* Faulty variant: a failed tool does not end the run.
GoesOnAnyway == TRUE

GoesOn == reply'.ok

\* Faulty variant: off by one.
LastStepLate == Len(traces') > MaxSteps

LastStep == Len(traces') >= MaxSteps

\* The call is executed, its result becomes an interaction of the next turn,
\* and the orchestrator decides how to go on.
Execute(c) ==
  /\ phase = "act"
  /\ Perform(c)
  /\ actions' = Append(actions, [call |-> c, reply |-> reply'])
  /\ agentTurn' = agentTurn + 1
  /\ interactions' = Append(interactions, [turn |-> agentTurn', reply |-> reply'])
  /\ turn' = Max({interactions'[n].turn : n \in DOMAIN interactions'})
  /\ Acted
  /\ IF ~GoesOn THEN Finish("ok", "tool_failure", FALSE)
     ELSE IF LastStep THEN Finish("ok", "max_steps", FALSE)
     ELSE phase' = "count" /\ UNCHANGED outcome
  /\ UNCHANGED <<task, chosen, row>>

\* An exception leaves the run without a report.
Abort ==
  /\ phase \in Steps
  /\ phase' = "idle"
  /\ UNCHANGED <<task, clocks, tools, chosen, traces, results>>

-----------------------------------------------------------------------------
(* The report of _run_one *)

Executed == {n \in DOMAIN traces : traces[n].acted}

\* The first of the executed steps with the largest prompt.
Peak ==
  CHOOSE n \in Executed :
    \A k \in Executed : /\ traces[k].total <= traces[n].total
                       /\ k < n => traces[k].total < traces[n].total

\* A step whose fixed input was too large evaluated no selection.
Evaluated == {n \in DOMAIN traces : traces[n].selection.status # "invalid_budget_configuration"}

\* Faulty variant: only the selection of a step is looked at.
StarvedBySelection(n) ==
  /\ traces[n].selection.protected \cup traces[n].selection.states # {}
  /\ traces[n].selection.status = "insufficient_context_budget"

Starved(n) ==
  /\ traces[n].selection.protected \cup traces[n].selection.states # {}
  /\ "insufficient_context_budget" \in {traces[n].selection.status, traces[n].status}

\* _mandatory_memory_overflow; None where nothing was measured.
MandatoryOverflow ==
  IF Evaluated = {} THEN None ELSE \E n \in Evaluated : Starved(n)

\* scenario_with_granted_approvals: a pending number is no valid one.
ValidApprovals ==
  Elements(Grants) \ {actions[n].reply.id : n \in {k \in DOMAIN actions :
                          actions[k].call.tool = "request" /\ actions[k].reply.ok}}

Report ==
  /\ phase = "ended"
  /\ LET last == traces[Len(traces)]
     IN  row' = [input |-> IF outcome.status = "ok" THEN traces[Peak].total
                           ELSE IF last.selection.status # "ok" THEN None
                           ELSE last.total,
                 fixed |-> IF outcome.status = "ok" THEN traces[Peak].fixed ELSE last.fixed,
                 overflow |-> MandatoryOverflow,
                 valid |-> ValidApprovals]
  /\ phase' = "idle"
  /\ UNCHANGED <<task, clocks, tools, chosen, traces, outcome>>

-----------------------------------------------------------------------------

Init ==
  /\ phase = "idle"
  /\ task \in Task
  /\ turn = StartTurn /\ agentTurn = StartTurn /\ interactions = <<>>
  /\ MailInit /\ actions = <<>>
  /\ fixed = 0 /\ selection = None /\ kept = 0
  /\ traces = <<>> /\ outcome = None /\ row = None

Proceed ==
  \/ Count \/ SelectMandatoryOnly \/ Select
  \/ PassOnFailure \/ Assemble \/ Drop \/ Overflow
  \/ (\E said \in BOOLEAN : Answer(said)) \/ Misfire \/ (\E c \in Call : Execute(c))
  \/ Report

Next == (\E t \in Task : Begin(t)) \/ Proceed \/ Abort

Spec == Init /\ [][Next]_vars

\* A run that nothing interrupts keeps going.
FairSpec == Spec /\ WF_vars(Proceed)

-----------------------------------------------------------------------------
(* Properties *)

TypeOK ==
  /\ MailTypeOK
  /\ task \in Task
  /\ phase \in Steps \cup {"idle"}
  /\ {turn, agentTurn, fixed, kept} \subseteq Nat
  /\ Len(traces) <= MaxSteps /\ Len(actions) <= MaxSteps
  /\ selection # None =>
       /\ selection.status \in Statuses
       /\ selection.protected \subseteq Memory /\ selection.states \subseteq Memory
       /\ selection.flexible \in Seq(Memory)
       /\ kept <= Len(selection.flexible)
  /\ outcome # None => outcome.status \in Statuses /\ outcome.completed \in BOOLEAN
  /\ row # None => row.input \in Nat \cup {None} /\ row.overflow \in BOOLEAN \cup {None}

\* What the agent saw at step n: the results of the steps before it.
Before(n) == SubSeq(interactions, 1, n - 1)

\* docs/architecture.md, invariants 11 and 12: every prompt the agent acted on
\* fits the budget with all mandatory memories in it, and gave up no more than
\* it had to: the prompt with one more flexible memory did not fit.
PromptComplete ==
  \A n \in Executed :
    LET sel == traces[n].selection
        k   == traces[n].kept
    IN  /\ Mandatory(task) \subseteq sel.protected \cup sel.states
        /\ traces[n].total = Tokens(Before(n), Shown(sel, k))
        /\ traces[n].total <= task.budget
        /\ k < Len(sel.flexible) => Tokens(Before(n), Shown(sel, k + 1)) > task.budget

\* Every step before the last one made one call, which succeeded and whose
\* result is shown to all later steps at a turn of its own: nothing happens
\* after a failure, and the two clocks never drift apart.
OneActionPerStep ==
  /\ Len(actions) = Len(interactions)
  /\ Len(actions) \in {Len(traces), Len(traces) - 1}
  /\ \A n \in DOMAIN actions :
       /\ n < Len(traces) => actions[n].reply.ok
       /\ interactions[n] = [turn |-> StartTurn + n, reply |-> actions[n].reply]
  /\ turn = StartTurn + Len(actions) /\ agentTurn = turn
  /\ \A n \in DOMAIN traces :
       traces[n].fixed = Tokens(Before(n), Nothing) /\ traces[n].turn = StartTurn + n - 1

\* docs/experiment_plan.md: the report tells mandatory memories that did not
\* fit, by themselves or with their formatting, in whichever step, from dropped
\* flexible ones and from fixed input that was too large.
DoesNotFit(n) ==
  \/ Cost(Mandatory(task)) > task.budget - Tokens(Before(n), Nothing)
  \/ Tokens(Before(n), Display(task.protected, task.states, {})) > task.budget

OverflowReported ==
  row # None =>
    /\ row.overflow = None <=> Tokens(<<>>, Nothing) > task.budget
    /\ row.overflow # None =>
         (row.overflow <=>
           /\ Mandatory(task) # {}
           /\ \E n \in DOMAIN traces : DoesNotFit(n) /\ Tokens(Before(n), Nothing) <= task.budget)

\* The tool and the evaluator, who never look at each other's records, agree on
\* every message that was sent: it is marked as authorized exactly if its
\* approval is still valid when pending numbers are taken away.
EvaluatorAgrees ==
  row # None => \A n \in DOMAIN sent : sent[n].authorized <=> sent[n].approval \in row.valid

\* agent/tools/email.py: the number of a receipt "is no permission to send".
ReceiptIsNoPermission ==
  \A n \in DOMAIN sent :
    (\E k \in DOMAIN actions : /\ actions[k].call.tool = "request"
                              /\ actions[k].reply.ok
                              /\ actions[k].reply.id = sent[n].approval)
      => ~sent[n].authorized

\* Every run ends, however small the budget and whatever the planner does.
EveryRunEnds == phase = "count" ~> phase = "idle"

=============================================================================
