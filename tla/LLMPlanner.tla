----------------------------- MODULE LLMPlanner -----------------------------
(***************************************************************************)
(* agent/llm_planner.py in the loop of pipeline/orchestrator.py: plan asks *)
(* the model with retries, records what the response says it used, and     *)
(* turns the payload into an action; and benchmark/runner.py,              *)
(* _prompt_token_audit, compares the recorded usage with the counted       *)
(* prompts when the run is over.  Every run gets a fresh planner.          *)
(*                                                                         *)
(* ContextPipeline says what the steps of a run are; here a step is its    *)
(* counted prompt and its planner call.  A prompt is never blank.          *)
(***************************************************************************)
EXTENDS Integers, Sequences, FiniteSetsExt

CONSTANTS Tool, Action, Key,
          ToolOf,       \* ACTION_TO_TOOL
          Accepts,      \* the arguments a tool method takes
          Other,        \* a name that is no tool and no action
          Payload,      \* what a response can hold: see PayloadShape
          Prompt,       \* the prompts: what is counted and what the model is charged for
          Output,       \* the tokens of a response, candidate and thinking
          Budget,       \* context_budget
          MaxRetries,   \* max_retries
          MaxSteps,     \* max_steps
          Missing,      \* no usage metadata, or no payload
          None

\* keys: the arguments that hold a usable value
PayloadShape(p) ==
  /\ p.tool \in Tool \cup {Other, None}
  /\ p.action \in Action \cup {Other, None}
  /\ p.keys \subseteq Key \cup {Other}

ASSUME PlannerAssumption ==
  /\ ToolOf \in [Action -> Tool] /\ Accepts \in [Action -> SUBSET Key]
  /\ \A p \in Payload : PayloadShape(p)
  /\ Prompt \subseteq [counted : 0..Budget, charged : Nat]
  /\ Output \in Nat /\ Budget \in Nat /\ MaxRetries \in Nat /\ MaxSteps \in Nat \ {0}
  /\ None \notin Nat \cup Action \cup Tool /\ Missing \notin Nat \cup Payload \cup {None}

VARIABLES
  phase,       \* where the run is
  prompt,      \* the prompt of this step
  attempt,     \* the attempts plan has made for it
  calls,       \* the counters planner_calls, api_calls, usage_metadata_calls
  perCall,     \* prompt_tokens_per_call
  action,      \* the AgentAction of this step, or None
  counted,     \* total_input_tokens of the executed steps
  told,        \* history: each planner call with what its response said
  report       \* the audit and the usage _run_one reports, or None

planner == <<attempt, calls, perCall, action>>
vars == <<phase, prompt, planner, counted, told, report>>

Usage == Nat \cup {None}
ToolCall == {[action |-> a, keys |-> K] : a \in Action, K \in SUBSET Key}
Text == [action |-> None, keys |-> {}]

\* None is Python's None, and no action.
ASSUME NoneAssumption == None \notin ToolCall

-----------------------------------------------------------------------------
(* The model's output *)

\* A name that is none counts as left out.
Known(name, names) == IF name \in names THEN name ELSE None

\* An action names its tool; a tool alone, or the wrong one, is no call.
Agrees(tool, act) == act # None /\ tool \in {None, ToolOf[act]}

\* agent_action_from_model_output
ActionFrom(p) ==
  LET tool == Known(p.tool, Tool)
      act  == Known(p.action, Action)
  IN  IF Agrees(tool, act) THEN [action |-> act, keys |-> p.keys \cap Accepts[act]] ELSE Text

-----------------------------------------------------------------------------
(* One planner call *)

Begin ==
  /\ phase = "idle"
  /\ phase' = "step"
  /\ prompt' \in Prompt
  /\ attempt' = 0 /\ action' = None
  /\ calls' = [planner |-> 0, api |-> 0, usage |-> 0] /\ perCall' = <<>>
  /\ counted' = <<>> /\ told' = <<>> /\ report' = None

\* The prompt of the next step is assembled, whatever its size.
Plan ==
  /\ phase = "step"
  /\ prompt' \in Prompt
  /\ calls' = [calls EXCEPT !.planner = @ + 1]
  /\ attempt' = 0 /\ action' = None
  /\ phase' = "ask"
  /\ UNCHANGED <<perCall, counted, told, report>>

\* The next prompt does not fit the budget: the planner is not called any more.
StopAtBudget ==
  /\ phase = "step"
  /\ phase' = "ended"
  /\ UNCHANGED <<prompt, planner, counted, told, report>>

\* No package or no key: the error leaves the run, which reports nothing.
NoClient ==
  /\ phase = "ask" /\ calls.api = 0
  /\ phase' = "idle"
  /\ UNCHANGED <<prompt, planner, counted, told, report>>

\* Faulty variant: a response that cannot be read is asked for again.
TransientOrValue(fault) == fault # "fatal"

Transient(fault) == fault = "transient"

\* plan returns, and the agent acts on it; what the response told is noted.
Conclude(answer, said) ==
  /\ action' = answer
  /\ told' = Append(told, [prompt |-> prompt, said |-> said])
  /\ phase' = "act"

Failed(fault, said) ==
  \/ /\ Transient(fault) /\ attempt < MaxRetries
     /\ attempt' = attempt + 1
     /\ UNCHANGED <<phase, action, told>>
  \/ /\ ~(Transient(fault) /\ attempt < MaxRetries)
     /\ Conclude(Text, said)
     /\ UNCHANGED attempt

ApiFails(fault) ==
  /\ phase = "ask"
  /\ calls' = [calls EXCEPT !.api = @ + 1]
  /\ Failed(fault, Missing)
  /\ UNCHANGED <<prompt, perCall, counted, report>>

\* _record_usage_metadata: said is Missing, None for no valid number, or a number.
RecordUsage(said) ==
  /\ calls' = [calls EXCEPT !.api = @ + 1, !.usage = IF said = Missing THEN @ ELSE @ + 1]
  /\ perCall' = IF said = Missing THEN perCall ELSE Append(perCall, said)

\* A response is recorded before anyone looks at its payload.
Respond(said, payload) ==
  /\ phase = "ask"
  /\ RecordUsage(said)
  /\ IF payload = Missing
     THEN Failed("value", said)
     ELSE Conclude(ActionFrom(payload), said) /\ UNCHANGED attempt
  /\ UNCHANGED <<prompt, counted, report>>

-----------------------------------------------------------------------------
(* The rest of a step *)

Counted == counted' = Append(counted, prompt.counted)

Answer ==
  /\ phase = "act" /\ action = Text
  /\ Counted
  /\ phase' = "ended"
  /\ UNCHANGED <<prompt, planner, told, report>>

Execute(success) ==
  /\ phase = "act" /\ action # Text
  /\ Counted
  /\ phase' = IF success /\ Len(counted') < MaxSteps THEN "step" ELSE "ended"
  /\ UNCHANGED <<prompt, planner, told, report>>

-----------------------------------------------------------------------------
(* The report *)

Pairs == Min({Len(counted), Len(perCall)})

Deltas == [n \in 1..Pairs |-> IF perCall[n] = None THEN None ELSE perCall[n] - counted[n]]

\* The entries of a sequence that are numbers.
Numbers(s) == {s[n] : n \in {k \in DOMAIN s : s[k] # None}}

Largest(S) == IF S = {} THEN None ELSE Max(S)

\* Faulty variant: only the number of calls is compared.
SameLength == Len(counted) = Len(perCall)

Complete == Len(counted) = Len(perCall) /\ \A n \in DOMAIN perCall : perCall[n] # None

Audit ==
  [deltas   |-> Deltas,
   complete |-> Complete,
   positive |-> IF Numbers(Deltas) = {} THEN None ELSE Max(Numbers(Deltas) \cup {0}),
   counted  |-> Largest(Numbers(counted)),
   actual   |-> Largest(Numbers(perCall)),
   exceeded |-> IF Complete THEN \E n \in Numbers(perCall) : n > Budget ELSE None]

\* The prompt tokens of a run: what is summed over the calls.
PromptTokens ==
  IF calls.usage = 0 THEN None
  ELSE MapThenSumSet(LAMBDA n : perCall[n], {n \in DOMAIN perCall : perCall[n] # None})

\* output_tokens
OutputTokens ==
  IF calls.usage > 0 THEN calls.usage * Output ELSE IF calls.api = 0 THEN 0 ELSE None

Report ==
  /\ phase = "ended"
  /\ report' = [audit |-> Audit, tokens |-> PromptTokens, output |-> OutputTokens]
  /\ phase' = "idle"
  /\ UNCHANGED <<prompt, planner, counted, told>>

-----------------------------------------------------------------------------

Init ==
  /\ phase = "idle"
  /\ prompt \in Prompt
  /\ attempt = 0 /\ action = None
  /\ calls = [planner |-> 0, api |-> 0, usage |-> 0] /\ perCall = <<>>
  /\ counted = <<>> /\ told = <<>> /\ report = None

Next ==
  \/ Begin \/ Plan \/ StopAtBudget \/ NoClient
  \/ \E fault \in {"transient", "fatal"} : ApiFails(fault)
  \/ \E said \in {Missing, None, prompt.charged}, p \in Payload \cup {Missing} : Respond(said, p)
  \/ Answer \/ (\E success \in BOOLEAN : Execute(success))
  \/ Report

Spec == Init /\ [][Next]_vars

-----------------------------------------------------------------------------
(* Properties *)

\* The bounds hold because a plan is concluded after max_retries + 1 attempts,
\* and records a usage only with the attempt that concludes it.
TypeOK ==
  /\ phase \in {"idle", "step", "ask", "act", "ended"}
  /\ prompt \in Prompt
  /\ attempt \in 0..MaxRetries
  /\ calls \in [planner : 0..MaxSteps, api : 0..MaxSteps * (MaxRetries + 1), usage : 0..MaxSteps]
  /\ perCall \in Seq(Usage) /\ Len(perCall) = calls.usage /\ calls.usage <= calls.planner
  /\ action \in ToolCall \cup {Text, None}
  /\ action \in ToolCall => action.keys \subseteq Accepts[action.action]
  /\ counted \in Seq(Nat) /\ Len(counted) <= Len(told) /\ Len(told) <= calls.planner
  /\ report # None => report.audit.complete \in BOOLEAN /\ {report.tokens, report.output} \subseteq Usage

Delta(n) == told[n].prompt.charged - told[n].prompt.counted

\* docs/experiment_plan.md: an audit that calls itself complete compares every
\* planner call of the run with its own prompt, and says exactly whether one of
\* them was larger than the budget; and it is complete whenever every response
\* told a number.  No retry, no unreadable response and no missing usage can
\* shift the pairs of a complete audit.
AuditExact ==
  report # None =>
    /\ report.audit.complete <=> \A n \in DOMAIN told : told[n].said \in Nat
    /\ report.audit.complete =>
         /\ report.audit.deltas = [n \in DOMAIN told |-> Delta(n)]
         /\ report.audit.exceeded <=> \E n \in DOMAIN told : told[n].prompt.charged > Budget

\* docs/experiment_plan.md: output_tokens is null if an API call of the run told
\* no usage.  Here of the last API call of each planner call: a sum is reported
\* only if every planner call is in it.
OutputOfEveryCall ==
  report # None /\ (\E n \in DOMAIN told : told[n].said = Missing) => report.output = None

=============================================================================
