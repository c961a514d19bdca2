------------------------ MODULE ContextPipelineProofs ------------------------
(***************************************************************************)
(* Proofs about ContextPipeline, for every set of memories, tasks, calls,  *)
(* messages and grants, every budget and every number of steps.            *)
(*                                                                         *)
(* IInv says what the step that is under way has established, and what     *)
(* each trace says of its step; what _run_one reports follows from the     *)
(* traces of the run.                                                      *)
(***************************************************************************)
EXTENDS ContextPipeline, SetLemmas

Interaction == [turn : Nat, reply : ToolResult]
SelectionShape ==
  [status : Statuses, protected : SUBSET Memory, states : SUBSET Memory, flexible : Seq(Memory)]
TraceShape ==
  [turn : Nat, fixed : Nat, selection : SelectionShape, status : Statuses, kept : Nat, total : Nat,
   acted : BOOLEAN]
ActionShape == [call : Call, reply : ToolResult]
Displays == [protected : SUBSET Memory, states : SUBSET Memory, other : SUBSET Memory]

\* A token counter answers with a number, whatever the prompt.
CounterCounts == \A s \in Seq(Interaction), d \in Displays : Tokens(s, d) \in Nat

Typed ==
  /\ task \in Task /\ phase \in Steps \cup {"idle"}
  /\ turn \in Nat /\ agentTurn \in Nat /\ fixed \in Nat /\ kept \in Nat
  /\ interactions \in Seq(Interaction) /\ actions \in Seq(ActionShape)
  /\ selection \in SelectionShape \cup {None}
  /\ traces \in Seq(TraceShape)
  /\ outcome # None => outcome.status \in Statuses /\ outcome.completed \in BOOLEAN

\* The approvals are the grants and then a receipt per number; a message that
\* was sent is authorized exactly if its approval is among the grants.
MailRight ==
  /\ MailTypeOK
  /\ Len(Grants) <= Len(approvals) /\ Len(approvals) <= Len(Grants) + Len(actions)
  /\ \A n \in DOMAIN approvals :
       IF n <= Len(Grants) THEN approvals[n] = Granted[n]
       ELSE approvals[n].id = n /\ approvals[n].kind = "receipt"
  /\ \A n \in DOMAIN sent : sent[n].authorized <=> sent[n].approval \in Elements(Grants)
  /\ \A n \in DOMAIN actions :
       actions[n].call.tool = "request" /\ actions[n].reply.ok =>
         actions[n].reply.id \in (Len(Grants) + 1)..Len(approvals)

\* Where the sequences of a run stand.
Progress ==
  /\ Len(actions) = Len(interactions) /\ Len(traces) <= MaxSteps
  /\ Len(actions) \in {Len(traces), Len(traces) - 1}
  /\ turn = StartTurn + Len(actions) /\ agentTurn = turn
  /\ \A n \in DOMAIN actions :
       /\ n < Len(traces) => actions[n].reply.ok
       /\ interactions[n] = [turn |-> StartTurn + n, reply |-> actions[n].reply]
  /\ phase \in {"count", "select", "assemble", "act"} =>
       /\ Len(actions) = Len(traces) /\ Len(traces) < MaxSteps
       /\ \A n \in DOMAIN actions : actions[n].reply.ok /\ traces[n].acted

\* What a selection says of the step it was made for.
SelectionRight(sel, fix) ==
  /\ sel \in SelectionShape
  /\ sel.status = "invalid_budget_configuration" <=> fix > task.budget
  /\ sel.status # "invalid_budget_configuration" =>
       sel.protected = task.protected /\ sel.states = task.states
  /\ sel.status = "insufficient_context_budget" <=>
       fix <= task.budget /\ Cost(Mandatory(task)) > task.budget - fix

\* No flexible memory was given up without need.
KeptRight(sel, k, shown) ==
  k <= Len(sel.flexible) /\ (k < Len(sel.flexible) => Tokens(shown, Shown(sel, k + 1)) > task.budget)

\* The step that is under way.
StepRight ==
  /\ phase \in {"select", "assemble", "act"} => fixed = Tokens(interactions, Nothing)
  /\ phase = "select" => fixed <= task.budget /\ kept = 0
  /\ phase \in {"assemble", "act"} => SelectionRight(selection, fixed)
  /\ phase \in {"assemble", "act"} /\ selection.status = "ok" => KeptRight(selection, kept, interactions)
  /\ phase = "act" => selection.status = "ok" /\ Total <= task.budget
  /\ selection # None => kept <= Len(selection.flexible)

\* What t, the trace of the n-th step, has to say.
StepTold(t, n) ==
  /\ t.fixed = Tokens(Before(n), Nothing) /\ t.turn = StartTurn + n - 1
  /\ SelectionRight(t.selection, t.fixed)
  /\ t.acted =>
       /\ t.status = "ok" /\ t.selection.status = "ok"
       /\ t.total = Tokens(Before(n), Shown(t.selection, t.kept)) /\ t.total <= task.budget
       /\ KeptRight(t.selection, t.kept, Before(n))
  /\ ~t.acted =>
       IF t.selection.status = "ok"
       THEN /\ t.status = "insufficient_context_budget"
            /\ Tokens(Before(n), Display(task.protected, task.states, {})) > task.budget
       ELSE t.status = t.selection.status

\* Only the last step may have ended without the agent.
TracesRight ==
  \A n \in DOMAIN traces : StepTold(traces[n], n) /\ (traces[n].acted \/ n = Len(traces))

EndRight ==
  phase = "ended" =>
    Len(traces) > 0 /\ (outcome.status = "ok" <=> traces[Len(traces)].acted)

\* The row is written from the traces and the actions, which stay.
Reported ==
  /\ phase # "idle" => row = None
  /\ row # None =>
       /\ Len(traces) > 0
       /\ row.input \in Nat \cup {None}
       /\ row.overflow = MandatoryOverflow /\ row.valid = ValidApprovals

IInv == Typed /\ MailRight /\ Progress /\ StepRight /\ TracesRight /\ EndRight /\ Reported


Quiet == UNCHANGED <<task, clocks, tools, traces, row>>

-----------------------------------------------------------------------------
(* Prompts, costs and sequences *)

\* What a prompt shows of a selection is something that can be shown.
LEMMA ShownShape ==
  ASSUME NEW sel \in SelectionShape, NEW k \in Nat, k <= Len(sel.flexible)
  PROVE  Shown(sel, k) \in Displays
<1>1. /\ sel.protected \subseteq Memory /\ sel.states \subseteq Memory /\ sel.flexible \in Seq(Memory)
  BY DEF SelectionShape
<1>2. Elements(SubSeq(sel.flexible, 1, k)) \subseteq Memory
  BY <1>1 DEF Elements
<1> QED BY <1>1, <1>2 DEF Shown, Display, Displays

LEMMA NothingShape == Nothing \in Displays
BY DEF Nothing, Display, Displays

\* The mandatory memories of a task cost a natural number of tokens.
LEMMA CostNat ==
  ASSUME NEW t \in Task
  PROVE  Cost(Mandatory(t)) \in Nat
<1>1. TaskShape(t)
  BY PipelineAssumption
<1>2. IsFiniteSet(Mandatory(t)) /\ \A m \in Mandatory(t) : m.tokens \in Nat
  <2>1. IsFiniteSet(Mandatory(t)) /\ Mandatory(t) \subseteq Memory
    BY <1>1, FS_Union DEF TaskShape, Mandatory
  <2>2. \A m \in Memory : m.tokens \in Nat
    BY PipelineAssumption DEF MemoryShape
  <2> QED BY <2>1, <2>2
<1>3. Cost(Mandatory(t)) = TokenSum(Mandatory(t))
  BY DEF Cost, TokenSum
<1> QED BY <1>2, <1>3, TokenSumNat

\* A part of the ranked memories, in their order, is a sequence of memories.
LEMMA SubsequenceShape ==
  ASSUME NEW s \in Seq(Memory), NEW f \in Subsequences(s)
  PROVE  f \in Seq(Memory)
<1>1. PICK K \in SUBSET DOMAIN s :
        f = [n \in 1..Cardinality(K) |-> s[CHOOSE k \in K : Cardinality({j \in K : j < k}) = n - 1]]
  BY DEF Subsequences
<1>2. DOMAIN s = 1..Len(s) /\ Len(s) \in Nat
  OBVIOUS
<1>3. Cardinality(K) \in Nat
  <2>1. IsFiniteSet(DOMAIN s)
    BY <1>2, FS_Interval
  <2> QED BY <2>1, FS_Subset, FS_CardinalityType
<1>4. ASSUME NEW n \in 1..Cardinality(K)
      PROVE  f[n] \in Memory
  <2> DEFINE k == CHOOSE k \in K : Cardinality({j \in K : j < k}) = n - 1
  <2>0. K \subseteq 1..Len(s) /\ Len(s) \in Nat
    BY <1>2
  <2>1. \E l \in K : Cardinality({j \in K : j < l}) = n - 1
    BY <1>4, <2>0, NthElement, Zenon
  <2>2. k \in K
    BY <2>1, Zenon
  <2>3. f[n] = s[k]
    BY <1>1
  <2> HIDE DEF k
  <2> QED BY <2>2, <2>3
<1> QED BY <1>1, <1>3, <1>4

\* A step that is over saw what was there before, whatever follows.
LEMMA BeforeAppend ==
  ASSUME NEW X, NEW s \in Seq(X), NEW e \in X, NEW n \in 1..(Len(s) + 1)
  PROVE  SubSeq(Append(s, e), 1, n - 1) = SubSeq(s, 1, n - 1)
OBVIOUS

\* All results that a sequence holds are those before its next one.
LEMMA WholeBefore ==
  ASSUME NEW X, NEW s \in Seq(X)
  PROVE  SubSeq(s, 1, (Len(s) + 1) - 1) = s
OBVIOUS

-----------------------------------------------------------------------------
(* Steps that neither act nor end the run *)

\* The approvals that a run starts with are the grants, one by one.
LEMMA GrantedShape ==
  /\ Granted \in Seq(Approval) /\ Len(Granted) = Len(Grants) /\ Len(Grants) \in Nat
  /\ DOMAIN Granted = 1..Len(Grants) /\ DOMAIN Grants = 1..Len(Grants)
  /\ \A n \in DOMAIN Grants : Granted[n].id = Grants[n] /\ Granted[n].kind = "grant"
<1>1. Len(Grants) \in Nat /\ DOMAIN Grants = 1..Len(Grants) /\ \A n \in DOMAIN Grants : Grants[n] \in ApprovalId
  BY GrantAssumption
<1>2. \A n \in DOMAIN Grants : [id |-> Grants[n], kind |-> "grant", message |-> None] \in Approval
  BY <1>1 DEF Approval, Kind
<1>3. Granted \in [1..Len(Grants) -> Approval]
  BY <1>1, <1>2 DEF Granted
<1>4. Granted \in Seq(Approval) /\ Len(Granted) = Len(Grants)
  <2> HIDE DEF Approval
  <2> QED BY <1>1, <1>3
<1> QED BY <1>1, <1>3, <1>4 DEF Granted

\* A run starts with the grants as its approvals and no message sent.
LEMMA ResetMail ==
  ASSUME approvals' = Granted, sent' = <<>>, reply' = None, actions' = <<>>
  PROVE  MailRight'
<1>1. /\ Granted \in Seq(Approval) /\ Len(Granted) = Len(Grants) /\ Len(Grants) \in Nat
      /\ DOMAIN Granted = 1..Len(Grants)
  BY GrantedShape
<1>2. MailTypeOK'
  BY <1>1 DEF MailTypeOK
<1> QED BY <1>1, <1>2 DEF MailRight

LEMMA InitIInv == Init => IInv
<1> SUFFICES ASSUME Init PROVE IInv
  OBVIOUS
<1>1. /\ Granted \in Seq(Approval) /\ Len(Granted) = Len(Grants) /\ Len(Grants) \in Nat
      /\ DOMAIN Granted = 1..Len(Grants)
  BY GrantedShape
<1>2. MailRight
  BY <1>1 DEF Init, MailInit, MailRight, MailTypeOK
<1>3. Typed
  BY PipelineAssumption DEF Init, Typed
<1>4. Progress /\ StepRight /\ TracesRight /\ EndRight /\ Reported
  BY PipelineAssumption DEF Init, Progress, StepRight, TracesRight, EndRight, Reported
<1> QED BY <1>2, <1>3, <1>4 DEF IInv

LEMMA BeginKeeps == ASSUME IInv, NEW t \in Task, Begin(t) PROVE IInv'
<1>1. MailRight'
  BY ResetMail DEF Begin, Reset
<1>2. Typed'
  BY PipelineAssumption DEF Begin, Typed, Steps
<1>3. Progress' /\ StepRight' /\ TracesRight' /\ EndRight' /\ Reported'
  BY PipelineAssumption DEF Begin, Progress, StepRight, TracesRight, EndRight, Reported
<1> QED BY <1>1, <1>2, <1>3 DEF IInv

\* What a step keeps that only prepares the prompt.
LEMMA QuietKeeps ==
  ASSUME IInv, Quiet, phase \in {"count", "select", "assemble", "act"},
         phase' \in {"count", "select", "assemble", "act"}
  PROVE  /\ MailRight' /\ Progress' /\ TracesRight' /\ EndRight' /\ Reported'
         /\ task' = task /\ interactions' = interactions
<1>1. /\ UNCHANGED <<task, turn, agentTurn, interactions, approvals, sent, reply, actions, traces, row>>
  BY DEF Quiet, clocks, tools, mail
<1>2. MailRight'
  BY <1>1 DEF IInv, MailRight, MailTypeOK
<1>3. Progress'
  BY <1>1 DEF IInv, Progress
<1>4. TracesRight'
  BY <1>1 DEF IInv, TracesRight, StepTold, SelectionRight, KeptRight, Before
<1>5. EndRight' /\ Reported'
  BY <1>1 DEF IInv, EndRight, Reported
<1> QED BY <1>1, <1>2, <1>3, <1>4, <1>5

LEMMA CountKeeps == ASSUME CounterCounts, IInv, Count PROVE IInv'
<1>1. /\ phase = "count" /\ fixed' = Tokens(interactions, Nothing) /\ kept' = 0
      /\ Quiet /\ outcome' = outcome
  BY DEF Count, Quiet, results
<1>2. fixed' \in Nat
  BY <1>1, NothingShape DEF CounterCounts, IInv, Typed
<1>3. task.budget \in Nat /\ Cost(Mandatory(task)) \in Nat
  BY PipelineAssumption, CostNat DEF IInv, Typed, TaskShape
<1>4. CASE fixed' <= task.budget /\ phase' = "select" /\ UNCHANGED selection
  <2>1. /\ MailRight' /\ Progress' /\ TracesRight' /\ EndRight' /\ Reported'
        /\ task' = task /\ interactions' = interactions
    BY <1>1, <1>4, QuietKeeps
  <2>2. Typed'
    BY <1>1, <1>2, <1>4 DEF Quiet, clocks, tools, IInv, Typed, Steps
  <2>3. StepRight'
    <3>1. selection # None => 0 <= Len(selection.flexible)
      BY DEF IInv, Typed, SelectionShape
    <3> QED BY <1>1, <1>4, <2>1, <3>1 DEF StepRight
  <2> QED BY <2>1, <2>2, <2>3 DEF IInv
<1>5. CASE /\ fixed' > task.budget /\ phase' = "assemble"
           /\ selection' = Selection("invalid_budget_configuration", {}, {}, <<>>)
  <2>1. /\ MailRight' /\ Progress' /\ TracesRight' /\ EndRight' /\ Reported'
        /\ task' = task /\ interactions' = interactions
    BY <1>1, <1>5, QuietKeeps
  <2>2. /\ selection' \in SelectionShape /\ selection'.status = "invalid_budget_configuration"
        /\ Len(selection'.flexible) = 0
    BY <1>5 DEF Selection, SelectionShape, Statuses
  <2>3. Typed'
    BY <1>1, <1>2, <1>5, <2>2 DEF Quiet, clocks, tools, IInv, Typed, Steps
  <2>4. StepRight'
    BY <1>1, <1>2, <1>3, <1>5, <2>1, <2>2 DEF StepRight, SelectionRight
  <2> QED BY <2>1, <2>3, <2>4 DEF IInv
<1> QED BY <1>4, <1>5 DEF Count

LEMMA SelectMandatoryOnlyKeeps == ASSUME IInv, SelectMandatoryOnly PROVE IInv'
<1>1. /\ phase = "select" /\ phase' = "assemble" /\ Quiet
      /\ UNCHANGED <<fixed, kept, outcome>>
      /\ selection' = Selection("insufficient_context_budget", task.protected, task.states, <<>>)
      /\ Cost(Mandatory(task)) > task.budget - fixed
  BY DEF SelectMandatoryOnly, Quiet, results, Room
<1>2. /\ MailRight' /\ Progress' /\ TracesRight' /\ EndRight' /\ Reported'
      /\ task' = task /\ interactions' = interactions
  BY <1>1, QuietKeeps
<1>3. TaskShape(task)
  BY PipelineAssumption DEF IInv, Typed
<1>4. selection' \in SelectionShape
  BY <1>1, <1>3 DEF Selection, SelectionShape, Statuses, TaskShape
<1>5. /\ selection'.status = "insufficient_context_budget" /\ selection'.flexible = <<>>
      /\ selection'.protected = task.protected /\ selection'.states = task.states
  BY <1>1 DEF Selection
<1>6. Typed'
  BY <1>1, <1>4 DEF Quiet, clocks, tools, IInv, Typed, Steps
<1>7. fixed = Tokens(interactions, Nothing) /\ fixed <= task.budget /\ fixed \in Nat /\ task.budget \in Nat
  BY <1>1, <1>3 DEF IInv, StepRight, Typed, TaskShape
<1>8. kept' <= 0
  BY <1>1 DEF IInv, Typed, StepRight
<1>9. StepRight'
  BY <1>1, <1>2, <1>4, <1>5, <1>7, <1>8 DEF StepRight, SelectionRight
<1> QED BY <1>2, <1>6, <1>9 DEF IInv

LEMMA SelectKeeps == ASSUME IInv, Select PROVE IInv'
<1>1. PICK flexible \in Subsequences(task.ranked) :
        selection' = Selection("ok", task.protected, task.states, flexible) /\ kept' = Len(flexible)
  BY DEF Select
<1>2. /\ phase = "select" /\ phase' = "assemble" /\ Quiet /\ UNCHANGED <<fixed, outcome>>
      /\ ~ (Cost(Mandatory(task)) > task.budget - fixed)
  <2>1. /\ phase = "select" /\ phase' = "assemble" /\ Quiet /\ UNCHANGED <<fixed, outcome>>
        /\ Cost(Mandatory(task)) <= task.budget - fixed
    BY DEF Select, Quiet, results, Room
  <2>2. Cost(Mandatory(task)) \in Nat /\ task.budget \in Nat /\ fixed \in Nat
    BY PipelineAssumption, CostNat DEF IInv, Typed, TaskShape
  <2> QED BY <2>1, <2>2
<1>3. /\ MailRight' /\ Progress' /\ TracesRight' /\ EndRight' /\ Reported'
      /\ task' = task /\ interactions' = interactions
  BY <1>2, QuietKeeps
<1>4. TaskShape(task)
  BY PipelineAssumption DEF IInv, Typed
<1>5. flexible \in Seq(Memory)
  BY <1>4, SubsequenceShape DEF TaskShape
<1>6. /\ selection' \in SelectionShape /\ selection'.status = "ok" /\ selection'.flexible = flexible
      /\ selection'.protected = task.protected /\ selection'.states = task.states
  BY <1>1, <1>4, <1>5 DEF Selection, SelectionShape, Statuses, TaskShape
<1>7. Len(flexible) \in Nat
  BY <1>5
<1>8. Typed'
  BY <1>1, <1>2, <1>6, <1>7 DEF Quiet, clocks, tools, IInv, Typed, Steps
<1>9. fixed = Tokens(interactions, Nothing) /\ fixed <= task.budget /\ fixed \in Nat /\ task.budget \in Nat
  BY <1>2, <1>4 DEF IInv, StepRight, Typed, TaskShape
<1>10. SelectionRight(selection, fixed)'
  BY <1>2, <1>3, <1>6, <1>9 DEF SelectionRight
<1>11. StepRight'
  BY <1>1, <1>2, <1>3, <1>6, <1>7, <1>9, <1>10 DEF StepRight, KeptRight
<1> QED BY <1>3, <1>8, <1>11 DEF IInv

LEMMA AssembleKeeps == ASSUME IInv, Assemble PROVE IInv'
<1>1. /\ phase = "assemble" /\ phase' = "act" /\ Quiet /\ UNCHANGED <<fixed, kept, selection, outcome>>
      /\ selection.status = "ok" /\ Total <= task.budget
  BY DEF Assemble, Quiet, chosen, results
<1>2. /\ MailRight' /\ Progress' /\ TracesRight' /\ EndRight' /\ Reported'
      /\ task' = task /\ interactions' = interactions
  BY <1>1, QuietKeeps
<1>3. Typed'
  BY <1>1 DEF Quiet, clocks, tools, IInv, Typed, Steps
<1>4. StepRight'
  BY <1>1, <1>2 DEF IInv, StepRight, SelectionRight, KeptRight, Total
<1> QED BY <1>2, <1>3, <1>4 DEF IInv

\* The memory that goes was needed: with it the prompt was too large.
LEMMA DropKeeps == ASSUME IInv, Drop PROVE IInv'
<1>1. /\ phase = "assemble" /\ phase' = "assemble" /\ Quiet /\ UNCHANGED <<fixed, selection, outcome>>
      /\ selection.status = "ok" /\ Total > task.budget /\ kept > 0 /\ kept' = kept - 1
  BY DEF Drop, Quiet, results
<1>2. /\ MailRight' /\ Progress' /\ TracesRight' /\ EndRight' /\ Reported'
      /\ task' = task /\ interactions' = interactions
  BY <1>1, QuietKeeps
<1>3. kept \in Nat /\ kept' \in Nat /\ kept' + 1 = kept
  BY <1>1 DEF IInv, Typed
<1>4. Typed'
  BY <1>1, <1>3 DEF Quiet, clocks, tools, IInv, Typed, Steps
<1>5. SelectionRight(selection, fixed)'
  BY <1>1, <1>2 DEF IInv, StepRight, SelectionRight
<1>6. KeptRight(selection, kept, interactions)'
  <2>1. kept <= Len(selection.flexible) /\ Len(selection.flexible) \in Nat
    BY <1>1 DEF IInv, StepRight, KeptRight, SelectionRight, SelectionShape
  <2>2. Tokens(interactions', Shown(selection', kept' + 1)) > task'.budget
    BY <1>1, <1>2, <1>3 DEF Total
  <2> QED BY <1>1, <1>3, <2>1, <2>2 DEF KeptRight
<1>7. kept' <= Len(selection'.flexible)
  BY <1>6 DEF KeptRight
<1>8. StepRight'
  BY <1>1, <1>2, <1>5, <1>6, <1>7 DEF IInv, StepRight
<1> QED BY <1>2, <1>4, <1>8 DEF IInv

-----------------------------------------------------------------------------
(* Steps that leave a trace *)

\* The trace that is written for the present step has its type and total.
LEMMA TraceOf ==
  ASSUME CounterCounts, IInv, phase \in {"assemble", "act"}, NEW status \in Statuses, NEW acted \in BOOLEAN
  PROVE  /\ Trace(status, acted) \in TraceShape
         /\ selection.status = "ok" => Total \in Nat /\ Trace(status, acted).total = Total
<1>1. selection \in SelectionShape
  BY DEF IInv, StepRight, SelectionRight
<1>2. ASSUME selection.status = "ok" PROVE Total \in Nat
  <2>1. kept \in Nat /\ kept <= Len(selection.flexible)
    BY <1>2 DEF IInv, Typed, StepRight, KeptRight
  <2>2. Shown(selection, kept) \in Displays /\ interactions \in Seq(Interaction)
    BY <1>1, <2>1, ShownShape DEF IInv, Typed
  <2> QED BY <2>2 DEF CounterCounts, Total
<1>3. turn \in Nat /\ fixed \in Nat /\ kept \in Nat
  BY DEF IInv, Typed
<1> QED BY <1>1, <1>2, <1>3 DEF Trace, TraceShape

\* A trace that is right when it is appended leaves those before it right, also
\* if the result of its step is appended to the interactions.
LEMMA TraceAppended ==
  ASSUME IInv, phase \in {"assemble", "act"}, NEW t \in TraceShape, StepTold(t, Len(traces) + 1),
         traces' = Append(traces, t), task' = task,
         interactions' = interactions \/ \E e \in Interaction : interactions' = Append(interactions, e)
  PROVE  /\ TracesRight' /\ traces' \in Seq(TraceShape)
         /\ Len(traces') = Len(traces) + 1 /\ traces'[Len(traces) + 1] = t
         /\ DOMAIN traces' = DOMAIN traces \cup {Len(traces) + 1}
         /\ \A n \in DOMAIN traces : traces'[n] = traces[n]
<1>1. /\ traces \in Seq(TraceShape) /\ interactions \in Seq(Interaction)
      /\ Len(interactions) = Len(traces)
  BY DEF IInv, Typed, Progress
<1>2. Len(traces) \in Nat /\ DOMAIN traces = 1..Len(traces)
  BY <1>1
<1>3. /\ traces' \in Seq(TraceShape)
      /\ Len(traces') = Len(traces) + 1 /\ traces'[Len(traces) + 1] = t
      /\ DOMAIN traces' = DOMAIN traces \cup {Len(traces) + 1}
      /\ \A n \in DOMAIN traces : traces'[n] = traces[n]
  <2> HIDE DEF TraceShape
  <2> QED BY <1>1, <1>2
<1>4. \A n \in 1..(Len(traces) + 1) : Before(n)' = Before(n)
  <2> HIDE DEF Interaction
  <2> QED BY <1>1, BeforeAppend DEF Before
<1>5. /\ \A n \in DOMAIN traces : StepTold(traces[n], n) /\ traces[n].acted
      /\ StepTold(t, Len(traces) + 1)
  BY DEF IInv, TracesRight, Progress
<1>6. ASSUME NEW n \in DOMAIN traces', NEW u, u = traces'[n], StepTold(u, n)
      PROVE  StepTold(traces[n], n)'
  <2>1. n \in 1..(Len(traces) + 1)
    BY <1>2, <1>3
  <2>2. Before(n)' = Before(n)
    BY <1>4, <2>1
  <2> HIDE DEF TraceShape
  <2> QED BY <1>6, <2>2 DEF StepTold, SelectionRight, KeptRight
<1>7. \A n \in DOMAIN traces' : StepTold(traces[n], n)' /\ (traces'[n].acted \/ n = Len(traces'))
  <2> SUFFICES ASSUME NEW n \in DOMAIN traces'
               PROVE  StepTold(traces[n], n)' /\ (traces'[n].acted \/ n = Len(traces'))
    OBVIOUS
  <2>1. CASE n \in DOMAIN traces
    BY <1>3, <1>5, <1>6, <2>1
  <2>2. CASE n = Len(traces) + 1
    BY <1>3, <1>5, <1>6, <2>2
  <2> QED BY <1>3, <2>1, <2>2
<1>8. TracesRight'
  BY <1>7 DEF TracesRight
<1> QED BY <1>3, <1>8

\* A step that ends the run with a right trace keeps the invariant; the actions
\* that end a run differ in the trace and the status alone.
LEMMA EndKeeps ==
  ASSUME CounterCounts, IInv, phase \in {"assemble", "act"}, NEW status \in Statuses, NEW acted \in BOOLEAN,
         StepTold(Trace(status, acted), Len(traces) + 1),
         traces' = Append(traces, Trace(status, acted)),
         NEW reason, NEW completed \in BOOLEAN, NEW how \in Statuses, Finish(how, reason, completed),
         how = "ok" <=> acted,
         UNCHANGED <<task, clocks, tools, chosen, row>>
  PROVE  IInv'
<1> DEFINE t == Trace(status, acted)
<1>1. /\ UNCHANGED <<task, turn, agentTurn, interactions, approvals, sent, reply, actions, fixed,
                     selection, kept, row>>
      /\ phase' = "ended" /\ outcome' = [status |-> how, reason |-> reason, completed |-> completed]
  BY DEF clocks, tools, mail, chosen, Finish
<1>2. t \in TraceShape /\ t.acted = acted
  BY TraceOf DEF Trace
<1>3. /\ TracesRight' /\ traces' \in Seq(TraceShape)
      /\ Len(traces') = Len(traces) + 1 /\ traces'[Len(traces) + 1] = t
      /\ DOMAIN traces' = DOMAIN traces \cup {Len(traces) + 1}
      /\ \A n \in DOMAIN traces : traces'[n] = traces[n]
  <2> HIDE DEF t
  <2> QED BY <1>1, <1>2, TraceAppended DEF t
<1>4. /\ Len(traces) \in Nat /\ Len(traces) < MaxSteps /\ Len(actions) = Len(traces)
      /\ MaxSteps \in Nat
  BY PipelineAssumption DEF IInv, Progress, Typed
<1> HIDE DEF t
<1>5. Typed'
  BY <1>1, <1>3 DEF IInv, Typed, Steps
<1>6. MailRight'
  BY <1>1 DEF IInv, MailRight, MailTypeOK
<1>7. Progress'
  BY <1>1, <1>3, <1>4 DEF IInv, Progress
<1>8. StepRight'
  BY <1>1 DEF IInv, StepRight
<1>9. EndRight' /\ Reported'
  BY <1>1, <1>2, <1>3, <1>4 DEF IInv, EndRight, Reported
<1> QED BY <1>3, <1>5, <1>6, <1>7, <1>8, <1>9 DEF IInv

\* What the trace of the step that is under way has to say of it.
LEMMA TraceTells ==
  ASSUME CounterCounts, IInv, phase \in {"assemble", "act"}, NEW status \in Statuses, NEW acted \in BOOLEAN,
         acted => phase = "act" /\ status = "ok",
         ~acted =>
           IF selection.status = "ok"
           THEN status = "insufficient_context_budget" /\ kept = 0 /\ Total > task.budget
           ELSE status = selection.status
  PROVE  StepTold(Trace(status, acted), Len(traces) + 1)
<1> DEFINE t == Trace(status, acted)
<1>1. Before(Len(traces) + 1) = interactions
  <2>1. interactions \in Seq(Interaction) /\ Len(interactions) = Len(traces)
    BY DEF IInv, Typed, Progress
  <2> HIDE DEF Interaction
  <2> QED BY <2>1, WholeBefore DEF Before
<1>2. /\ t.fixed = fixed /\ t.turn = turn /\ t.selection = selection /\ t.status = status
      /\ t.kept = kept /\ t.acted = acted /\ (selection.status = "ok" => t.total = Total)
  BY DEF Trace
<1>3. /\ fixed = Tokens(interactions, Nothing) /\ SelectionRight(selection, fixed)
      /\ selection.status = "ok" => KeptRight(selection, kept, interactions)
      /\ phase = "act" => selection.status = "ok" /\ Total <= task.budget
  BY DEF IInv, StepRight
<1>4. turn = StartTurn + (Len(traces) + 1) - 1
  BY PipelineAssumption DEF IInv, Progress, Typed
<1>5. ASSUME ~acted, selection.status = "ok"
      PROVE  Tokens(interactions, Display(task.protected, task.states, {})) > task.budget
  <2>1. kept = 0 /\ Total > task.budget
    BY <1>5
  <2>2. SubSeq(selection.flexible, 1, 0) = <<>>
    BY <1>3 DEF SelectionRight, SelectionShape
  <2>3. Elements(<<>>) = {}
    BY DEF Elements
  <2>4. selection.protected = task.protected /\ selection.states = task.states
    BY <1>3, <1>5 DEF SelectionRight
  <2>5. Shown(selection, kept) = Display(task.protected, task.states, {})
    BY <2>1, <2>2, <2>3, <2>4 DEF Shown
  <2> QED BY <2>1, <2>5 DEF Total
<1> HIDE DEF t
<1> SUFFICES StepTold(t, Len(traces) + 1)
  BY DEF t
<1>6. acted => t.total = Tokens(interactions, Shown(selection, kept)) /\ t.total <= task.budget
  BY <1>2, <1>3 DEF Total
<1> QED BY <1>1, <1>2, <1>3, <1>4, <1>5, <1>6 DEF StepTold

LEMMA PassOnFailureKeeps == ASSUME CounterCounts, IInv, PassOnFailure PROVE IInv'
<1>1. /\ phase = "assemble" /\ selection.status # "ok" /\ UNCHANGED <<task, clocks, tools, chosen, row>>
      /\ traces' = Append(traces, Trace(selection.status, FALSE))
      /\ \E reason : Finish(selection.status, reason, FALSE)
  BY DEF PassOnFailure
<1>2. selection.status \in Statuses
  BY <1>1 DEF IInv, StepRight, SelectionRight, SelectionShape
<1>3. StepTold(Trace(selection.status, FALSE), Len(traces) + 1)
  BY <1>1, <1>2, TraceTells
<1> QED BY <1>1, <1>2, <1>3, EndKeeps

LEMMA OverflowKeeps == ASSUME CounterCounts, IInv, Overflow PROVE IInv'
<1>1. /\ phase = "assemble" /\ selection.status = "ok" /\ UNCHANGED <<task, clocks, tools, chosen, row>>
      /\ traces' = Append(traces, Trace("insufficient_context_budget", FALSE))
      /\ Finish("insufficient_context_budget", "context_budget", FALSE)
      /\ kept = 0 /\ Total > task.budget
  BY DEF Overflow
<1>2. "insufficient_context_budget" \in Statuses
  BY DEF Statuses
<1>3. StepTold(Trace("insufficient_context_budget", FALSE), Len(traces) + 1)
  BY <1>1, <1>2, TraceTells
<1> QED BY <1>1, <1>2, <1>3, EndKeeps

\* The trace of a step in which the agent acts is right.
LEMMA ActedTold ==
  ASSUME CounterCounts, IInv, phase = "act"
  PROVE  StepTold(Trace("ok", TRUE), Len(traces) + 1) /\ "ok" \in Statuses
<1>1. "ok" \in Statuses
  BY DEF Statuses
<1> QED BY <1>1, TraceTells

LEMMA AnswerKeeps == ASSUME CounterCounts, IInv, NEW said \in BOOLEAN, Answer(said) PROVE IInv'
<1> DEFINE completed == said /\ actions # <<>> /\ \A n \in DOMAIN actions : actions[n].reply.ok
<1>1. /\ phase = "act" /\ UNCHANGED <<task, clocks, tools, chosen, row>>
      /\ traces' = Append(traces, Trace("ok", TRUE)) /\ Finish("ok", "completed", completed)
  BY DEF Answer, Acted
<1>2. completed \in BOOLEAN
  OBVIOUS
<1> HIDE DEF completed
<1> QED BY <1>1, <1>2, ActedTold, EndKeeps

LEMMA MisfireKeeps == ASSUME CounterCounts, IInv, Misfire PROVE IInv'
<1>1. /\ phase = "act" /\ UNCHANGED <<task, clocks, tools, chosen, row>>
      /\ traces' = Append(traces, Trace("ok", TRUE)) /\ Finish("ok", "tool_failure", FALSE)
  BY DEF Misfire, Acted
<1> QED BY <1>1, ActedTold, EndKeeps

LEMMA AbortKeeps == ASSUME IInv, Abort PROVE IInv'
<1>1. /\ UNCHANGED <<task, turn, agentTurn, interactions, approvals, sent, reply, actions, fixed,
                     selection, kept, traces, outcome, row>>
      /\ phase \in Steps /\ phase' = "idle"
  BY DEF Abort, clocks, tools, mail, chosen, results
<1>2. Typed' /\ Progress' /\ EndRight'
  BY <1>1 DEF IInv, Typed, Progress, EndRight
<1>3. MailRight'
  BY <1>1 DEF IInv, MailRight, MailTypeOK
<1>4. StepRight'
  BY <1>1 DEF IInv, StepRight
<1>5. TracesRight'
  BY <1>1 DEF IInv, TracesRight, StepTold, SelectionRight, KeptRight, Before
<1>6. Reported'
  BY <1>1 DEF IInv, Reported, Steps
<1> QED BY <1>2, <1>3, <1>4, <1>5, <1>6 DEF IInv

-----------------------------------------------------------------------------
(* A tool call *)

\* The first approval with an id is a grant exactly if the id was granted: the
\* receipts come after all grants.
LEMMA FoundGrant ==
  ASSUME IInv, NEW id
  PROVE  (\E n \in Found(id) : Authorizes(n)) <=> id \in Elements(Grants)
<1>1. /\ approvals \in Seq(Approval) /\ DOMAIN approvals = 1..Len(approvals) /\ Len(approvals) \in Nat
      /\ Len(Grants) <= Len(approvals) /\ Len(Grants) \in Nat /\ DOMAIN Grants = 1..Len(Grants)
  BY GrantAssumption DEF IInv, MailRight, MailTypeOK
<1>2. \A n \in DOMAIN approvals :
        /\ n <= Len(Grants) => approvals[n].id = Grants[n] /\ approvals[n].kind = "grant"
        /\ ~ (n <= Len(Grants)) => approvals[n].kind = "receipt"
  BY <1>1, GrantedShape DEF IInv, MailRight
<1>3. ASSUME NEW n \in Found(id), Authorizes(n)
      PROVE  id \in Elements(Grants)
  <2>1. n \in DOMAIN approvals /\ approvals[n].id = id /\ approvals[n].kind = "grant"
    BY <1>3 DEF Found, Authorizes
  <2>2. n <= Len(Grants)
    BY <1>2, <2>1
  <2>3. n \in DOMAIN Grants /\ id = Grants[n]
    BY <1>1, <1>2, <2>1, <2>2
  <2> QED BY <2>3 DEF Elements
<1>4. ASSUME id \in Elements(Grants)
      PROVE  \E n \in Found(id) : Authorizes(n)
  <2>1. PICK k \in DOMAIN Grants : id = Grants[k]
    BY <1>4 DEF Elements
  <2> DEFINE T == {n \in DOMAIN approvals : approvals[n].id = id}
  <2>2. k \in T /\ k <= Len(Grants) /\ k \in Nat
    BY <1>1, <1>2, <2>1
  <2>3. T \subseteq Nat /\ T # {}
    BY <1>1, <2>2
  <2>4. PICK n \in T : \A j \in T : n <= j
    <3> HIDE DEF T
    <3> QED BY <2>3, LeastElement
  <2>5. n <= k /\ n \in Nat /\ n \in DOMAIN approvals /\ approvals[n].id = id
    BY <2>2, <2>3, <2>4
  <2>6. approvals[n].kind = "grant"
    BY <1>1, <1>2, <2>2, <2>5
  <2>7. \A j \in 1..(n - 1) : j \in DOMAIN approvals /\ j < n
    BY <1>1, <2>5
  <2>8. \A j \in 1..(n - 1) : approvals[j].id # id
    <3> SUFFICES ASSUME NEW j \in 1..(n - 1), approvals[j].id = id PROVE FALSE
      OBVIOUS
    <3>1. j \in T
      BY <2>7
    <3> HIDE DEF T
    <3> QED BY <2>4, <2>5, <2>7, <3>1
  <2> QED BY <2>5, <2>6, <2>8 DEF Found, Authorizes
<1> QED BY <1>3, <1>4

\* A recorded action comes after those before it.
LEMMA ActionAdded ==
  ASSUME IInv, NEW c \in Call, reply' \in ToolResult,
         actions' = Append(actions, [call |-> c, reply |-> reply'])
  PROVE  /\ actions' \in Seq(ActionShape) /\ Len(actions') = Len(actions) + 1
         /\ DOMAIN actions' = DOMAIN actions \cup {Len(actions) + 1}
         /\ \A n \in DOMAIN actions : actions'[n] = actions[n]
         /\ actions'[Len(actions) + 1] = [call |-> c, reply |-> reply']
<1> DEFINE a == [call |-> c, reply |-> reply']
<1>1. a \in ActionShape /\ actions \in Seq(ActionShape)
  BY DEF ActionShape, IInv, Typed
<1> HIDE DEF a, ActionShape
<1>2. actions' = Append(actions, a)
  BY DEF a
<1>3. /\ actions' \in Seq(ActionShape) /\ Len(actions') = Len(actions) + 1
      /\ DOMAIN actions' = DOMAIN actions \cup {Len(actions) + 1}
      /\ \A n \in DOMAIN actions : actions'[n] = actions[n]
      /\ actions'[Len(actions) + 1] = a
  BY <1>1, <1>2
<1> QED BY <1>3 DEF a

\* What a call that changes no approval and sends nothing leaves in order.
LEMMA MailKept ==
  ASSUME IInv, NEW c \in Call, reply' \in ToolResult, UNCHANGED mail,
         actions' = Append(actions, [call |-> c, reply |-> reply']),
         ~ (c.tool = "request" /\ reply'.ok)
  PROVE  MailRight'
<1>1. /\ approvals' = approvals /\ sent' = sent
      /\ actions \in Seq(ActionShape) /\ Len(actions) \in Nat /\ DOMAIN actions = 1..Len(actions)
      /\ Len(approvals) \in Nat /\ Len(Grants) \in Nat
  BY GrantAssumption DEF mail, IInv, Typed, MailRight, MailTypeOK
<1>2. /\ Len(actions') = Len(actions) + 1 /\ DOMAIN actions' = DOMAIN actions \cup {Len(actions) + 1}
      /\ \A n \in DOMAIN actions : actions'[n] = actions[n]
      /\ actions'[Len(actions) + 1] = [call |-> c, reply |-> reply']
  BY ActionAdded
<1>3. MailTypeOK'
  BY <1>1 DEF IInv, MailRight, MailTypeOK
<1> QED BY <1>1, <1>2, <1>3 DEF IInv, MailRight

\* A receipt takes the next number, which is none of the earlier ones.
LEMMA RequestKeepsMail ==
  ASSUME IInv, NEW c \in Call, c.tool = "request", RequestApproval(c.message), c.message \notin Malformed,
         c.message \in Message,
         actions' = Append(actions, [call |-> c, reply |-> reply'])
  PROVE  MailRight' /\ reply' \in ToolResult
<1> DEFINE new == [id |-> NextNumber, kind |-> "receipt", message |-> c.message]
<1>1. /\ approvals' = Append(approvals, new) /\ sent' = sent
      /\ reply' = [ok |-> TRUE, id |-> NextNumber, authorized |-> FALSE]
  BY DEF RequestApproval, Succeed, Fail, mail
<1>2. /\ approvals \in Seq(Approval) /\ DOMAIN approvals = 1..Len(approvals) /\ Len(approvals) \in Nat
      /\ Len(Grants) <= Len(approvals) /\ Len(Grants) \in Nat
      /\ actions \in Seq(ActionShape) /\ Len(actions) \in Nat /\ DOMAIN actions = 1..Len(actions)
      /\ NextNumber = Len(approvals) + 1
  BY GrantAssumption DEF IInv, MailRight, MailTypeOK, Typed, NextNumber
<1>3. new \in Approval /\ reply' \in ToolResult /\ new.id = Len(approvals) + 1 /\ new.kind = "receipt"
  BY <1>1, <1>2 DEF Approval, Kind, ApprovalId, ToolResult
<1>4. /\ approvals' \in Seq(Approval) /\ Len(approvals') = Len(approvals) + 1
      /\ DOMAIN approvals' = DOMAIN approvals \cup {Len(approvals) + 1}
      /\ \A n \in DOMAIN approvals : approvals'[n] = approvals[n]
      /\ approvals'[Len(approvals) + 1] = new
  <2> HIDE DEF new, Approval
  <2> QED BY <1>1, <1>2, <1>3
<1>5. /\ Len(actions') = Len(actions) + 1 /\ DOMAIN actions' = DOMAIN actions \cup {Len(actions) + 1}
      /\ \A n \in DOMAIN actions : actions'[n] = actions[n]
      /\ actions'[Len(actions) + 1] = [call |-> c, reply |-> reply']
  BY <1>3, ActionAdded
<1> HIDE DEF new
<1>6. MailTypeOK'
  BY <1>1, <1>3, <1>4 DEF IInv, MailRight, MailTypeOK
<1>7. \A n \in DOMAIN approvals' :
        IF n <= Len(Grants) THEN approvals'[n] = Granted[n]
        ELSE approvals'[n].id = n /\ approvals'[n].kind = "receipt"
  <2>1. ASSUME NEW n \in DOMAIN approvals
        PROVE  IF n <= Len(Grants) THEN approvals'[n] = Granted[n]
               ELSE approvals'[n].id = n /\ approvals'[n].kind = "receipt"
    BY <1>4 DEF IInv, MailRight
  <2>2. ~ (Len(approvals) + 1 <= Len(Grants))
    BY <1>2
  <2> QED BY <1>3, <1>4, <2>1, <2>2
<1>8. \A n \in DOMAIN actions' :
        actions'[n].call.tool = "request" /\ actions'[n].reply.ok =>
          actions'[n].reply.id \in (Len(Grants) + 1)..Len(approvals')
  <2>1. \A n \in DOMAIN actions :
          actions[n].call.tool = "request" /\ actions[n].reply.ok =>
            actions[n].reply.id \in (Len(Grants) + 1)..Len(approvals)
    BY DEF IInv, MailRight
  <2>2. (Len(Grants) + 1)..Len(approvals) \subseteq (Len(Grants) + 1)..Len(approvals')
    BY <1>2, <1>4
  <2>3. actions'[Len(actions) + 1].reply.id \in (Len(Grants) + 1)..Len(approvals')
    BY <1>1, <1>2, <1>4, <1>5
  <2> QED BY <1>5, <2>1, <2>2, <2>3
<1>9. \A n \in DOMAIN sent' : sent'[n].authorized <=> sent'[n].approval \in Elements(Grants)
  BY <1>1 DEF IInv, MailRight
<1>10. Len(Grants) <= Len(approvals') /\ Len(approvals') <= Len(Grants) + Len(actions')
  <2>1. Len(approvals) <= Len(Grants) + Len(actions)
    BY DEF IInv, MailRight
  <2> QED BY <1>2, <1>4, <1>5, <2>1
<1> QED BY <1>3, <1>6, <1>7, <1>8, <1>9, <1>10 DEF MailRight

\* A message is authorized by the first approval of its number, which is a grant
\* exactly if the number was granted.
LEMMA SendKeepsMail ==
  ASSUME IInv, NEW c \in Call, c.tool = "send", c.message \in Message, c.approval \in ApprovalId \cup {None},
         Sendable(c.message, c.approval), Send(c.message, c.approval),
         actions' = Append(actions, [call |-> c, reply |-> reply'])
  PROVE  MailRight' /\ reply' \in ToolResult
<1> DEFINE authorized == \E n \in Found(c.approval) : Authorizes(n)
           new == [message |-> c.message, approval |-> c.approval, authorized |-> authorized]
<1>1. /\ sent' = Append(sent, new) /\ approvals' = approvals
      /\ reply' = [ok |-> TRUE, id |-> c.approval, authorized |-> authorized]
  BY DEF Send, Succeed
<1>2. authorized \in BOOLEAN /\ (authorized <=> c.approval \in Elements(Grants))
  BY FoundGrant
<1> HIDE DEF authorized
<1>3. new \in Sent /\ reply' \in ToolResult /\ (new.authorized <=> new.approval \in Elements(Grants))
  BY <1>1, <1>2 DEF Sent, ToolResult
<1>4. /\ approvals \in Seq(Approval) /\ sent \in Seq(Sent)
      /\ Len(approvals) \in Nat /\ Len(Grants) \in Nat
      /\ actions \in Seq(ActionShape) /\ Len(actions) \in Nat /\ DOMAIN actions = 1..Len(actions)
  BY GrantAssumption DEF IInv, MailRight, MailTypeOK, Typed
<1>5. /\ sent' \in Seq(Sent) /\ DOMAIN sent' = DOMAIN sent \cup {Len(sent) + 1}
      /\ \A n \in DOMAIN sent : sent'[n] = sent[n]
      /\ sent'[Len(sent) + 1] = new
  <2> HIDE DEF new, Sent
  <2> QED BY <1>1, <1>3, <1>4
<1>6. /\ Len(actions') = Len(actions) + 1 /\ DOMAIN actions' = DOMAIN actions \cup {Len(actions) + 1}
      /\ \A n \in DOMAIN actions : actions'[n] = actions[n]
      /\ actions'[Len(actions) + 1] = [call |-> c, reply |-> reply']
  BY <1>3, ActionAdded
<1> HIDE DEF new
<1>7. MailTypeOK'
  BY <1>1, <1>3, <1>4, <1>5 DEF MailTypeOK
<1>8. \A n \in DOMAIN sent' : sent'[n].authorized <=> sent'[n].approval \in Elements(Grants)
  BY <1>3, <1>5 DEF IInv, MailRight
<1>9. \A n \in DOMAIN actions' :
        actions'[n].call.tool = "request" /\ actions'[n].reply.ok =>
          actions'[n].reply.id \in (Len(Grants) + 1)..Len(approvals')
  BY <1>1, <1>6 DEF IInv, MailRight
<1>10. /\ Len(Grants) <= Len(approvals') /\ Len(approvals') <= Len(Grants) + Len(actions')
       /\ \A n \in DOMAIN approvals' :
            IF n <= Len(Grants) THEN approvals'[n] = Granted[n]
            ELSE approvals'[n].id = n /\ approvals'[n].kind = "receipt"
  BY <1>1, <1>4, <1>6 DEF IInv, MailRight
<1> QED BY <1>3, <1>7, <1>8, <1>9, <1>10 DEF MailRight

\* What any call leaves.
LEMMA PerformKeepsMail ==
  ASSUME IInv, NEW c \in Call, Perform(c),
         actions' = Append(actions, [call |-> c, reply |-> reply'])
  PROVE  MailRight' /\ reply' \in ToolResult
<1>1. CallShape(c)
  BY PipelineAssumption
<1>2. ASSUME Fail PROVE MailRight' /\ reply' \in ToolResult
  <2>1. reply' = [ok |-> FALSE, id |-> None, authorized |-> FALSE] /\ UNCHANGED mail
    BY <1>2 DEF Fail
  <2>2. reply' \in ToolResult /\ ~ reply'.ok
    BY <2>1 DEF ToolResult
  <2> QED BY <2>1, <2>2, MailKept
<1>3. ASSUME Succeed(None, FALSE), UNCHANGED mail, c.tool # "request"
      PROVE  MailRight' /\ reply' \in ToolResult
  <2>1. reply' = [ok |-> TRUE, id |-> None, authorized |-> FALSE]
    BY <1>3 DEF Succeed
  <2>2. reply' \in ToolResult
    BY <2>1 DEF ToolResult
  <2> QED BY <1>3, <2>2, MailKept
<1>4. CASE c.tool = "draft"
  BY <1>2, <1>3, <1>4 DEF Perform, Draft
<1>5. CASE c.tool = "request"
  <2>1. c.message \in Message /\ RequestApproval(c.message)
    BY <1>1, <1>5 DEF CallShape, Perform
  <2>2. CASE c.message \in Malformed
    BY <1>2, <2>1, <2>2 DEF RequestApproval
  <2>3. CASE c.message \notin Malformed
    BY <1>5, <2>1, <2>3, RequestKeepsMail
  <2> QED BY <2>2, <2>3
<1>6. CASE c.tool = "send"
  <2>1. c.message \in Message /\ c.approval \in ApprovalId \cup {None} /\ Send(c.message, c.approval)
    BY <1>1, <1>6 DEF CallShape, Perform
  <2>2. CASE Sendable(c.message, c.approval)
    BY <1>6, <2>1, <2>2, SendKeepsMail
  <2>3. CASE ~ Sendable(c.message, c.approval)
    BY <1>2, <2>1, <2>3 DEF Send
  <2> QED BY <2>2, <2>3
<1>7. CASE c.tool = "other"
  BY <1>3, <1>7 DEF Perform
<1>8. CASE c.tool = "unknown"
  BY <1>2, <1>8 DEF Perform
<1> QED BY <1>1, <1>4, <1>5, <1>6, <1>7, <1>8 DEF CallShape

\* The clock of the orchestrator follows the turns of the interactions.
LEMMA LatestTurn ==
  ASSUME NEW n \in Nat \ {0}, NEW start \in Nat, NEW s, DOMAIN s = 1..n,
         \A k \in 1..n : s[k].turn = start + k
  PROVE  Max({s[k].turn : k \in DOMAIN s}) = start + n
<1> DEFINE S == {s[k].turn : k \in DOMAIN s}
<1>1. start + n \in S
  <2>1. n \in 1..n /\ s[n].turn = start + n
    OBVIOUS
  <2> QED BY <2>1
<1>2. \A x \in S : x \in Nat /\ x <= start + n
  OBVIOUS
<1> HIDE DEF S
<1>3. Max(S) \in S /\ \A x \in S : Max(S) >= x
  BY <1>1, <1>2 DEF Max
<1>4. Max(S) = start + n
  BY <1>1, <1>2, <1>3
<1> QED BY <1>4 DEF S

LEMMA ExecuteKeeps == ASSUME CounterCounts, IInv, NEW c \in Call, Execute(c) PROVE IInv'
<1> DEFINE t == Trace("ok", TRUE)
           e == [turn |-> agentTurn', reply |-> reply']
<1>1. /\ phase = "act" /\ Perform(c) /\ actions' = Append(actions, [call |-> c, reply |-> reply'])
      /\ agentTurn' = agentTurn + 1 /\ interactions' = Append(interactions, e)
      /\ turn' = Max({interactions'[n].turn : n \in DOMAIN interactions'})
      /\ traces' = Append(traces, t)
      /\ UNCHANGED <<task, fixed, selection, kept, row>>
  BY DEF Execute, Acted, chosen
<1>2. MailRight' /\ reply' \in ToolResult
  BY <1>1, PerformKeepsMail
<1>3. /\ actions' \in Seq(ActionShape) /\ Len(actions') = Len(actions) + 1
      /\ DOMAIN actions' = DOMAIN actions \cup {Len(actions) + 1}
      /\ \A n \in DOMAIN actions : actions'[n] = actions[n]
      /\ actions'[Len(actions) + 1] = [call |-> c, reply |-> reply']
  BY <1>1, <1>2, ActionAdded
<1>4. t \in TraceShape /\ t.acted /\ StepTold(t, Len(traces) + 1)
  <2>1. "ok" \in Statuses
    BY DEF Statuses
  <2>2. t.acted
    BY DEF Trace
  <2> HIDE DEF t
  <2> QED BY <1>1, <2>1, <2>2, TraceOf, ActedTold DEF t
<1>5. /\ agentTurn \in Nat /\ agentTurn = StartTurn + Len(actions) /\ StartTurn \in Nat
      /\ Len(actions) = Len(traces) /\ Len(actions) = Len(interactions) /\ Len(actions) \in Nat
      /\ Len(traces) < MaxSteps /\ MaxSteps \in Nat
      /\ interactions \in Seq(Interaction) /\ DOMAIN interactions = 1..Len(interactions)
      /\ DOMAIN actions = 1..Len(actions) /\ DOMAIN traces = 1..Len(traces)
      /\ \A n \in DOMAIN actions : actions[n].reply.ok /\ traces[n].acted
  BY <1>1, PipelineAssumption DEF IInv, Typed, Progress
<1>6. e \in Interaction
  BY <1>1, <1>2, <1>5 DEF Interaction
<1>7. /\ interactions' \in Seq(Interaction) /\ Len(interactions') = Len(interactions) + 1
      /\ DOMAIN interactions' = 1..(Len(interactions) + 1)
      /\ \A n \in DOMAIN interactions : interactions'[n] = interactions[n]
      /\ interactions'[Len(interactions) + 1] = e
  <2> HIDE DEF e, Interaction
  <2> QED BY <1>1, <1>5, <1>6
<1>8. /\ TracesRight' /\ traces' \in Seq(TraceShape)
      /\ Len(traces') = Len(traces) + 1 /\ traces'[Len(traces) + 1] = t
      /\ DOMAIN traces' = DOMAIN traces \cup {Len(traces) + 1}
      /\ \A n \in DOMAIN traces : traces'[n] = traces[n]
  <2> HIDE DEF t, e
  <2> QED BY <1>1, <1>4, <1>6, TraceAppended
<1>9. \A n \in DOMAIN actions' :
        interactions'[n] = [turn |-> StartTurn + n, reply |-> actions'[n].reply]
  <2>1. \A n \in DOMAIN actions :
          interactions[n] = [turn |-> StartTurn + n, reply |-> actions[n].reply]
    BY DEF IInv, Progress
  <2>2. e = [turn |-> StartTurn + (Len(actions) + 1), reply |-> actions'[Len(actions) + 1].reply]
    BY <1>1, <1>3, <1>5
  <2> HIDE DEF e
  <2> QED BY <1>3, <1>5, <1>7, <2>1, <2>2
<1>10. turn' = StartTurn + Len(actions') /\ agentTurn' = turn'
  <2>1. \A k \in 1..Len(actions') : interactions'[k].turn = StartTurn + k
    <3>1. ASSUME NEW k \in DOMAIN actions' PROVE interactions'[k].turn = StartTurn + k
      <4>1. interactions'[k] = [turn |-> StartTurn + k, reply |-> actions'[k].reply]
        BY <1>9
      <4> QED BY <4>1
    <3>2. DOMAIN actions' = 1..Len(actions')
      BY <1>3
    <3> QED BY <3>1, <3>2
  <2>2. DOMAIN interactions' = 1..Len(actions') /\ Len(actions') \in Nat \ {0}
    BY <1>3, <1>5, <1>7
  <2>3. Max({interactions'[k].turn : k \in DOMAIN interactions'}) = StartTurn + Len(actions')
    <3> DEFINE n == Len(actions')
               s == interactions'
    <3>1. n \in Nat \ {0} /\ DOMAIN s = 1..n /\ \A k \in 1..n : s[k].turn = StartTurn + k
      BY <2>1, <2>2
    <3>2. StartTurn \in Nat
      BY <1>5
    <3> HIDE DEF n, s
    <3>3. Max({s[k].turn : k \in DOMAIN s}) = StartTurn + n
      BY <3>1, <3>2, LatestTurn
    <3> QED BY <3>3 DEF n, s
  <2>4. turn' = StartTurn + Len(actions') /\ agentTurn' = agentTurn + 1
    BY <1>1, <2>3
  <2> QED BY <1>3, <1>5, <2>4
<1>11. \/ phase' = "ended" /\ outcome'.status = "ok" /\ outcome'.completed = FALSE
       \/ phase' = "count" /\ outcome' = outcome /\ reply'.ok /\ Len(traces') < MaxSteps
  <2>1. Len(traces') \in Nat
    BY <1>5, <1>8
  <2> QED BY <1>5, <2>1 DEF Execute, Finish, GoesOn, LastStep
<1> HIDE DEF t, e
<1>12. Typed'
  <2>1. turn' \in Nat /\ agentTurn' \in Nat
    BY <1>3, <1>5, <1>10
  <2>2. phase' \in Steps /\ (outcome' # None => outcome'.status \in Statuses /\ outcome'.completed \in BOOLEAN)
    BY <1>11 DEF IInv, Typed, Steps, Statuses
  <2>3. task' \in Task /\ fixed' \in Nat /\ kept' \in Nat /\ selection' \in SelectionShape \cup {None}
    BY <1>1 DEF IInv, Typed
  <2> QED BY <1>3, <1>7, <1>8, <2>1, <2>2, <2>3 DEF Typed
<1>13. Progress'
  <2>1. Len(actions') = Len(traces') /\ Len(actions') = Len(interactions') /\ Len(traces') <= MaxSteps
    BY <1>3, <1>5, <1>7, <1>8
  <2>2. \A n \in DOMAIN actions' : n < Len(traces') => actions'[n].reply.ok
    BY <1>3, <1>5, <1>8
  <2>3. phase' = "count" => \A n \in DOMAIN actions' : actions'[n].reply.ok /\ traces'[n].acted
    BY <1>3, <1>4, <1>5, <1>8, <1>11
  <2> QED BY <1>9, <1>10, <1>11, <2>1, <2>2, <2>3 DEF Progress
<1>14. StepRight'
  BY <1>1, <1>11 DEF IInv, StepRight
<1>15. EndRight'
  BY <1>4, <1>5, <1>8, <1>11 DEF EndRight
<1>16. Reported'
  BY <1>1, <1>11 DEF IInv, Reported
<1> QED BY <1>2, <1>8, <1>12, <1>13, <1>14, <1>15, <1>16 DEF IInv

-----------------------------------------------------------------------------
(* The report *)

\* Among the executed steps there is a first one with the largest prompt.
LEMMA PeakExecuted ==
  ASSUME IInv, Executed # {}
  PROVE  Peak \in Executed
<1> DEFINE T == {traces[n].total : n \in Executed}
<1>1. \A n \in Executed : n \in Nat /\ n \in DOMAIN traces /\ traces[n].acted
  BY DEF Executed, IInv, Typed
<1>2. \A n \in Executed : traces[n].total \in Nat /\ traces[n].total <= task.budget
  <2>1. \A n \in DOMAIN traces : traces[n] \in TraceShape
    <3> HIDE DEF TraceShape
    <3> QED BY DEF IInv, Typed
  <2>2. \A n \in DOMAIN traces : traces[n].total \in Nat
    BY <2>1 DEF TraceShape
  <2> QED BY <1>1, <2>2 DEF IInv, TracesRight, StepTold
<1>3. task.budget \in Nat
  BY PipelineAssumption DEF IInv, Typed, TaskShape
<1>4. T \subseteq Nat /\ T # {} /\ \A x \in T : x <= task.budget
  BY <1>2
<1>5. PICK most \in T : \A x \in T : x <= most
  <2> HIDE DEF T
  <2> QED BY <1>3, <1>4, GreatestElement
<1> DEFINE F == {n \in Executed : traces[n].total = most}
<1>6. F \subseteq Nat /\ F # {}
  BY <1>1, <1>5
<1>7. PICK n \in F : \A k \in F : n <= k
  <2> HIDE DEF F
  <2> QED BY <1>6, LeastElement
<1>8. n \in Executed /\ traces[n].total = most /\ n \in Nat /\ most \in Nat
  BY <1>4, <1>5, <1>6, <1>7
<1>9. ASSUME NEW k \in Executed
      PROVE  /\ traces[k].total <= traces[n].total
             /\ k < n => traces[k].total < traces[n].total
  <2>1. traces[k].total \in T /\ traces[k].total \in Nat /\ k \in Nat
    BY <1>1, <1>2
  <2>2. traces[k].total <= most
    BY <1>5, <2>1
  <2>3. traces[k].total = most => n <= k
    BY <1>7
  <2> HIDE DEF T, F
  <2> QED BY <1>8, <2>1, <2>2, <2>3
<1> QED BY <1>8, <1>9 DEF Peak

LEMMA ReportKeeps == ASSUME IInv, Report PROVE IInv'
<1>1. /\ UNCHANGED <<task, turn, agentTurn, interactions, approvals, sent, reply, actions, fixed,
                     selection, kept, traces, outcome>>
      /\ phase = "ended" /\ phase' = "idle"
  BY DEF Report, clocks, tools, mail, chosen
<1>2. Typed' /\ Progress' /\ EndRight'
  BY <1>1 DEF IInv, Typed, Progress, EndRight
<1>3. MailRight'
  BY <1>1 DEF IInv, MailRight, MailTypeOK
<1>4. StepRight'
  BY <1>1 DEF IInv, StepRight
<1>5. TracesRight'
  BY <1>1 DEF IInv, TracesRight, StepTold, SelectionRight, KeptRight, Before
<1> DEFINE last == traces[Len(traces)]
           input == IF outcome.status = "ok" THEN traces[Peak].total
                    ELSE IF last.selection.status # "ok" THEN None ELSE last.total
<1>6. /\ row'.input = input /\ row'.overflow = MandatoryOverflow /\ row'.valid = ValidApprovals
  BY DEF Report
<1>7. Len(traces) > 0 /\ Len(traces) \in Nat /\ DOMAIN traces = 1..Len(traces)
      /\ (outcome.status = "ok" => last.acted)
  BY <1>1 DEF IInv, Typed, EndRight
<1>8. \A n \in DOMAIN traces : traces[n].total \in Nat
  <2>1. \A n \in DOMAIN traces : traces[n] \in TraceShape
    <3> HIDE DEF TraceShape
    <3> QED BY DEF IInv, Typed
  <2> QED BY <2>1 DEF TraceShape
<1>9. input \in Nat \cup {None}
  <2>1. ASSUME outcome.status = "ok" PROVE traces[Peak].total \in Nat
    <3>1. Len(traces) \in Executed
      BY <1>7, <2>1 DEF Executed
    <3>2. Peak \in DOMAIN traces
      BY <3>1, PeakExecuted DEF Executed
    <3> QED BY <1>8, <3>2
  <2>2. last.total \in Nat
    BY <1>7, <1>8
  <2> HIDE DEF last
  <2> QED BY <2>1, <2>2
<1>10. MandatoryOverflow' = MandatoryOverflow /\ ValidApprovals' = ValidApprovals
  BY <1>1 DEF MandatoryOverflow, Evaluated, Starved, ValidApprovals
<1> HIDE DEF input
<1>11. Reported'
  BY <1>1, <1>6, <1>7, <1>9, <1>10 DEF Reported
<1> QED BY <1>2, <1>3, <1>4, <1>5, <1>11 DEF IInv

LEMMA StepIInv == CounterCounts /\ IInv /\ [Next]_vars => IInv'
<1> SUFFICES ASSUME CounterCounts, IInv, [Next]_vars PROVE IInv'
  OBVIOUS
<1>1. CASE UNCHANGED vars
  <2>1. UNCHANGED <<task, phase, turn, agentTurn, interactions, approvals, sent, reply, actions, fixed,
                    selection, kept, traces, outcome, row>>
    BY <1>1 DEF vars, clocks, tools, mail, chosen, results
  <2>2. Typed' /\ Progress' /\ EndRight'
    BY <2>1 DEF IInv, Typed, Progress, EndRight
  <2>3. MailRight'
    BY <2>1 DEF IInv, MailRight, MailTypeOK
  <2>4. StepRight'
    BY <2>1 DEF IInv, StepRight, SelectionRight, KeptRight, Total
  <2>5. TracesRight'
    BY <2>1 DEF IInv, TracesRight, StepTold, SelectionRight, KeptRight, Before
  <2>6. MandatoryOverflow' = MandatoryOverflow /\ ValidApprovals' = ValidApprovals
    BY <2>1 DEF MandatoryOverflow, Evaluated, Starved, ValidApprovals
  <2>7. Reported'
    BY <2>1, <2>6 DEF IInv, Reported
  <2> QED BY <2>2, <2>3, <2>4, <2>5, <2>7 DEF IInv
<1>2. CASE Proceed
  BY <1>2, CountKeeps, SelectMandatoryOnlyKeeps, SelectKeeps, PassOnFailureKeeps, AssembleKeeps,
     DropKeeps, OverflowKeeps, AnswerKeeps, MisfireKeeps, ExecuteKeeps, ReportKeeps DEF Proceed
<1> QED BY <1>1, <1>2, BeginKeeps, AbortKeeps DEF Next

LEMMA Invariance == CounterCounts /\ Spec => []IInv
<1>1. SUFFICES ASSUME CounterCounts PROVE Spec => []IInv
  OBVIOUS
<1>2. IInv /\ [Next]_vars => IInv'
  BY <1>1, StepIInv
<1> QED BY <1>2, InitIInv, PTL DEF Spec

-----------------------------------------------------------------------------
(* The theorems *)

\* Every variable keeps its type: no run makes more than max_steps steps, no
\* prompt keeps more flexible memories than were selected, and the input tokens
\* of the report are a number or None, never a missing maximum.
THEOREM TypeCorrect == CounterCounts => (Spec => []TypeOK)
<1> SUFFICES ASSUME CounterCounts PROVE Spec => []TypeOK
  OBVIOUS
<1>1. IInv => TypeOK
  <2> SUFFICES ASSUME IInv PROVE TypeOK
    OBVIOUS
  <2>1. row # None => row.overflow \in BOOLEAN \cup {None}
    BY DEF IInv, Reported, MandatoryOverflow
  <2>2. selection # None =>
          /\ selection.status \in Statuses
          /\ selection.protected \subseteq Memory /\ selection.states \subseteq Memory
          /\ selection.flexible \in Seq(Memory)
          /\ kept <= Len(selection.flexible)
    BY DEF IInv, Typed, StepRight, SelectionShape
  <2>3. Len(actions) <= MaxSteps
    BY PipelineAssumption DEF IInv, Typed, Progress
  <2> QED BY <2>1, <2>2, <2>3 DEF IInv, Typed, MailRight, Progress, Reported, TypeOK
<1> QED BY <1>1, Invariance, PTL

\* Orchestrator.run makes one tool call per step and none after a failure, shows
\* each result to all later steps at a turn of its own, and its clock never
\* drifts from the agent's.
THEOREM OneActionEachStep == CounterCounts => (Spec => []OneActionPerStep)
<1> SUFFICES ASSUME CounterCounts PROVE Spec => []OneActionPerStep
  OBVIOUS
<1>1. IInv => OneActionPerStep
  BY DEF IInv, Progress, TracesRight, StepTold, OneActionPerStep
<1> QED BY <1>1, Invariance, PTL

\* docs/architecture.md, invariants 11 and 12: every prompt the agent acted on
\* held all mandatory memories and fitted the budget, and the loop of the
\* builder dropped no flexible memory more than that took.
THEOREM PromptsAreComplete == CounterCounts => (Spec => []PromptComplete)
<1> SUFFICES ASSUME CounterCounts PROVE Spec => []PromptComplete
  OBVIOUS
<1>1. IInv => PromptComplete
  <2> SUFFICES ASSUME IInv, NEW n \in Executed
               PROVE  LET sel == traces[n].selection
                          k   == traces[n].kept
                      IN  /\ Mandatory(task) \subseteq sel.protected \cup sel.states
                          /\ traces[n].total = Tokens(Before(n), Shown(sel, k))
                          /\ traces[n].total <= task.budget
                          /\ k < Len(sel.flexible) => Tokens(Before(n), Shown(sel, k + 1)) > task.budget
    BY DEF PromptComplete
  <2>1. StepTold(traces[n], n) /\ traces[n].acted
    BY DEF IInv, TracesRight, Executed
  <2> QED BY <2>1 DEF StepTold, SelectionRight, KeptRight, Mandatory
<1> QED BY <1>1, Invariance, PTL

\* Numbers that RequestApproval can hand out in a run are not granted by the
\* scenario: otherwise a number names two approvals, and the receipt is looked up
\* as the grant of the same name.
NumbersApart ==
  \A n \in DOMAIN Grants : Grants[n] \notin (Len(Grants) + 1)..(Len(Grants) + MaxSteps)

\* The tool decides at the time of the sending, by the first approval of that
\* name; the evaluator afterwards, by the names that were granted and not handed
\* out.  They agree on every message if no name is both.
THEOREM EvaluationAgrees == CounterCounts /\ NumbersApart => (Spec => []EvaluatorAgrees)
<1> SUFFICES ASSUME CounterCounts, NumbersApart PROVE Spec => []EvaluatorAgrees
  OBVIOUS
<1>1. IInv => EvaluatorAgrees
  <2> SUFFICES ASSUME IInv, row # None PROVE \A n \in DOMAIN sent : sent[n].authorized <=> sent[n].approval \in row.valid
    BY DEF EvaluatorAgrees
  <2>1. /\ Len(approvals) <= Len(Grants) + MaxSteps /\ Len(approvals) \in Nat /\ Len(Grants) \in Nat
        /\ DOMAIN Grants = 1..Len(Grants)
    <3>1. /\ Len(approvals) <= Len(Grants) + Len(actions) /\ Len(approvals) \in Nat
          /\ Len(actions) \in Nat /\ Len(actions) <= MaxSteps
      BY PipelineAssumption DEF IInv, MailRight, MailTypeOK, Typed, Progress
    <3>2. Len(Grants) \in Nat /\ DOMAIN Grants = 1..Len(Grants) /\ MaxSteps \in Nat
      BY GrantAssumption, PipelineAssumption
    <3> QED BY <3>1, <3>2
  <2>2. (Len(Grants) + 1)..Len(approvals) \subseteq (Len(Grants) + 1)..(Len(Grants) + MaxSteps)
    BY <2>1, PipelineAssumption
  <2>3. \A n \in DOMAIN actions :
          actions[n].call.tool = "request" /\ actions[n].reply.ok =>
            actions[n].reply.id \notin Elements(Grants)
    BY <2>2 DEF IInv, MailRight, NumbersApart, Elements
  <2>4. row.valid = Elements(Grants)
    <3>1. row.valid = ValidApprovals
      BY DEF IInv, Reported
    <3> HIDE DEF Elements
    <3> QED BY <2>3, <3>1 DEF ValidApprovals
  <2> QED BY <2>4 DEF IInv, MailRight
<1> QED BY <1>1, Invariance, PTL

\* A prompt with flexible memories in it is never smaller than one without.
FlexibleCosts ==
  \A s \in Seq(Interaction), P, S, F \in SUBSET Memory :
    Tokens(s, Display(P, S, {})) <= Tokens(s, Display(P, S, F))

\* What a step has on record against its mandatory memories is what was wrong.
LEMMA StarvedMeans ==
  ASSUME CounterCounts, FlexibleCosts, IInv, NEW n \in DOMAIN traces
  PROVE  /\ n \in Evaluated <=> Tokens(Before(n), Nothing) <= task.budget
         /\ n \in Evaluated =>
              (Starved(n) <=> Mandatory(task) # {} /\ DoesNotFit(n))
<1> DEFINE t == traces[n]
<1>1. StepTold(t, n)
  BY DEF IInv, TracesRight
<1>2. /\ t \in TraceShape /\ task \in Task /\ interactions \in Seq(Interaction)
  <2> HIDE DEF TraceShape
  <2> QED BY DEF IInv, Typed
<1>3. /\ t.fixed \in Nat /\ t.kept \in Nat /\ t.selection \in SelectionShape
      /\ t.status \in Statuses /\ t.acted \in BOOLEAN
  <2> HIDE DEF t
  <2> QED BY <1>2 DEF TraceShape
<1>4. task.budget \in Nat /\ task.protected \subseteq Memory /\ task.states \subseteq Memory
      /\ Cost(Mandatory(task)) \in Nat
  BY <1>2, PipelineAssumption, CostNat DEF TaskShape
<1> HIDE DEF t
<1>5. t.fixed = Tokens(Before(n), Nothing) /\ SelectionRight(t.selection, t.fixed)
  BY <1>1 DEF StepTold
<1>6. n \in Evaluated <=> Tokens(Before(n), Nothing) <= task.budget
  BY <1>3, <1>4, <1>5 DEF Evaluated, SelectionRight, t
<1>7. ASSUME n \in Evaluated
      PROVE  Starved(n) <=> Mandatory(task) # {} /\ DoesNotFit(n)
  <2>1. /\ t.selection.status # "invalid_budget_configuration" /\ t.fixed <= task.budget
        /\ t.selection.protected \cup t.selection.states = Mandatory(task)
        /\ t.selection.status = "insufficient_context_budget" <=> Cost(Mandatory(task)) > task.budget - t.fixed
    BY <1>3, <1>4, <1>5, <1>6, <1>7 DEF Evaluated, SelectionRight, Mandatory, t
  <2>2. Starved(n) <=> /\ Mandatory(task) # {}
                       /\ "insufficient_context_budget" \in {t.selection.status, t.status}
    BY <2>1 DEF Starved, t
  <2>3. CASE t.acted
    <3>1. /\ t.status = "ok" /\ t.selection.status = "ok" /\ t.total <= task.budget
          /\ t.total = Tokens(Before(n), Shown(t.selection, t.kept)) /\ t.kept <= Len(t.selection.flexible)
      BY <1>1, <2>3 DEF StepTold, KeptRight
    <3> DEFINE F == Elements(SubSeq(t.selection.flexible, 1, t.kept))
               bare == Tokens(Before(n), Display(task.protected, task.states, {}))
    <3>2. F \subseteq Memory
      <4>1. t.selection.flexible \in Seq(Memory) /\ t.kept \in Nat /\ t.kept <= Len(t.selection.flexible)
        BY <1>3, <3>1 DEF SelectionShape
      <4> QED BY <4>1 DEF Elements
    <3>3. Shown(t.selection, t.kept) = Display(task.protected, task.states, F)
      BY <1>5, <2>1 DEF Shown, SelectionRight
    <3>4. Before(n) \in Seq(Interaction) /\ Display(task.protected, task.states, {}) \in Displays
      <4>1. n \in Nat /\ n - 1 <= Len(interactions) /\ n - 1 \in Nat
        BY DEF IInv, Typed, Progress
      <4>2. Before(n) \in Seq(Interaction)
        <5> HIDE DEF Interaction
        <5> QED BY <1>2, <4>1 DEF Before
      <4> QED BY <1>4, <4>2 DEF Display, Displays
    <3> HIDE DEF F
    <3>5. bare <= t.total /\ bare \in Nat /\ t.total \in Nat
      <4>1. bare <= t.total
        BY <1>4, <3>1, <3>2, <3>3, <3>4 DEF FlexibleCosts
      <4>2. bare \in Nat
        BY <3>4 DEF CounterCounts
      <4>3. t.total \in Nat
        BY <1>2 DEF TraceShape
      <4> QED BY <4>1, <4>2, <4>3
    <3>6. ~ (bare > task.budget)
      <4> HIDE DEF bare
      <4> QED BY <1>4, <3>1, <3>5
    <3>7. ~ (Cost(Mandatory(task)) > task.budget - t.fixed)
      BY <2>1, <3>1
    <3>8. ~ DoesNotFit(n)
      BY <1>5, <3>6, <3>7 DEF DoesNotFit
    <3> QED BY <2>2, <3>1, <3>8
  <2>4. CASE ~t.acted /\ t.selection.status = "ok"
    <3>1. /\ t.status = "insufficient_context_budget"
          /\ Tokens(Before(n), Display(task.protected, task.states, {})) > task.budget
      BY <1>1, <2>4 DEF StepTold
    <3> QED BY <2>2, <3>1 DEF DoesNotFit
  <2>5. CASE ~t.acted /\ t.selection.status # "ok"
    <3>1. t.selection.status = "insufficient_context_budget"
      BY <1>3, <2>1, <2>5 DEF SelectionShape, Statuses
    <3> QED BY <1>5, <2>1, <2>2, <3>1 DEF DoesNotFit
  <2> QED BY <1>3, <2>3, <2>4, <2>5
<1> QED BY <1>6, <1>7

\* _mandatory_memory_overflow tells, from the traces alone, exactly whether some
\* step had mandatory memories that did not fit, by themselves or formatted,
\* although its fixed input did; and nothing if the fixed input never fitted.
THEOREM OverflowIsReported == CounterCounts /\ FlexibleCosts => (Spec => []OverflowReported)
<1> SUFFICES ASSUME CounterCounts, FlexibleCosts PROVE Spec => []OverflowReported
  OBVIOUS
<1>1. ASSUME IInv, row # None
      PROVE  /\ row.overflow = None <=> Tokens(<<>>, Nothing) > task.budget
             /\ row.overflow # None =>
                  (row.overflow <=>
                    /\ Mandatory(task) # {}
                    /\ \E n \in DOMAIN traces : DoesNotFit(n) /\ Tokens(Before(n), Nothing) <= task.budget)
  <2>1. /\ Len(traces) > 0 /\ Len(traces) \in Nat /\ DOMAIN traces = 1..Len(traces)
        /\ row.overflow = MandatoryOverflow /\ task.budget \in Nat
    BY <1>1, PipelineAssumption DEF IInv, Typed, Reported, TaskShape
  <2>2. \A n \in DOMAIN traces :
          /\ n \in Evaluated <=> Tokens(Before(n), Nothing) <= task.budget
          /\ n \in Evaluated => (Starved(n) <=> Mandatory(task) # {} /\ DoesNotFit(n))
    BY <1>1, StarvedMeans
  <2>3. Before(1) = <<>> /\ 1 \in DOMAIN traces
    BY <1>1, <2>1 DEF Before, IInv, Typed
  <2>4. Tokens(<<>>, Nothing) \in Nat
    <3> HIDE DEF Interaction
    <3>1. <<>> \in Seq(Interaction)
      OBVIOUS
    <3> QED BY <3>1, NothingShape DEF CounterCounts
  <2>5. 1 \in Evaluated <=> ~ (Tokens(<<>>, Nothing) > task.budget)
    BY <2>1, <2>2, <2>3, <2>4
  <2>6. 1 \notin Evaluated => Evaluated = {}
    <3> SUFFICES ASSUME 1 \notin Evaluated PROVE DOMAIN traces = {1}
      BY DEF Evaluated
    <3>1. traces[1].selection.status = "invalid_budget_configuration"
      BY <2>3 DEF Evaluated
    <3>2. StepTold(traces[1], 1) /\ (traces[1].acted \/ 1 = Len(traces))
      BY <1>1, <2>3 DEF IInv, TracesRight
    <3>3. 1 = Len(traces)
      BY <3>1, <3>2 DEF StepTold
    <3>4. 1..1 = {1}
      OBVIOUS
    <3>5. DOMAIN traces = 1..1
      <4>1. DOMAIN traces = 1..Len(traces)
        BY <2>1
      <4> QED BY <3>3, <4>1, Zenon
    <3> QED BY <3>4, <3>5
  <2>7. MandatoryOverflow = None <=> Evaluated = {}
    BY PipelineAssumption DEF MandatoryOverflow
  <2>8. Evaluated # {} =>
          (MandatoryOverflow <=>
            /\ Mandatory(task) # {}
            /\ \E n \in DOMAIN traces : DoesNotFit(n) /\ Tokens(Before(n), Nothing) <= task.budget)
    <3>1. Evaluated \subseteq DOMAIN traces
      BY DEF Evaluated
    <3>2. Evaluated # {} => (MandatoryOverflow <=> \E n \in Evaluated : Starved(n))
      BY DEF MandatoryOverflow
    <3> QED BY <2>2, <3>1, <3>2, Zenon
  <2> QED BY <2>1, <2>3, <2>5, <2>6, <2>7, <2>8
<1>2. IInv => OverflowReported
  BY <1>1 DEF OverflowReported
<1> QED BY <1>2, Invariance, PTL

=============================================================================
