-------------------------- MODULE LLMPlannerProofs --------------------------
(***************************************************************************)
(* Proofs about LLMPlanner, for every set of tools, actions, payloads and  *)
(* prompts, every budget and every number of retries and steps.            *)
(*                                                                         *)
(* IInv says where the two sequences that the audit pairs stand in each    *)
(* phase: the counted prompts follow the planner calls one by one, and the *)
(* recorded usage does so as long as no call told nothing.                 *)
(***************************************************************************)
EXTENDS LLMPlanner, SetLemmas

USE PlannerAssumption, NoneAssumption

\* The attempts that one call of plan has.
Attempts == MaxRetries + 1

\* Every variable has its type; TypeOK's bounds are in the other parts.
Typed ==
  /\ phase \in {"idle", "step", "ask", "act", "ended"}
  /\ prompt \in Prompt /\ attempt \in 0..MaxRetries
  /\ calls \in [planner : Nat, api : Nat, usage : Nat]
  /\ perCall \in Seq(Usage) /\ counted \in Seq(Nat)
  /\ told \in Seq([prompt : Prompt, said : Usage \cup {Missing}])
  /\ action \in ToolCall \cup {Text, None}
  /\ action \in ToolCall => action.keys \subseteq Accepts[action.action]

\* How far the planner calls, their answers and the counted prompts are.
Progress ==
  /\ calls.planner <= MaxSteps
  /\ Len(counted) <= Len(told) /\ Len(told) <= calls.planner
  /\ phase = "step"  => calls.planner < MaxSteps
  /\ phase = "ask"   => Len(told) = calls.planner - 1
  /\ phase \in {"step", "act", "ended"} => Len(told) = calls.planner
  /\ phase \in {"step", "ask", "ended"} => Len(counted) = Len(told)
  /\ phase = "act"   => Len(counted) = Len(told) - 1 /\ told[Len(told)].prompt = prompt

\* An attempt is counted when it is made.
AttemptsBounded ==
  /\ phase = "ask" => calls.api <= (calls.planner - 1) * Attempts + attempt
  /\ phase # "ask" => calls.api <= calls.planner * Attempts

\* The recorded usage is that of the planner calls, without those that told none.
Recorded ==
  /\ Len(perCall) = calls.usage /\ Len(perCall) <= Len(told)
  /\ \A n \in DOMAIN told : told[n].said \in {Missing, None, told[n].prompt.charged}
  /\ \A n \in DOMAIN counted : counted[n] = told[n].prompt.counted
  /\ (\E n \in DOMAIN told : told[n].said = Missing) => Len(perCall) < Len(told)
  /\ (\A n \in DOMAIN told : told[n].said # Missing) =>
       Len(perCall) = Len(told) /\ \A n \in DOMAIN told : perCall[n] = told[n].said

Reported ==
  /\ phase # "idle" => report = None
  /\ report # None =>
       report.audit.complete \in BOOLEAN /\ {report.tokens, report.output} \subseteq Usage
  /\ AuditExact

IInv == Typed /\ Progress /\ AttemptsBounded /\ Recorded /\ Reported

\* A run that has not ended reports nothing.
LEMMA NothingReported ==
  ASSUME IInv, phase' # "idle", UNCHANGED report \/ report' = None, phase # "idle" \/ report' = None
  PROVE  Reported'
BY DEF IInv, Reported, AuditExact

LEMMA InitIInv == Init => IInv
<1> SUFFICES ASSUME Init PROVE IInv
  OBVIOUS
<1>1. Typed
  BY DEF Init, Typed, Usage
<1>2. Progress /\ AttemptsBounded /\ Recorded /\ Reported
  BY DEF Init, Progress, AttemptsBounded, Attempts, Recorded, Reported, AuditExact
<1> QED BY <1>1, <1>2 DEF IInv

-----------------------------------------------------------------------------
(* The steps of a run *)

LEMMA BeginKeeps == ASSUME IInv, Begin PROVE IInv'
<1>1. Typed'
  BY DEF Begin, IInv, Typed, Usage
<1>2. Progress' /\ AttemptsBounded' /\ Recorded' /\ Reported'
  BY DEF Begin, Progress, AttemptsBounded, Attempts, Recorded, Reported, AuditExact
<1> QED BY <1>1, <1>2 DEF IInv

LEMMA PlanKeeps == ASSUME IInv, Plan PROVE IInv'
<1>0. /\ calls.planner \in Nat /\ calls \in [planner : Nat, api : Nat, usage : Nat]
      /\ calls' = [calls EXCEPT !.planner = calls.planner + 1]
  BY DEF Plan, IInv, Typed
<1>1. /\ calls'.planner = calls.planner + 1 /\ calls'.planner - 1 = calls.planner
      /\ calls'.api = calls.api /\ calls'.usage = calls.usage
      /\ calls' \in [planner : Nat, api : Nat, usage : Nat]
  BY <1>0
<1>2. Typed'
  BY <1>1 DEF Plan, IInv, Typed
<1>3. Progress'
  <2>1. /\ Progress /\ phase = "step" /\ phase' = "ask" /\ told' = told /\ counted' = counted
        /\ Len(told) \in Nat /\ Len(counted) \in Nat
    BY DEF Plan, IInv, Typed
  <2> QED BY <1>0, <1>1, <2>1 DEF Progress
<1>4. AttemptsBounded'
  <2>1. calls.planner * Attempts \in Nat
    BY DEF IInv, Typed, Attempts
  <2>2. calls.api <= calls.planner * Attempts + 0
    BY <2>1 DEF Plan, IInv, Typed, AttemptsBounded
  <2> QED BY <1>1, <2>2 DEF Plan, AttemptsBounded, Attempts
<1>5. Recorded'
  BY <1>1 DEF Plan, IInv, Recorded
<1>6. Reported'
  BY NothingReported DEF Plan
<1> QED BY <1>2, <1>3, <1>4, <1>5, <1>6 DEF IInv

LEMMA StopAtBudgetKeeps == ASSUME IInv, StopAtBudget PROVE IInv'
<1>0. phase = "step" /\ phase' = "ended" /\ UNCHANGED <<prompt, attempt, calls, perCall, action, counted, told>>
  BY DEF StopAtBudget, planner
<1>1. Typed'
  BY <1>0 DEF IInv, Typed
<1>2. Progress'
  BY <1>0 DEF IInv, Progress
<1>3. AttemptsBounded'
  BY <1>0 DEF IInv, AttemptsBounded
<1>4. Recorded'
  BY <1>0 DEF IInv, Recorded
<1>5. Reported'
  BY NothingReported DEF StopAtBudget
<1> QED BY <1>1, <1>2, <1>3, <1>4, <1>5 DEF IInv

LEMMA NoClientKeeps == ASSUME IInv, NoClient PROVE IInv'
<1>0. phase = "ask" /\ phase' = "idle" /\ UNCHANGED <<prompt, attempt, calls, perCall, action, counted, told>>
  BY DEF NoClient, planner
<1>1. Typed' /\ Progress' /\ Recorded'
  <2>1. Typed'
    BY <1>0 DEF IInv, Typed
  <2>2. Progress'
    BY <1>0 DEF IInv, Progress
  <2>3. Recorded'
    BY <1>0 DEF IInv, Recorded
  <2> QED BY <2>1, <2>2, <2>3
<1>2. 0 <= calls.planner * Attempts
  BY DEF IInv, Typed, Attempts
<1>3. AttemptsBounded'
  BY <1>2 DEF NoClient, planner, AttemptsBounded
<1>4. Reported'
  BY DEF NoClient, IInv, Reported, AuditExact
<1> QED BY <1>1, <1>3, <1>4 DEF IInv

\* What a concluded planner call leaves: one entry of told, and one of perCall
\* unless the response told nothing.
LEMMA ToldRecorded ==
  ASSUME IInv, phase = "ask", NEW said \in {Missing, None, prompt.charged},
         told' = Append(told, [prompt |-> prompt, said |-> said]),
         perCall' = IF said = Missing THEN perCall ELSE Append(perCall, said),
         calls'.usage = IF said = Missing THEN calls.usage ELSE calls.usage + 1,
         UNCHANGED counted
  PROVE  Recorded' /\ perCall' \in Seq(Usage)
                   /\ told' \in Seq([prompt : Prompt, said : Usage \cup {Missing}])
<1> DEFINE entry == [prompt |-> prompt, said |-> said]
<1>1. prompt.charged \in Nat /\ prompt \in Prompt
  BY DEF IInv, Typed
<1>2. entry \in [prompt : Prompt, said : Usage \cup {Missing}] /\ entry.said = said /\ entry.prompt = prompt
  BY <1>1 DEF Usage
<1>3. /\ Len(told') = Len(told) + 1 /\ told'[Len(told) + 1] = entry
      /\ \A n \in DOMAIN told : told'[n] = told[n]
      /\ DOMAIN told' = DOMAIN told \cup {Len(told) + 1}
      /\ DOMAIN told = 1..Len(told) /\ Len(told) \in Nat
      /\ told' \in Seq([prompt : Prompt, said : Usage \cup {Missing}])
  <2>1. told' = Append(told, entry) /\ told \in Seq([prompt : Prompt, said : Usage \cup {Missing}])
    BY DEF IInv, Typed
  <2> HIDE DEF entry
  <2> QED BY <1>2, <2>1
<1>0. DOMAIN counted \subseteq DOMAIN told
  <2>1. DOMAIN counted = 1..Len(counted) /\ Len(counted) \in Nat /\ Len(counted) <= Len(told)
    BY DEF IInv, Typed, Progress
  <2> QED BY <1>3, <2>1
<1>4. CASE said = Missing
  <2>1. perCall' = perCall /\ calls'.usage = calls.usage
    BY <1>4
  <2> HIDE DEF entry
  <2>2. \E n \in DOMAIN told' : told'[n].said = Missing
    BY <1>2, <1>3, <1>4
  <2>3. \A n \in DOMAIN told' : told'[n].said \in {Missing, None, told'[n].prompt.charged}
    BY <1>2, <1>3 DEF IInv, Recorded
  <2>4. \A n \in DOMAIN counted' : counted'[n] = told'[n].prompt.counted
    BY <1>3, <1>0 DEF IInv, Recorded
  <2>5. Len(perCall') < Len(told')
    BY <1>3, <2>1 DEF IInv, Typed, Recorded
  <2>6. Len(perCall') = calls'.usage /\ perCall' \in Seq(Usage)
    BY <2>1 DEF IInv, Typed, Recorded
  <2>7. Len(perCall') <= Len(told')
    BY <1>3, <2>1 DEF IInv, Recorded
  <2> QED BY <1>3, <2>2, <2>3, <2>4, <2>5, <2>6, <2>7 DEF Recorded
<1>5. CASE said # Missing
  <2>1. said \in Usage /\ perCall' = Append(perCall, said) /\ calls'.usage = calls.usage + 1
    BY <1>1, <1>5 DEF Usage
  <2>2. /\ perCall' \in Seq(Usage) /\ Len(perCall') = Len(perCall) + 1
        /\ perCall'[Len(perCall) + 1] = said
        /\ \A n \in DOMAIN perCall : perCall'[n] = perCall[n]
        /\ DOMAIN perCall = 1..Len(perCall) /\ Len(perCall) \in Nat
    BY <2>1 DEF IInv, Typed
  <2> HIDE DEF entry
  <2>3. \A n \in DOMAIN told' : told'[n].said \in {Missing, None, told'[n].prompt.charged}
    BY <1>2, <1>3 DEF IInv, Recorded
  <2>4. \A n \in DOMAIN counted' : counted'[n] = told'[n].prompt.counted
    BY <1>3, <1>0 DEF IInv, Recorded
  <2>5. ASSUME NEW n \in DOMAIN told', told'[n].said = Missing
        PROVE  Len(perCall') < Len(told')
    <3>1. n \in DOMAIN told /\ told[n].said = Missing
      BY <1>2, <1>3, <1>5, <2>5
    <3>2. Len(perCall) < Len(told)
      BY <3>1 DEF IInv, Recorded
    <3> QED BY <3>2, <1>3, <2>2
  <2>6. ASSUME \A n \in DOMAIN told' : told'[n].said # Missing
        PROVE  Len(perCall') = Len(told') /\ \A n \in DOMAIN told' : perCall'[n] = told'[n].said
    <3>1. \A n \in DOMAIN told : told[n].said # Missing
      BY <1>3, <2>6
    <3>2. Len(perCall) = Len(told) /\ \A n \in DOMAIN told : perCall[n] = told[n].said
      BY <3>1 DEF IInv, Recorded
    <3> QED BY <3>2, <1>2, <1>3, <2>2
  <2>7. Len(perCall') = calls'.usage /\ Len(perCall') <= Len(told')
    BY <1>3, <2>1, <2>2 DEF IInv, Recorded
  <2> QED BY <1>3, <2>2, <2>3, <2>4, <2>5, <2>6, <2>7 DEF Recorded
<1> QED BY <1>4, <1>5

\* A text answer is no tool call.
LEMMA TextIsNoCall == Text \notin ToolCall
<1>1. \A t \in ToolCall : t.action \in Action
  BY DEF ToolCall
<1>2. Text.action = None /\ None \notin Action
  BY DEF Text
<1> QED BY <1>1, <1>2

\* What one more planner call adds to the attempts that are allowed.
LEMMA OneMoreCall ==
  ASSUME NEW p \in Nat
  PROVE  /\ p * Attempts \in Nat /\ (p - 1) * Attempts + Attempts = p * Attempts
         /\ p <= MaxSteps => p * Attempts <= MaxSteps * Attempts
<1>1. Attempts \in Nat
  BY DEF Attempts
<1> HIDE DEF Attempts
<1> QED BY <1>1

\* The planner call is concluded: what plan returns is acted on.
LEMMA ConcludeKeeps ==
  ASSUME IInv, phase = "ask", NEW said \in {Missing, None, prompt.charged},
         NEW answer \in ToolCall \cup {Text}, Conclude(answer, said),
         answer \in ToolCall => answer.keys \subseteq Accepts[answer.action],
         calls' \in [planner : Nat, api : Nat, usage : Nat],
         calls'.planner = calls.planner, calls'.api = calls.api + 1,
         calls'.usage = IF said = Missing THEN calls.usage ELSE calls.usage + 1,
         perCall' = IF said = Missing THEN perCall ELSE Append(perCall, said),
         UNCHANGED <<attempt, prompt, counted, report>>
  PROVE  IInv'
<1>1. /\ phase' = "act" /\ action' = answer
      /\ told' = Append(told, [prompt |-> prompt, said |-> said])
  BY DEF Conclude
<1>2. /\ Recorded' /\ perCall' \in Seq(Usage)
      /\ told' \in Seq([prompt : Prompt, said : Usage \cup {Missing}])
  BY <1>1, ToldRecorded
<1>3. Typed'
  BY <1>1, <1>2 DEF IInv, Typed
<1>4. Len(told') = Len(told) + 1 /\ told'[Len(told')] = [prompt |-> prompt, said |-> said]
  BY <1>1 DEF IInv, Typed
<1>5. Progress'
  <2>1. /\ Len(told) = calls.planner - 1 /\ Len(counted) = Len(told) /\ calls.planner <= MaxSteps
        /\ Len(told) \in Nat /\ calls.planner \in Nat
    BY DEF IInv, Typed, Progress
  <2> QED BY <1>1, <1>4, <2>1 DEF Progress
<1>6. AttemptsBounded'
  <2>1. /\ calls.api \in Nat /\ calls.planner \in Nat /\ attempt \in 0..MaxRetries
        /\ calls.api <= (calls.planner - 1) * Attempts + attempt
    BY DEF IInv, Typed, AttemptsBounded
  <2>2. /\ calls.planner * Attempts \in Nat
        /\ (calls.planner - 1) * Attempts = calls.planner * Attempts - Attempts
    BY <2>1, OneMoreCall DEF Attempts
  <2>3. attempt + 1 <= Attempts
    BY <2>1 DEF Attempts
  <2> DEFINE bound == calls.planner * Attempts
  <2>4. calls.api + 1 <= bound
    <3>1. calls.api <= bound - Attempts + attempt /\ bound \in Nat
      BY <2>1, <2>2
    <3>2. Attempts \in Nat
      BY DEF Attempts
    <3> HIDE DEF bound
    <3> QED BY <2>1, <2>3, <3>1, <3>2
  <2> QED BY <1>1, <2>4 DEF AttemptsBounded
<1>7. Reported'
  BY <1>1, NothingReported
<1> QED BY <1>2, <1>3, <1>5, <1>6, <1>7 DEF IInv

LEMMA ApiFailsKeeps ==
  ASSUME IInv, NEW fault \in {"transient", "fatal"}, ApiFails(fault)
  PROVE  IInv'
<1>1. /\ calls \in [planner : Nat, api : Nat, usage : Nat] /\ calls.api \in Nat
      /\ calls' = [calls EXCEPT !.api = calls.api + 1]
  BY DEF ApiFails, IInv, Typed
<1>2. /\ calls' \in [planner : Nat, api : Nat, usage : Nat]
      /\ calls'.planner = calls.planner /\ calls'.usage = calls.usage /\ calls'.api = calls.api + 1
  BY <1>1
<1>3. CASE attempt' = attempt + 1 /\ attempt < MaxRetries /\ UNCHANGED <<phase, action, told>>
  <2>1. Typed'
    <3>1. attempt' \in 0..MaxRetries
      BY <1>3 DEF IInv, Typed
    <3>2. UNCHANGED <<phase, action, told, prompt, perCall, counted>>
      BY <1>3 DEF ApiFails
    <3> QED BY <1>2, <3>1, <3>2 DEF IInv, Typed
  <2>2. Progress' /\ Recorded'
    BY <1>2, <1>3 DEF ApiFails, IInv, Progress, Recorded
  <2>3. AttemptsBounded'
    <3>1. (calls.planner - 1) * Attempts \in Int
      BY <1>1 DEF Attempts
    <3>2. /\ calls.api <= (calls.planner - 1) * Attempts + attempt /\ attempt \in Nat
          /\ phase' = "ask"
      BY <1>3 DEF ApiFails, IInv, Typed, AttemptsBounded
    <3>3. calls.api + 1 <= (calls.planner - 1) * Attempts + (attempt + 1)
      BY <1>1, <3>1, <3>2
    <3> QED BY <1>2, <1>3, <3>2, <3>3 DEF AttemptsBounded, Attempts
  <2>4. Reported'
    BY <1>3, NothingReported DEF ApiFails
  <2> QED BY <2>1, <2>2, <2>3, <2>4 DEF IInv
<1>4. CASE Conclude(Text, Missing) /\ UNCHANGED attempt
  <2>1. Text \notin ToolCall
    BY TextIsNoCall
  <2>2. /\ phase = "ask" /\ UNCHANGED <<attempt, prompt, counted, report>>
        /\ perCall' = IF Missing = Missing THEN perCall ELSE Append(perCall, Missing)
        /\ calls'.usage = IF Missing = Missing THEN calls.usage ELSE calls.usage + 1
    BY <1>2, <1>4 DEF ApiFails
  <2> QED BY <1>2, <1>4, <2>1, <2>2, ConcludeKeeps
<1> QED BY <1>3, <1>4 DEF ApiFails, Failed

\* agent_action_from_model_output answers with text or with a call of a known
\* action that names its own tool and only arguments the tool takes.
LEMMA ActionFromShape ==
  ASSUME NEW p \in Payload
  PROVE  /\ ActionFrom(p) \in ToolCall \cup {Text}
         /\ ActionFrom(p) \in ToolCall => ActionFrom(p).keys \subseteq Accepts[ActionFrom(p).action]
<1>1. Text \notin ToolCall
  BY TextIsNoCall
<1> DEFINE act == Known(p.action, Action)
<1>2. CASE Agrees(Known(p.tool, Tool), act)
  <2>1. act \in Action
    BY <1>2 DEF Agrees, Known
  <2>2. ActionFrom(p) = [action |-> act, keys |-> p.keys \cap Accepts[act]]
    BY <1>2 DEF ActionFrom
  <2> HIDE DEF act
  <2>3. p.keys \cap Accepts[act] \subseteq Key
    BY <2>1
  <2> QED BY <2>1, <2>2, <2>3 DEF ToolCall
<1>3. CASE ~ Agrees(Known(p.tool, Tool), act)
  BY <1>1, <1>3 DEF ActionFrom
<1> QED BY <1>2, <1>3

LEMMA RespondKeeps ==
  ASSUME IInv, NEW said \in {Missing, None, prompt.charged}, NEW p \in Payload \cup {Missing},
         Respond(said, p)
  PROVE  IInv'
<1>1. /\ calls \in [planner : Nat, api : Nat, usage : Nat]
      /\ calls.api \in Nat /\ calls.usage \in Nat
      /\ calls' = [calls EXCEPT !.api = calls.api + 1,
                                !.usage = IF said = Missing THEN calls.usage ELSE calls.usage + 1]
  BY DEF Respond, RecordUsage, IInv, Typed
<1>2. /\ calls' \in [planner : Nat, api : Nat, usage : Nat]
      /\ calls'.planner = calls.planner /\ calls'.api = calls.api + 1
      /\ calls'.usage = IF said = Missing THEN calls.usage ELSE calls.usage + 1
  <2> DEFINE u == IF said = Missing THEN calls.usage ELSE calls.usage + 1
  <2>1. u \in Nat /\ calls.api + 1 \in Nat
    BY <1>1
  <2>2. calls' = [calls EXCEPT !.api = calls.api + 1, !.usage = u]
    BY <1>1
  <2> HIDE DEF u
  <2>3. /\ calls' \in [planner : Nat, api : Nat, usage : Nat] /\ calls'.usage = u
        /\ calls'.planner = calls.planner /\ calls'.api = calls.api + 1
    BY <1>1, <2>1, <2>2
  <2> QED BY <2>3 DEF u
<1>3. /\ phase = "ask" /\ UNCHANGED <<prompt, counted, report>>
      /\ perCall' = IF said = Missing THEN perCall ELSE Append(perCall, said)
  BY DEF Respond, RecordUsage
<1>4. CASE p = Missing
  <2>1. Conclude(Text, said) /\ UNCHANGED attempt
    BY <1>4 DEF Respond, Failed, Transient
  <2>2. Text \notin ToolCall
    BY TextIsNoCall
  <2> QED BY <1>2, <1>3, <2>1, <2>2, ConcludeKeeps
<1>5. CASE p # Missing
  <2>1. Conclude(ActionFrom(p), said) /\ UNCHANGED attempt /\ p \in Payload
    BY <1>5 DEF Respond
  <2>2. /\ ActionFrom(p) \in ToolCall \cup {Text}
        /\ ActionFrom(p) \in ToolCall => ActionFrom(p).keys \subseteq Accepts[ActionFrom(p).action]
    BY <2>1, ActionFromShape
  <2> QED BY <1>2, <1>3, <2>1, <2>2, ConcludeKeeps
<1> QED BY <1>4, <1>5

-----------------------------------------------------------------------------
(* The rest of a step *)

\* The prompt of the call that was concluded last is counted.
LEMMA CountedKeeps ==
  ASSUME IInv, phase = "act", Counted, phase' \in {"step", "ended"},
         phase' = "step" => Len(counted') < MaxSteps,
         UNCHANGED <<prompt, planner, told, report>>
  PROVE  IInv'
<1>1. /\ told[Len(told)].prompt = prompt /\ prompt.counted \in Nat
      /\ Len(counted) = Len(told) - 1 /\ Len(told) = calls.planner
      /\ Len(told) \in Nat /\ Len(counted) \in Nat /\ DOMAIN counted = 1..Len(counted)
  <2>1. prompt.counted \in Nat
    BY DEF IInv, Typed
  <2>2. Len(told) \in Nat /\ Len(counted) \in Nat /\ DOMAIN counted = 1..Len(counted)
    BY DEF IInv, Typed
  <2>3. told[Len(told)].prompt = prompt /\ Len(counted) = Len(told) - 1 /\ Len(told) = calls.planner
    BY DEF IInv, Progress
  <2> QED BY <2>1, <2>2, <2>3
<1>2. /\ counted' \in Seq(Nat) /\ Len(counted') = Len(told)
      /\ DOMAIN counted' = DOMAIN counted \cup {Len(told)}
      /\ \A n \in DOMAIN counted : counted'[n] = counted[n]
      /\ counted'[Len(told)] = prompt.counted
  BY <1>1 DEF Counted, IInv, Typed
<1>3. Typed'
  BY <1>2 DEF planner, IInv, Typed
<1>4. Progress'
  BY <1>1, <1>2 DEF planner, IInv, Progress
<1>5. AttemptsBounded'
  BY DEF planner, IInv, AttemptsBounded
<1>6. Recorded'
  BY <1>1, <1>2 DEF planner, IInv, Recorded
<1>7. Reported'
  BY NothingReported
<1> QED BY <1>3, <1>4, <1>5, <1>6, <1>7 DEF IInv

LEMMA AnswerKeeps == ASSUME IInv, Answer PROVE IInv'
BY CountedKeeps DEF Answer

LEMMA ExecuteKeeps == ASSUME IInv, NEW success \in BOOLEAN, Execute(success) PROVE IInv'
BY CountedKeeps DEF Execute

-----------------------------------------------------------------------------
(* The report *)

\* The history holds prompts, whose charge is a number.
LEMMA ToldPrompts ==
  ASSUME IInv
  PROVE  \A n \in DOMAIN told : told[n].prompt \in Prompt /\ told[n].prompt.charged \in Nat
<1> DEFINE Entries == [prompt : Prompt, said : Usage \cup {Missing}]
<1>1. told \in Seq(Entries)
  BY DEF IInv, Typed
<1>2. \A n \in DOMAIN told : told[n] \in Entries
  <2> HIDE DEF Entries
  <2> QED BY <1>1
<1>3. \A q \in Prompt : q.charged \in Nat
  OBVIOUS
<1> QED BY <1>2, <1>3

\* The audit of an ended run is complete exactly if every call told a number.
LEMMA CompleteMeans ==
  ASSUME IInv, phase = "ended"
  PROVE  /\ Len(counted) = Len(told) /\ Len(told) \in Nat
         /\ Complete <=> \A n \in DOMAIN told : told[n].said \in Nat
         /\ Complete => \A n \in DOMAIN told : /\ perCall[n] = told[n].prompt.charged
                                               /\ counted[n] = told[n].prompt.counted
         /\ Complete => Len(perCall) = Len(told)
<1>1. /\ Len(counted) = Len(told) /\ Len(told) \in Nat /\ DOMAIN told = 1..Len(told)
      /\ DOMAIN perCall = 1..Len(perCall) /\ Len(perCall) \in Nat /\ DOMAIN counted = DOMAIN told
  BY DEF IInv, Typed, Progress
<1>2. \A n \in DOMAIN told :
        /\ told[n].prompt.charged \in Nat /\ told[n].said \in {Missing, None, told[n].prompt.charged}
        /\ counted[n] = told[n].prompt.counted
  <2>1. \A n \in DOMAIN told : told[n].prompt \in Prompt
    BY ToldPrompts
  <2> QED BY <1>1, <2>1 DEF IInv, Recorded
<1>3. \A n \in DOMAIN told : told[n].said # Missing /\ told[n].said # None <=> told[n].said \in Nat
  BY <1>2
<1>4. ASSUME \A n \in DOMAIN told : told[n].said \in Nat
      PROVE  Complete
  <2>1. Len(perCall) = Len(told) /\ \A n \in DOMAIN told : perCall[n] = told[n].said
    BY <1>3, <1>4 DEF IInv, Recorded
  <2> QED BY <1>1, <1>3, <1>4, <2>1 DEF Complete
<1>5. ASSUME Complete
      PROVE  \A n \in DOMAIN told : told[n].said \in Nat /\ perCall[n] = told[n].prompt.charged
  <2>1. Len(perCall) = Len(told)
    BY <1>1, <1>5 DEF Complete
  <2>2. \A n \in DOMAIN told : told[n].said # Missing
    BY <1>1, <2>1 DEF IInv, Recorded
  <2>3. \A n \in DOMAIN told : perCall[n] = told[n].said
    BY <2>2 DEF IInv, Recorded
  <2>4. \A n \in DOMAIN told : told[n].said # None
    BY <1>1, <1>5, <2>1, <2>3 DEF Complete
  <2> QED BY <1>2, <1>3, <2>2, <2>3, <2>4
<1> QED BY <1>1, <1>2, <1>4, <1>5 DEF Complete

\* The sums of telemetry are numbers or None.
LEMMA PromptTokensShape ==
  ASSUME IInv
  PROVE  PromptTokens \in Usage /\ OutputTokens \in Usage
<1> DEFINE S == {n \in DOMAIN perCall : perCall[n] # None}
<1>1. IsFiniteSet(S) /\ \A n \in S : perCall[n] \in Nat
  <2>1. DOMAIN perCall = 1..Len(perCall) /\ Len(perCall) \in Nat
    BY DEF IInv, Typed
  <2>2. IsFiniteSet(DOMAIN perCall)
    BY <2>1, FS_Interval
  <2> QED BY <2>2, FS_Subset DEF IInv, Typed, Usage
<1>2. PromptTokens = IF calls.usage = 0 THEN None ELSE EntrySum(perCall, S)
  BY DEF PromptTokens, EntrySum
<1>3. EntrySum(perCall, S) \in Nat
  <2> HIDE DEF S
  <2> QED BY <1>1, EntrySumNat
<1>4. calls.usage * Output \in Nat
  BY DEF IInv, Typed
<1> QED BY <1>2, <1>3, <1>4 DEF OutputTokens, Usage

LEMMA ReportKeeps == ASSUME IInv, Report PROVE IInv'
<1> DEFINE new == [audit |-> Audit, tokens |-> PromptTokens, output |-> OutputTokens]
<1>1. /\ phase = "ended" /\ phase' = "idle" /\ report' = new
      /\ UNCHANGED <<prompt, planner, counted, told>>
  BY DEF Report
<1>2. Typed' /\ Progress' /\ AttemptsBounded' /\ Recorded'
  <2>1. Typed'
    BY <1>1 DEF planner, IInv, Typed
  <2>2. Progress'
    BY <1>1 DEF planner, IInv, Progress
  <2>3. AttemptsBounded' /\ Recorded'
    BY <1>1 DEF planner, IInv, AttemptsBounded, Recorded
  <2> QED BY <2>1, <2>2, <2>3
<1>3. /\ new.audit.complete = Complete /\ new.audit.deltas = Deltas
      /\ new.audit.exceeded = IF Complete THEN \E n \in Numbers(perCall) : n > Budget ELSE None
      /\ new.tokens = PromptTokens /\ new.output = OutputTokens
  BY DEF Audit
<1>0. DOMAIN told = 1..Len(told)
  BY DEF IInv, Typed
<1>4. /\ Len(counted) = Len(told) /\ Len(told) \in Nat
      /\ Complete <=> \A n \in DOMAIN told : told[n].said \in Nat
      /\ Complete => \A n \in DOMAIN told : /\ perCall[n] = told[n].prompt.charged
                                            /\ counted[n] = told[n].prompt.counted
      /\ Complete => Len(perCall) = Len(told)
  BY <1>1, CompleteMeans
<1>5. ASSUME Complete PROVE Deltas = [n \in DOMAIN told |-> Delta(n)]
  <2>1. Pairs = Len(told)
    BY <1>4, <1>5 DEF Pairs, Min
  <2>2. \A n \in DOMAIN told : perCall[n] # None
    <3>1. \A n \in DOMAIN told : perCall[n] \in Nat
      BY <1>4, <1>5, ToldPrompts
    <3> QED BY <3>1
  <2>3. Deltas = [n \in DOMAIN told |-> perCall[n] - counted[n]]
    BY <1>0, <1>4, <2>1, <2>2 DEF Deltas
  <2> QED BY <1>4, <1>5, <2>3 DEF Delta
<1>6. ASSUME Complete
      PROVE  (\E n \in Numbers(perCall) : n > Budget)
               <=> \E n \in DOMAIN told : told[n].prompt.charged > Budget
  <2>1. DOMAIN perCall = DOMAIN told
    BY <1>4, <1>5, <1>6 DEF IInv, Typed
  <2>2. \A n \in DOMAIN told : perCall[n] # None
    BY <1>6, <2>1 DEF Complete
  <2> QED BY <1>4, <1>6, <2>1, <2>2 DEF Numbers
<1>7. Complete \in BOOLEAN
  BY DEF Complete
<1>8. PromptTokens \in Usage /\ OutputTokens \in Usage
  BY PromptTokensShape
<1>9. Reported'
  <2> HIDE DEF new
  <2>1. \A n : Delta(n)' = Delta(n)
    BY <1>1 DEF Delta
  <2>2. AuditExact'
    BY <1>1, <1>3, <1>4, <1>5, <1>6, <2>1 DEF AuditExact
  <2> QED BY <1>1, <1>3, <1>7, <1>8, <2>2 DEF Reported
<1> QED BY <1>2, <1>9 DEF IInv

-----------------------------------------------------------------------------
(* The theorems *)

LEMMA StepIInv == IInv /\ [Next]_vars => IInv'
<1> SUFFICES ASSUME IInv, [Next]_vars PROVE IInv'
  OBVIOUS
<1>1. CASE UNCHANGED vars
  <2>1. UNCHANGED <<phase, prompt, attempt, calls, perCall, action, counted, told, report>>
    BY <1>1 DEF vars, planner
  <2>2. Typed'
    BY <2>1 DEF IInv, Typed
  <2>3. Progress'
    BY <2>1 DEF IInv, Progress
  <2>4. AttemptsBounded' /\ Recorded'
    BY <2>1 DEF IInv, AttemptsBounded, Recorded
  <2>5. Reported'
    BY <2>1 DEF IInv, Reported, AuditExact, Delta
  <2> QED BY <2>2, <2>3, <2>4, <2>5 DEF IInv
<1>2. CASE Next
  BY <1>2, BeginKeeps, PlanKeeps, StopAtBudgetKeeps, NoClientKeeps, ApiFailsKeeps, RespondKeeps,
     AnswerKeeps, ExecuteKeeps, ReportKeeps DEF Next
<1> QED BY <1>1, <1>2

LEMMA Invariance == Spec => []IInv
BY InitIInv, StepIInv, PTL DEF Spec

\* Every variable keeps its type, and the counters their bounds: no call of plan
\* makes more than max_retries + 1 attempts or records more than one usage, and
\* the tokens that are reported are a number or None.
THEOREM TypeCorrect == Spec => []TypeOK
<1>1. IInv => TypeOK
  <2> SUFFICES ASSUME IInv PROVE TypeOK
    OBVIOUS
  <2>1. calls.api <= MaxSteps * Attempts
    <3>0. /\ calls.planner \in Nat /\ calls.planner <= MaxSteps /\ calls.planner - 1 \in Int
          /\ Attempts \in Nat
      BY DEF IInv, Typed, Progress, Attempts
    <3>1. /\ calls.planner * Attempts \in Nat /\ calls.planner * Attempts <= MaxSteps * Attempts
          /\ (calls.planner - 1) * Attempts + Attempts = calls.planner * Attempts
          /\ MaxSteps * Attempts \in Nat
      BY <3>0, OneMoreCall
    <3>4. (calls.planner - 1) * Attempts \in Int
      BY <3>0
    <3>2. attempt < Attempts /\ attempt \in Nat /\ Attempts \in Nat /\ calls.api \in Nat
      BY DEF IInv, Typed, Attempts
    <3>3. \/ calls.api <= (calls.planner - 1) * Attempts + attempt
          \/ calls.api <= calls.planner * Attempts
      BY DEF IInv, AttemptsBounded
    <3> HIDE DEF Attempts
    <3> QED BY <3>1, <3>2, <3>3, <3>4
  <2>2. calls.usage <= MaxSteps /\ calls.usage <= calls.planner
    <3>1. calls.usage \in Nat /\ calls.planner \in Nat /\ Len(told) \in Nat
      BY DEF IInv, Typed
    <3>2. calls.planner <= MaxSteps /\ Len(told) <= calls.planner
      BY DEF IInv, Progress
    <3>3. calls.usage <= Len(told)
      BY DEF IInv, Recorded
    <3> QED BY <3>1, <3>2, <3>3
  <2>3. calls \in [planner : 0..MaxSteps, api : 0..MaxSteps * (MaxRetries + 1), usage : 0..MaxSteps]
    BY <2>1, <2>2 DEF IInv, Typed, Progress, Attempts
  <2> QED BY <2>2, <2>3 DEF IInv, Typed, Progress, Recorded, Reported, TypeOK
<1> QED BY <1>1, Invariance, PTL

\* _prompt_token_audit pairs counted prompts with recorded usage by position.
\* Whatever was retried, could not be read or told nothing: if the audit says
\* it is complete, each pair is of one call, and it is complete if all told.
THEOREM AuditIsExact == Spec => []AuditExact
<1>1. IInv => AuditExact
  BY DEF IInv, Reported
<1> QED BY <1>1, Invariance, PTL

=============================================================================
