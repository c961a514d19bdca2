---------------------------- MODULE MCBenchmark ----------------------------
(***************************************************************************)
(* The two pure procedures at the ends of an experiment: the fitting of    *)
(* texts by the scenario generator before the first run, and the judgement *)
(* of a run after it.  A behaviour is about one of them; the other has     *)
(* already ended in it.                                                    *)
(***************************************************************************)
EXTENDS FitText, Evaluation

-----------------------------------------------------------------------------
(* Texts: every counter of lengths 0..4, falling ones included *)

MCCounter == [0..4 -> 0..5]

MCTarget == 0..5

-----------------------------------------------------------------------------
(* Ground truths *)

\* A field that is None is absent.
Fields(act, file, approval) ==
  LET all == [act |-> act, file |-> file, approval |-> approval]
  IN  [x \in {x \in DOMAIN all : all[x] # None} |-> all[x]]

\* Calls of three fields and patterns of one: every way in which three calls
\* can fit three patterns.
Mark == {"x", "y", "z"}
Marked(S) == [m \in S |-> "set"]

Plain ==
  [rules |-> {}, states |-> {}, targets |-> {}, temporal |-> FALSE, wrongVersions |-> {},
   budget |-> 2, expected |-> <<>>, forbidden |-> {}, answers |-> None]

Matchings ==
  {[Plain EXCEPT !.expected = <<Marked({"x"}), Marked({"y"}), Marked({"z"})>>],
   [Plain EXCEPT !.expected = <<Marked({}), Marked({"x"}), Marked({"x", "y"})>>]}

Sending == Fields("send", None, None)

Attachment(scope) ==
  [memory_id |-> "m2", scope |-> scope, call |-> Sending, argument |-> "file",
   expected |-> "new", stale |-> {"old"}]

Folder ==
  [memory_id |-> "m1", scope |-> "current", call |-> Fields("find", None, None), argument |-> "file",
   expected |-> "old", stale |-> {}]

Permission(required) ==
  [forbidden |-> {},
   approval |-> [execution |-> Sending, request |-> Fields("ask", None, None),
                 requestRequired |-> required, valid |-> {"granted"}]]

NoOld == [forbidden |-> {Fields("send", "old", None)}, approval |-> None]

Tasks ==
  LET task == [Plain EXCEPT !.states = {Attachment("current")}, !.temporal = TRUE,
                            !.targets = {"m2"}, !.wrongVersions = {"m1"},
                            !.expected = <<Fields("send", "new", None)>>]
  IN  {task,
       [task EXCEPT !.states = {Attachment("historical")}, !.targets = {}],
       [task EXCEPT !.states = @ \cup {Folder}, !.temporal = FALSE],
       [task EXCEPT !.rules = {Permission(TRUE)}, !.targets = {"m1", "m2"}],
       [task EXCEPT !.rules = {Permission(FALSE), NoOld}, !.answers = {"sent"}],
       [Plain EXCEPT !.forbidden = {Fields("send", "other", None)}, !.answers = {"sent"}]}

MCScenario == Matchings \cup Tasks

MarkedCalls == {Marked(S) : S \in SUBSET Mark}

TaskCalls ==
  {Fields("send", "new", "granted"), Fields("send", "old", "granted"), Fields("send", "other", None),
   Fields("send", None, "granted"), Fields("send", "new", "pending"), Fields("ask", None, None),
   Fields("find", "old", None), Fields("find", "new", None)}

MCCall == MarkedCalls \cup TaskCalls

MCTried == [s \in MCScenario |-> IF s \in Matchings THEN MarkedCalls ELSE TaskCalls]

-----------------------------------------------------------------------------
(* Ends of runs *)

Good ==
  [status |-> "ok", goal |-> TRUE, response |-> "sent", input |-> 2, fixed |-> 1,
   before |-> {"m1", "m2"}, selected |-> {"m1", "m2"}, rejected |-> {}, dropped |-> {},
   rejectedByBudget |-> {}, candidates |-> {"m1", "m2"}]

Untold == [Good EXCEPT !.rejectedByBudget = None, !.candidates = None, !.dropped = None]

MCEnd ==
  {Good,
   [Good EXCEPT !.goal = FALSE],
   [Good EXCEPT !.goal = None, !.response = "other"],
   [Good EXCEPT !.input = 3],
   [Good EXCEPT !.fixed = 3],
   [Good EXCEPT !.input = None],
   [Good EXCEPT !.before = {"m2"}, !.selected = {"m2"}, !.rejected = {"m1"}, !.rejectedByBudget = {"m1"}],
   [Good EXCEPT !.selected = {"m1"}, !.dropped = {"m2"}],
   [Good EXCEPT !.before = {"m1"}, !.selected = {"m1"}],
   [Good EXCEPT !.before = {"m1"}],
   [Good EXCEPT !.rejected = {"m1"}],
   [Untold EXCEPT !.before = {"m1"}, !.selected = {"m1"}, !.rejected = {"m2"}],
   [Good EXCEPT !.status = "insufficient_context_budget", !.goal = FALSE, !.input = None,
                !.before = {}, !.selected = {}, !.rejectedByBudget = None, !.candidates = None],
   [Good EXCEPT !.status = "invalid_budget_configuration", !.goal = FALSE, !.input = 3, !.fixed = 3]}

-----------------------------------------------------------------------------

EvaluationOver ==
  scenario \in Matchings /\ scenario.expected[1] = Marked({}) /\ calls = <<>> /\ result = Rejected

FittingOver ==
  /\ phase = "fits" /\ count = [n \in 0..4 |-> 0] /\ target = 0
  /\ low = 0 /\ high = 0 /\ best = 0 /\ round = 0 /\ length = 0 /\ tried = 0

BothInit == (FitInit /\ EvaluationOver) \/ (Init /\ FittingOver)

BothNext ==
  \/ FitNext /\ UNCHANGED vars
  \/ Next /\ UNCHANGED fitting

BothSpec == BothInit /\ [][BothNext]_<<vars, fitting>>

=============================================================================
