# Verification of the agent memory system

This directory holds TLA+ models of the memory system of this repository
(`memory/`, `context/`, `pipeline/`, `agent/`, `benchmark/`), TLC configurations
that check them on small instances, and TLAPS proofs for instances of any size.
Paths below are relative to `src/`.

Run everything from this directory:

    tlc -workers 2 -config MCMemoryStore.cfg MCMemoryStore
    tlapm MemoryStoreProofs.tla

and so on for each pair of an `MC*.cfg` and its module (section 4) and each
`*Proofs.tla` and `SetLemmas.tla` (section 7). No proof takes longer than a few minutes.

## 1. Inventory

The system answers one question experimentally: which memories should go into an
agent's prompt when the prompt has a token budget? A benchmark run restores a
snapshot of memories, lets a policy select some of them, builds a prompt, lets an
LLM agent call mock tools, and scores what happened. Many runs make an experiment
whose results are collected in one directory.

    scenario (memory snapshot, query, budget, grants)
       |                                         run_scenarios (benchmark/runner.py)
       v                                           |  one row per run
    policy (memory/selector.py, baselines.py)      v
       |  SelectionResult                        _RunCheckpoint: experiment.json,
       v                                         runs.jsonl, progress.json,
    build_context (context/builder.py)           summary.json, .runner.lock
       |  prompt                                   ^
       v                                           |  reads, probes the lock
    Agent.act -> planner -> ToolExecutor         checkpoint_status
       |  result becomes feedback
       +---> next step of Orchestrator.run

| Component | State it keeps | Operations | What is hard | What makes it correct |
|---|---|---|---|---|
| Memory records (`memory/schema.py`) | fields of one record | validation in `__post_init__` | fields that exclude each other | every stored record is well formed |
| Memory store (`memory/store.py`) | dictionary id to record | `insert`; look-ups by id, key, session | explicit and implicit version links meet; `insert` writes twice and checks in between | one active version per key, mirrored and acyclic links, failed inserts change nothing |
| Checkpoint (`benchmark/runner.py`) | five files, the writer lock, rows in memory | enter (fresh, resume), append, publish, leave; `checkpoint_status` | several processes, kills, torn writes, interrupts, stale files | one writer, no run lost, duplicated or mixed up, no stale summary |
| Selection (`memory/selector.py`, `baselines.py`, `retrieval.py`, `ablation.py`) | none across calls; stages within a call | `select_memory`, three baselines | half-open validity intervals, versions the search missed, exact budgets, ablations | budget kept, mandatory memories whole, right version, nothing from the future |
| Query analysis (`memory/query_analyzer.py`) | none | regular expressions over a query | language | its result is an input of the models |
| Context builder (`context/builder.py`) | none across calls; flexible list in a call | `fixed_context_tokens`, `build_context` | tokens of a formatted prompt are not the sum of its memories | prompt fits, mandatory memories are in it, nothing dropped without need |
| Pipeline (`pipeline/`) | steps, turn, interactions, traces | `Orchestrator.run` | feedback grows the prompt after side effects; two turn clocks | one action per step, nothing after a failure, every run ends |
| Agent and tools (`agent/`) | agent turn, tool mocks | `Agent.act`, `ToolExecutor.execute`, e-mail drafts, approvals, sends | receipts and permissions look alike | tool and evaluator agree on what was permitted |
| Run report (`benchmark/runner.py`, `_run_one`) | one row | usage, prompt-token audit, overflow flag, approvals | three ways not to fit, two statuses; lists paired by position | overflow is told from the rest; a complete audit pairs each call with its prompt |
| Token counting (`context/tokenizer.py`) | two LRU caches, SQLite cache, counters, request configuration | count, count a request, isolate, configure | caches that outlive a configuration; a shared file; retries | every count is right for the present model and configuration, runs are isolated, attempts are bounded |
| LLM planner (`agent/llm_planner.py`) | usage counters | `plan`, `telemetry` | retries; responses without usage metadata | usage is recorded once per response, an unread response is not asked for again, arguments fit the tool |
| Evaluator (`benchmark/evaluator.py`) | none | scoring, matching of expected calls | matching must be the best one; many causes of one failure | an expected call is missed only if no assignment exists; every failure is explained, no mistake is made good later |
| Generator (`benchmark/generator.py`) | none | scenarios from templates; `_fit_text` | search with any counter, some of them never large enough | a text of the wanted size is found if the search stepped past one |
| Settings, prototype, plots, data | none | read configuration, print, draw | nothing that changes state | not modelled |

The hazards of the code, with the line where each bites and the property that
watches it, are listed in `PROJECT.json`.

## 2. Plan

Written so far, in this order:

1. `MemoryItems`, `MemoryStore`, `VersionedRegister`, `MemoryStoreProofs`: the data
   everything else reads, its version chains, and the proofs about them.
2. `RunnerCheckpoint`, `ExperimentLog`, `RunnerCheckpointProofs`: the only
   concurrent and persistent part, and the proofs about it.
3. `MemorySelection`: what the experiment is about.
4. `EmailTool`, `ContextPipeline`: what is done with a selection.

5. `TokenCounter`: the caches that outlive a run, and the only other state that
   processes share.
6. `LLMPlanner` with the prompt-token audit: which call each recorded usage belongs to.
7. `Evaluation` and `FitText`, joined in `MCBenchmark`: the two pure procedures at
   the ends of an experiment, compared with reference definitions.

Composition: `ContextPipeline` extends `EmailTool` and uses of a policy only what
`MemorySelection` shows (an affordable choice with the mandatory memories whole,
or a refusal); `MemoryStore` refines `VersionedRegister` and `RunnerCheckpoint`
refines `ExperimentLog`. `LLMPlanner` takes from `ContextPipeline` the shape of a run
(a prompt and a planner call per step, then the report). `MCBenchmark` extends `FitText`
and `Evaluation`.

The proofs about the other components:

8. `TokenCounterProofs`: the caches of one process and the rows of one model
   are independent of the others, so the invariant is one per process.
9. `LLMPlannerProofs`: recorded usage and planner calls agree by position as
   long as nothing is missing.
10. `SetLemmas`: sums of tokens, least and greatest elements, which the next ones need.
11. `MemorySelectionProofs`: the order of the packing is total, so the loop computes
    the greedy choice.
12. `ContextPipelineProofs`: what each trace says of its step.
13. `BenchmarkProofs`: what the two bounds of the text search enclose, and why the
    matching of expected calls finds an assignment whenever there is one.

Every safety property that a run checks and finds to hold is now a theorem.
Left to do: for `ContextPipeline`, that what its policy answers is what
`MemorySelection` can answer, which the two modules now only say in words.

## 3. Modules and code

### MemoryItems, MemoryStore

`memories` is `MemoryStore._memories`; `result` says how the last `insert` ended.
`insert` is one action per way it can go: `Reject` (one of the checks raises),
`Keep` (no version to close), `Supersede` (the predecessor is replaced first, then
the linked copy of the new record is built, validated again and stored). Both
writes are in `Supersede`, with the failure between them, because that order is
what `FailedInsertChangesNothing` is about. Left out are the content, the token
count, the importance and the turn, on which `insert` decides nothing; the
exception classes are one result, "rejected". A time stamp is an integer and a flag
that says whether it carries a time zone, since comparing the two kinds raises.

`VersionedRegister` is the abstract store: each (session, key) is a register with
at most one current memory, and ids are never reused.

Facts worth knowing that the model brings out and no document contradicts: an
inactive record that names the active version as predecessor closes it and leaves
the key without a current version; inactive records may overlap the validity of
others; naming a closed version without successor overwrites its `valid_to`.

### RunnerCheckpoint

One action per file operation of `_RunCheckpoint`, so that a kill (`Crash`) or an
exception (`Abort`, `Interrupt`, `PublishFails`) can come between any two:
`__enter__` is `Lock`, `Refuse`, then `AcceptFresh`, `Describe`, `Touch` or
`AcceptResume`, `Truncate`, `Unlink`, and `Open`; the loop of `run_scenarios` is
`Write`, `Commit`, `Remember`, `Publish`, `Summarise`, `Finalise`, `Leave`;
`__exit__` is `PublishLast`, `Close`. `_atomic_json` renames a finished file and is
one step. `rows` are the newline-terminated records of `runs.jsonl` and `torn` says
whether a piece of a record follows them. A record that was written but not flushed
when the process dies or the stream is closed reaches the file whole, in part or
not at all (`Spill`). `checkpoint_status` makes three reads at three moments
(`ReadProgress`, `ReadRows`, `ProbeBusy` or `ProbeFree` and `Unlock`).

Assumed: a kill of a process, not a loss of power, so what was flushed stays;
the operating system drops a dead process's lock. Not modelled: `stream.close()`
raising in `__exit__`, after which the lock comes back with the end of the process.

`ExperimentLog` is the abstract directory: it belongs to one experiment, each
planned run is recorded once, and a summary exists only when all are.

### MemorySelection

One behaviour is one call. The stages of `select_memory` are `AcceptBudget`,
`Filter` (the visible memories of `pipeline/orchestrator.py` and the snapshot
store), `Retrieve`, `Expand`, `Resolve`, `Require`, `Protect`, `AdmitMandatory` or
`FailMandatory`, then `Take` or `Skip` once per candidate, `StopPacking`,
`Account`; `Raise` is an exception on the way. The baselines share `Filter`,
`Retrieve` or `TakeAll`, `Rank` and the packing. The ablation switches are fields
of the request.

What a text decides for the one query of a request (similarity, whether a
constraint applies, whether a state is needed) is a field of the memory. Real
numbers are integers on a scale from 0 to `Scale` with the default weights 6, 3, 1;
a score per token is compared by cross multiplication, which is exact. The order
of the packing matters and is modelled; the order of the states is not.

### EmailTool, ContextPipeline

`ContextPipeline` is `Orchestrator.run`: `Count` (the fixed input of this step, with
the results so far), `SelectMandatoryOnly` or `Select`, then `PassOnFailure`,
`Assemble`, `Drop` (one turn of the loop of `build_context`) or `Overflow`, then
`Answer`, `Misfire` or `Execute`, and `Report` for what `_run_one` and
`scenario_with_granted_approvals` make of it. `Abort` is an exception. Planner
failures are text answers (`agent/llm_planner.py:288-293`) and so are `Answer`.
`Tokens(results, display)` is any counter of prompts: nothing says that a prompt costs the
sum of its memories. The policy answers with any affordable subsequence of
the ranked memories, the planner with any call, the mocks of files, calendar and tasks
with success, any other failed call with failure.

`EmailTool` holds `approvals` (grants of the scenario and receipts, in one list as
in the code), and `sent`. The number n stands for the text `approval_00n`. The
evaluator's list of valid approvals is the scenario's grants without the pending
numbers of the run; the generator writes the same ids to the environment and to
the rule (`benchmark/generator.py:258`, `:442`), and the model assumes so.

### TokenCounter

`rows` is the SQLite table, which all processes share; `texts` and `requests` are
the two `lru_cache`s of a process. A call is several steps, so that processes interleave and
a `KeyboardInterrupt` or a kill can come between them: `CountText` or `CountRequest`
(answered from memory, or begun), `ReadFile`, `ServiceCounts` or `ServiceFails` once
per attempt, `WriteFile`; `FileFails` is SQLite raising. `Interrupt` may also come
after the row is committed and before the call has returned: the row is then there, though
no cache in memory got the count. Requests with a configuration
never touch the file. The settings are `ConfigureRequest`, `ClearCache`,
`ClearPersistentCache`, and `EnterIsolation` and `LeaveIsolation` for the two ends of
`isolated_cache`. `Restart` replaces a process by one with any model. Which processes
configure and isolate follows from their use: `benchmark/runner.py` does,
`benchmark/generator.py` does not.

Assumed: the service counts the same input the same way each time; that is what the persistent
cache relies on. Which entry an `lru_cache` evicts is left open, so the
properties hold for every eviction policy. `isolated_cache` is not entered twice, as in the
runner. `api_calls` and `retry_count` are kept per call (`last`), where a property can
speak about them; cache hits are not counted.

### LLMPlanner

A step is `Plan` (the prompt is counted and the planner called), `ApiFails` or
`Respond` once per attempt, then `Answer` or `Execute`. `Respond` records the usage
before the payload is read (`_record_usage_metadata` is called first), so a response
that cannot be read has been counted. `NoClient` is the error of a missing package or key,
which is raised outside the retries and leaves the run without a row. `Report` is
`telemetry` and `_prompt_token_audit`. `told` is a history: it holds, for each planner call, its
prompt and what its concluding response said, and no action reads it.

`ActionFrom` is `agent_action_from_model_output`: an unknown name counts as none, an
action that contradicts the tool is a text, and arguments the action does not
take are dropped. The prompt and what the service charges for it are an input, since neither
determines the other.

Worth knowing: the deltas of an incomplete audit pair by position what may
belong to different calls; the code says so by `complete`, and readers of a row have to
look at it first. A run without any planner call (its first prompt does not fit) has
nothing to compare, and the code calls that empty audit complete, as the model does;
`docs/experiment_plan.md` (line 609) says more loosely that an audit without actual usage is
left incomplete. The sums of a run with partial usage understate its cost (section 6).

### Evaluation

One behaviour is one run: the agent makes up to `MaxCalls` calls (`Act`), then `Evaluate`
judges them with one of the ways a run can end. A call is a function from fields to
values with the tool, the action and the arguments in one, because `_matches` treats
them alike. `Assign` is the recursive `assign` of `_expected_calls_present`, as a function on
its tries: the pattern that wants a call, the owners (`assigned`), the calls `visited` and the
call the loop is at. `Look` is one turn of the loop, `Serve` the generator over the patterns.
`Acceptable` collects the checks that raise `ValueError`. `Verdict` is the success
flag, the presence of the expected calls and the set of failure types.

Left out are the metrics that count, rate or rank without entering the verdict.
Worth knowing: `temporal_version_correct` judges the calls, while
`docs/experiment_plan.md` (lines 246 and 613) describes a judgement of the selected
memories, which in the code is `temporal_context_correct`.

### FitText

`_fit_text`: `Start` is the bare text, `Grow` one doubling, `GiveUp` the bound on it
and the end of its loop, `Bisect` one halving, `Settle` what follows. The constants 1024, 32, 32
and 20 are parameters (`Longest`, `Factor`, `Shortest`, `Rounds`). The counter is any
function of the length that stays constant from some length on; its error is a
refusal that needs no model. In the code as in the model, `Settle` always refuses, because a length within the
tolerance is returned when it is measured (`SettlingRefuses` proves it): the last
`return best` of `_fit_text` is never reached.

## 4. Runs

| Run | Shows | Instance |
|---|---|---|
| `store` | Any sequence of inserts keeps chains sound; the store refines one register per key | three ids, two sessions, one key, two instants |
| `store_references` | Finding: a stored `superseded_by` can name a memory of another session | the same |
| `checkpoint` | Two runners and a reader with faults anywhere: nothing lost, doubled, overwritten or misreported; the directory refines `ExperimentLog` | two identities with three runs and one, interval two |
| `checkpoint_live` | The lock always comes back; once faults stop, the experiment is completed, again after each resume | one runner, one reader, three runs |
| `checkpoint_refusal` | Finding: a runner is refused because "another runner" holds the directory while only a status query does | as `checkpoint` |
| `selection` | Every policy and ablation on snapshots of chains, rules, facts and intruders | 14 memories, 40 or so requests |
| `pipeline` | What every prompt holds, what happens after failures, what the report says, that runs end | three steps, budgets at each boundary, one grant |
| `pipeline_receipt` | Finding: a granted number that the tool hands out again makes a receipt a permission | the grant is `approval_002` |
| `token_counter` | Counts stay right through caches, configurations, isolation, faults and restarts | a runner and a generator with one file, two models, two texts, two configurations, caches of one entry, one retry |
| `planner_audit` | What a complete audit compares, and what usage is recorded, through retries and missing metadata | three steps, one retry, prompts charged as counted, above it, and above the budget |
| `planner_output` | Finding: a sum of output tokens is reported although a call told no usage | the same |
| `benchmark` | Expected calls are matched if they can be; every verdict is explained; texts are fitted | 8 ground truths, 8 calls each, three calls a run, 14 ends; all counters of lengths 0..4 with values 0..5 |

Why the bounds are enough. `store`: a chain of three versions has a first, a middle
and a last one, and an insert looks at no more than its predecessor and the active
version; two instants give equal, earlier and later starts; two sessions and one key give a chain
to confuse with another. `checkpoint`: three runs with an interval of two make
`progress.json` lag, two identities that share a run make a mix-up visible, two
runners are enough for a race on one lock. There is no bound on faults, starts or
queries: the state space is finite by itself. `selection`: topK is below the number of
candidates, so that the search misses versions; budgets are such that an item just
fits, just fails, and that a smaller one fits behind it; the instants include the
one where two versions touch. `pipeline`: a budget of 0 cannot hold the fixed input, 2
holds it but not the mandatory memories, 4 fails on formatting, 5 fits once and no longer
when a result was added, 7 drops flexible memories. `token_counter`: caches of one entry
evict with the second text; two configurations and two models, each with a count of its own, make
every stale entry visible as a wrong number; with one retry there is an attempt before
the last and the last one; nothing bounds the calls, faults and restarts. `planner_audit`: in three steps
a call without usage can come before, between and after others. `benchmark`: three
calls and three patterns that overlap need an augmenting path of length two, which
matching one by one does not find; the bound on the length (16) stops
the doubling before the one on its rounds (4), as it does in the code for every target below 65536, and
the falling counters are among the 7776.

`MCMemorySelection.cfg` and `MCBenchmark.cfg` switch the deadlock check off, because
one behaviour is one call, which returns. In all other runs the system can always go on.

Fairness. `checkpoint_live` assumes that a started process goes on (weak fairness
of its steps: it is a program with no waiting in it) and that an operator keeps
starting fresh and resumed runs (strong fairness of `Start`; that is an assumption
on the operator, not on the code). It has one runner, for two operators can refuse
each other for ever. `EventuallySummarised` is conditional on faults and status
queries ending some day. `pipeline` assumes weak fairness of `Proceed`: a run is a
loop in one thread.

Symmetry is used for memory ids in `store` and runners in `checkpoint`, where
nothing orders them, and in no run that checks liveness.

## 5. Properties

Every property of a passing run has a mutant in `PROJECT.json`: a faulty variant of
one definition, next to it in the module, with which TLC finds the property
violated. The properties of the store and the directory are about sequences of calls
and crashes; those of a selection relate its result to the snapshot by a definition
of their own (`VersionsResolved` recomputes the answer from the snapshot,
`GreedyPacking` states when a candidate may be missing); those of the pipeline
relate a report to what happened (`OverflowReported` recomputes what did not fit
from the task alone, `EvaluatorAgrees` compares two judges that never see each
other's records). `CountsAreRight` compares every cached and answered number with the
service, whatever happened since it was cached; `IsolationSealed` says what a run may see of
other runs and what they may see of it; `AuditExact` compares the audit with a
history the program does not have; `MatchingExact` asks for an assignment outright
where the code searches for one, `VerdictExplained` relates the success flag, the
failure types and the calls, which are computed separately, and `FitIsRight` looks for
any length the search may have stepped over.

## 6. Findings

- `memory/store.py:65` stores a caller's `superseded_by` unchecked, while
  `docs/architecture.md:469` says that it refers to the same session.
- `benchmark/runner.py:452` names another runner as the reason of a refusal that a status query can cause.
- `agent/tools/email.py:70` numbers receipts by the length of a list that holds the
  grants as well, so "the number is no permission" (lines 6-7) fails for a scenario that grants such a number.
- `agent/llm_planner.py:381` reports a sum of output tokens as soon as any response of the
  run told its usage, while `docs/experiment_plan.md:608` says that `output_tokens` is null if
  a call told none.

## 7. Proofs

`MemoryStoreProofs` proves, for every set of ids, sessions, keys, times and inputs,
what the `store` run checks. It assumes only what the modules declare:
`ItemAssumption` (instants are integers, `None` is none of the values) and `InputAssumption` (clients
insert records that passed `__post_init__`). No assumption bounds the store.

The inductive invariant is `IInv`: `TypeOK`, `AtMostOneActive`, `LinksMirrored` and
`SupersedesAcyclic`. None of the parts is inductive alone: that the version an
active insert closes is the only active one comes from `AtMostOneActive`; that
closing it breaks no other link needs `LinksMirrored` (a version with a successor is
inactive and names it); and building the linked record cannot raise because
`TypeOK` says what the closed one looked like. The argument: `StepShape` reduces
every insert to three shapes (nothing, keep, supersede), `KeepEffect` and
`SupersedeEffect` say what each does to the map, one lemma per conjunct says that
it is preserved, and `Invariance` collects them. From it follow `TypeCorrect`,
`ActiveUnique`, `LinksAreMirrored`, `ChainAcyclic`; `RejectionIsAtomic` (the
checks made before the first write imply that the later ones pass),
`HistoryIsPreserved`, and `StoreImplementsRegister`, the refinement.

`SupersedesAcyclic` is stated with sets rather than paths ("every non-empty set of versions
has one that supersedes nothing in it"), which needs no induction: a new record
is named by no older one, so it can be taken out of any set.

`RunnerCheckpointProofs` proves every safety property of the `checkpoint` run, for
any number of runners, readers, identities and planned runs and any interval. It
assumes what `RunnerCheckpoint` declares: a plan lists no run twice
(`PlanAssumption`: keys are unique, which `run_scenarios` checks), the interval is
positive, a process is a runner or a reader, `None` is none of the values. The
runs are finite in number because a plan is a sequence; nothing else is bounded.

Its invariant `IInv` adds to `TypeOK` and `OneWriter` what the files say about
each other (`Directory`), what a runner has in memory at each place (`Own`), what
the holder of the lock may rely on (`Held`) and what a reader may still rely on
after its earlier reads (`Reading`). These are needed: `RowsIntact` is kept by an
append only because the record in the buffer is planned and not in the file, also
while the runner is already leaving (`Appendable`), and because the tail was cut
off first; `ReportConsistent` needs that what a reader saw of a completed
experiment stays true, also when the experiment is resumed meanwhile.

The argument has three parts. `StepElsewhere` and `OthersKeep`: a step changes the
files only if its runner holds the lock, so that the others, who do not, expect nothing
of them. `EnterHere`, `WorkHere`, `EndHere`: the moving runner knows afterwards what the
next place asks. `RunnerShape`: for the directory each step is one of six shapes (it begins an
experiment, keeps, withdraws a summary, announces progress, appends, concludes);
each shape keeps `Directory`, lets the records only grow, which keeps `Reading`, and
is a step of `ExperimentLog` or leaves it alone. `CompleteLength` counts: with every
planned run recorded there are as many records as planned runs, because both
directions are injections between initial segments of the naturals.

`TokenCounterProofs` proves every property of the `token_counter` run, for any number of
processes, models, texts and configurations, any cache size and any number of
retries. It assumes that the service counts deterministically
(`CounterAssumption`: `Size` is an operator with natural values) and that `None` is none
of the values. Its invariant is one formula per process (`Local`: what its caches
hold, `CachesRight`; what a call has in hand between two steps, `CallRight`; what
isolation allows, `Sealed`) and one about the file that all share (`RowsRight`). `CountsAreRight`
alone is not inductive: a count on its way to the file is in no cache yet, and the
configuration that it was asked under must still be the one of the process. The
parts do not depend on each other's process, so `OthersKeep` covers everybody who
does not move. `IsolationIsSealed` follows from `Sealed` and two facts about a step: who changes the
rows, and that isolation begins and ends with empty caches.

`LLMPlannerProofs` proves both properties of `planner_audit`, for any tools, prompts, budget and
number of retries and steps. The invariant says how many prompts, planner calls and
concluded calls there are in each phase (`Progress`), how many attempts they can have
taken (`AttemptsBounded`), and what is recorded of them (`Recorded`): usage and calls agree by
position if all told theirs, and there is less usage than calls if one did not, so that
an audit with equal lengths has compared each call with itself.

`MemorySelectionProofs` proves every property of `selection`, for every snapshot,
request, policy and ablation, from the shapes that `MemorySelection` assumes: a snapshot is a finite set of
records with unique ids, tokens are not negative and the score per token
divides by a positive number. The invariant follows the stages: `Progress` (what has not been produced yet),
`VersionsRight` (from the expansion on, whole chains; after the resolution, only what
answers), `MandatoryRight`, and `PackingRight`, the loop invariant: every candidate
that was considered ranks before every one that is left, and is packed exactly if
the greedy choice or the window has it. That needs the order `Before` to be total and
transitive for each policy: quotients are compared by cross multiplication
(`QuotientsOrdered`), ties by tuples that end in the id; and it needs a best candidate to exist in
every pool that is not empty, which is the one that most others rank behind (`BestIs`).
Two theorems speak of checks in the code that never fail: the final accounting never raises its
`RuntimeError` and no policy exceeds its budget (`AccountingAgrees`), and after the resolution no two needed states have one
key (`NeededStatesAreClear`).

`ContextPipelineProofs` proves every safety property of `pipeline`, for any tasks, calls,
messages, grants, budgets and steps. Its invariant relates the step under way (`StepRight`) and
every trace (`StepTold`, under `TracesRight`) to the results that the step could see, so that the
report follows from the traces (`Reported`); `Progress` relates the lengths of the
sequences and the two clocks, `MailRight` the approvals, the receipts and the messages sent. Three hypotheses are
written in the theorems that need them, because they are about the instance and not about the loop:

- `CounterCounts` (all five): a token counter answers with a natural number. Nothing else is
  assumed of it: not that it grows with the prompt nor that it adds up.
- `NumbersApart` (`EvaluationAgrees` only): no grant of the scenario is a number that the
  tool can hand out in a run. The `pipeline_receipt` run shows what happens otherwise.
- `FlexibleCosts` (`OverflowIsReported` only): showing flexible memories makes no prompt
  smaller. A step in which the agent acts with flexible memories has measured only the prompt
  with them; that the mandatory ones alone would have fitted follows from this.
  A tokenizer that charges text for what it contains satisfies it.

`BenchmarkProofs` first proves `FitIsRight` for every set of counters and every bound. `FitAssumption`
says what a counter is: natural numbers for the lengths from 0 to some last one. The
invariant is that everything up to `low` is too short and everything from `high` on is too
long (`BoundsEnclose`), for counters that never fall; about the others the property says only that what is
returned fits.

Its second part proves the two properties of `Evaluation`, for any finite sequences of calls and
patterns. `assign` is defined at all (`SolutionExists`) because every recursive call is lighter
than its caller: it has fewer calls not yet visited, or as many and fewer left to look at
(`Weight`). Every try that begins with owners that fit is then answered rightly (`AssignIsRight`): a try that went
well gave its pattern a call and left each pattern it moved with a call of its own (`Won`); one that failed
changed nothing and has visited every call that fits its pattern or the owner of
anything it visited (`Lost`). With nothing visited before, such a try has shown that n + 1
patterns fit only n calls, so that no assignment exists (`LostIsHopeless`, by pigeonhole); and
since the patterns are served in turn, `PresentIsAssignable`. That `visited` is shared by reference matters here:
a failed inner try leaves its visits behind, and it is `Lost` that makes skipping those calls harmless.
`VerdictExplained` goes by cases over the ten failure types (`NoticedAre`). `EvaluationAssumption` says
that expected calls are a finite sequence, that the ground truth has the shape `evaluate` accepts,
and that None is not a truth value.

Inductions. The library's induction theorems cannot be instantiated by the
installed provers, so what needs one here (sums over finite sets, the n-th element of a
set, the best candidate) goes by a least counterexample instead: the natural numbers are
well-founded, so a set of them that is not empty has a least element (`LeastElement` in
`SetLemmas`). The sum of the community modules is a recursive function that a `CHOOSE` picks;
`TokenSumIsSum` shows that it exists, and the rest is about that function. So is the matching:
`SolutionExists` and `ServiceExists` show that its recursive functions exist.

Model-checked only: all liveness (`LockReturned`, `EventuallySummarised`,
`EveryRunEnds`), because fairness needs ENABLED, which the prover cannot handle.
The findings are counterexamples that TLC shows.

## 8. Not modelled

Text: queries, prompts and memories are what the rules and counters make of them; the rule
planner (`agent/planner.py`), the query analyser and the templates of the generator
turn one text into another and keep no state. Embeddings and the LLM are inputs.
The metrics of a row, their aggregation and bootstrap intervals (`aggregate_results`), timing,
cost, plots and configuration files are numbers that nothing reads back. The hit
statistics of the token counter and its other classes (a whitespace counter is
a pure function) are left out. The mocks of files, calendar and tasks return success or failure only.
`prototype/run_demo.py` is an earlier stand-alone demonstration.
