-------------------------- MODULE RunnerCheckpoint --------------------------
(***************************************************************************)
(* benchmark/runner.py: runner processes that share an output directory    *)
(* through _RunCheckpoint and the status readers of checkpoint_status.  A  *)
(* runner takes the writer lock, starts or resumes the experiment the      *)
(* directory holds, executes the runs that are missing, and leaves a       *)
(* summary.  It can be interrupted or killed at any step.  Every change of *)
(* one file is a step: _atomic_json replaces its file in one rename.       *)
(***************************************************************************)
EXTENDS Sequences, Integers

CONSTANTS Runner,      \* processes that call run_scenarios
          Reader,      \* processes that call checkpoint_status
          Identity,    \* resume_identity: dataset, code and settings
          Run,         \* (sample_id, strategy, repeat_id) keys
          Plan,        \* the runs of each identity, in the order of the loops
          Interval,    \* checkpoint_interval
          None

RunsIn(log) == {log[n].run : n \in DOMAIN log}
Expected(i) == {Plan[i][n] : n \in DOMAIN Plan[i]}

ASSUME PlanAssumption ==
  /\ Plan \in [Identity -> Seq(Run)]
  /\ \A i \in Identity : \A m, n \in DOMAIN Plan[i] : Plan[i][m] = Plan[i][n] => m = n

ASSUME NoneAssumption == None \notin Identity \cup Run \cup Runner \cup Reader

ASSUME ProcessAssumption == Runner \cap Reader = {}

ASSUME IntervalAssumption == Interval \in Nat \ {0}

VARIABLES
  \* the output directory
  experiment,   \* resume_identity in experiment.json, or None without the file
  created,      \* does runs.jsonl exist?
  rows,         \* the newline-terminated records of runs.jsonl
  torn,         \* does an unterminated piece of a record follow them?
  summary,      \* the records summary.json was computed from, or None
  progress,     \* progress.json, or None
  lock,         \* the process that holds .runner.lock, or None
  \* the runner processes
  pc,           \* where a runner is
  resume,       \* was it started with --resume?
  ident,        \* the identity of its dataset, code and settings
  kept,         \* _RunCheckpoint.rows
  record,       \* the run whose record append() is writing, or None
  state,        \* _RunCheckpoint.state
  \* the status readers
  step,         \* where a reader is
  seen,         \* the progress it read
  counted,      \* the number of records it read
  report        \* its last answer, or None

results == <<experiment, created, rows, torn, summary>>
files   == <<results, progress>>
job     == <<resume, ident>>
memory  == <<kept, record, state>>
readers == <<step, seen, counted, report>>
vars    == <<files, lock, pc, job, memory, readers>>

State == {"running", "interrupted", "completed"}
Record == [run : Run, identity : Identity]
Corrupt == [run |-> None, identity |-> None]   \* a line that json.loads rejects

ASSUME SummaryAssumption == None \notin Seq(Record \cup {Corrupt})

Progress == [state : State, completed : Nat]
Report == [state : State, completed : Nat, active : BOOLEAN]

Opening == {"locked", "describe", "touch", "truncate", "unlink", "open"}
Body    == {"loop", "writing", "committed", "publish", "finalise", "saved"}
Leaving == {"closing", "unlocking"}
Holding == Opening \cup Body \cup Leaving

-----------------------------------------------------------------------------
(* Entering: _RunCheckpoint.__enter__ *)

\* run_scenarios validates its arguments and computes the identity.
Start(r, again, i) ==
  /\ pc[r] = "idle"
  /\ pc' = [pc EXCEPT ![r] = "opening"]
  /\ resume' = [resume EXCEPT ![r] = again]
  /\ ident' = [ident EXCEPT ![r] = i]
  /\ UNCHANGED <<files, lock, memory, readers>>

\* The process ends, and with it what it had in memory.
Exit(r) ==
  /\ pc' = [pc EXCEPT ![r] = "idle"]
  /\ resume' = [resume EXCEPT ![r] = FALSE]
  /\ ident' = [ident EXCEPT ![r] = None]
  /\ kept' = [kept EXCEPT ![r] = <<>>]
  /\ record' = [record EXCEPT ![r] = None]
  /\ state' = [state EXCEPT ![r] = "running"]

\* Faulty variant: the lock is taken without looking who holds it.
LockForced(r) ==
  /\ pc[r] = "opening"
  /\ lock' = r
  /\ pc' = [pc EXCEPT ![r] = "locked"]
  /\ UNCHANGED <<files, job, memory, readers>>

Lock(r) ==
  /\ pc[r] = "opening"
  /\ lock = None
  /\ lock' = r
  /\ pc' = [pc EXCEPT ![r] = "locked"]
  /\ UNCHANGED <<files, job, memory, readers>>

\* "another runner is using this output directory"
Refuse(r) ==
  /\ pc[r] = "opening"
  /\ lock # None
  /\ Exit(r)
  /\ UNCHANGED <<files, lock, readers>>

\* Faulty variant: the exception leaves the lock behind.
AbandonLocked(r) ==
  /\ Exit(r)
  /\ UNCHANGED <<files, lock, readers>>

\* Every exception inside __enter__ gives the lock back.
Abandon(r) ==
  /\ Exit(r)
  /\ lock' = None
  /\ UNCHANGED <<files, readers>>

\* Faulty variant: only a finished experiment stops a fresh start.
FreshAllowedUnlessSummary == summary = None

\* A fresh start wants none of the four result files.
FreshAllowed == experiment = None /\ ~created /\ summary = None /\ progress = None

RejectFresh(r) ==
  /\ pc[r] = "locked"
  /\ ~resume[r]
  /\ ~FreshAllowed
  /\ Abandon(r)

AcceptFresh(r) ==
  /\ pc[r] = "locked"
  /\ ~resume[r]
  /\ FreshAllowed
  /\ pc' = [pc EXCEPT ![r] = "describe"]
  /\ UNCHANGED <<files, lock, job, memory, readers>>

Describe(r) ==
  /\ pc[r] = "describe"
  /\ experiment' = ident[r]
  /\ pc' = [pc EXCEPT ![r] = "touch"]
  /\ UNCHANGED <<created, rows, torn, summary, progress, lock, job, memory, readers>>

Touch(r) ==
  /\ pc[r] = "touch"
  /\ created' = TRUE
  /\ pc' = [pc EXCEPT ![r] = "open"]
  /\ UNCHANGED <<experiment, rows, torn, summary, progress, lock, job, memory, readers>>

\* Faulty variant: the identity is not compared.
ResumableAny(r) ==
  /\ experiment # None
  /\ Corrupt \notin {rows[n] : n \in DOMAIN rows}

\* Faulty variant: a resume needs runs.jsonl, which a fresh start creates last.
ResumableWithFile(r) ==
  /\ created
  /\ experiment = ident[r]
  /\ \A m, n \in DOMAIN rows : rows[m].run = rows[n].run => m = n
  /\ RunsIn(rows) \subseteq Expected(ident[r])

\* The saved experiment is this one, every record parses, and the saved keys
\* are distinct and planned.
Resumable(r) ==
  /\ experiment = ident[r]
  /\ Corrupt \notin {rows[n] : n \in DOMAIN rows}
  /\ \A m, n \in DOMAIN rows : rows[m].run = rows[n].run => m = n
  /\ RunsIn(rows) \subseteq Expected(ident[r])

RejectResume(r) ==
  /\ pc[r] = "locked"
  /\ resume[r]
  /\ ~Resumable(r)
  /\ Abandon(r)

AcceptResume(r) ==
  /\ pc[r] = "locked"
  /\ resume[r]
  /\ Resumable(r)
  /\ kept' = [kept EXCEPT ![r] = rows]
  /\ pc' = [pc EXCEPT ![r] = "truncate"]
  /\ UNCHANGED <<files, lock, job, record, state, readers>>

\* Faulty variant: the torn tail stays.
TruncateSkipped(r) ==
  /\ pc[r] = "truncate"
  /\ created' = TRUE
  /\ pc' = [pc EXCEPT ![r] = "unlink"]
  /\ UNCHANGED <<experiment, rows, torn, summary, progress, lock, job, memory, readers>>

\* The torn tail is cut off at the last committed byte.
Truncate(r) ==
  /\ pc[r] = "truncate"
  /\ created' = TRUE
  /\ torn' = FALSE
  /\ pc' = [pc EXCEPT ![r] = "unlink"]
  /\ UNCHANGED <<experiment, rows, summary, progress, lock, job, memory, readers>>

\* Faulty variant: the previous summary stays.
UnlinkSkipped(r) ==
  /\ pc[r] = "unlink"
  /\ pc' = [pc EXCEPT ![r] = "open"]
  /\ UNCHANGED <<files, lock, job, memory, readers>>

\* "A previous final summary must not look current during resumed execution."
Unlink(r) ==
  /\ pc[r] = "unlink"
  /\ summary' = None
  /\ pc' = [pc EXCEPT ![r] = "open"]
  /\ UNCHANGED <<experiment, created, rows, torn, progress, lock, job, memory, readers>>

\* Faulty variants: the run being written counts; the last index is written.
PublishesAhead(r) ==
  progress' = [state |-> state[r],
               completed |-> Len(kept[r]) + IF record[r] = None THEN 0 ELSE 1]

PublishesIndex(r) == progress' = [state |-> state[r], completed |-> Len(kept[r]) - 1]

\* publish() of runner r.
Publishes(r) == progress' = [state |-> state[r], completed |-> Len(kept[r])]

\* runs.jsonl is opened for appending and the first progress is published.
Open(r) ==
  /\ pc[r] = "open"
  /\ Publishes(r)
  /\ pc' = [pc EXCEPT ![r] = "loop"]
  /\ UNCHANGED <<results, lock, job, memory, readers>>

\* An interrupt or an I/O error before the body starts.
Abort(r) == pc[r] \in Opening /\ Abandon(r)

-----------------------------------------------------------------------------
(* The body of run_scenarios *)

Missing(r) == {n \in DOMAIN Plan[ident[r]] : Plan[ident[r]][n] \notin RunsIn(kept[r])}

\* The next missing run has been executed and append() writes its record.
Write(r) ==
  /\ pc[r] = "loop"
  /\ \E n \in Missing(r) :
       /\ \A k \in Missing(r) : n <= k
       /\ record' = [record EXCEPT ![r] = Plan[ident[r]][n]]
  /\ pc' = [pc EXCEPT ![r] = "writing"]
  /\ UNCHANGED <<files, lock, job, kept, state, readers>>

\* The record in r's buffer reaches the file.  Behind a torn piece it only
\* completes an unreadable line.
Land(r) ==
  /\ rows' = Append(rows, IF torn THEN Corrupt ELSE [run |-> record[r], identity |-> ident[r]])
  /\ torn' = FALSE

\* Faulty variant: append() does not flush.
CommitUnflushed(r) ==
  /\ pc[r] = "writing"
  /\ pc' = [pc EXCEPT ![r] = "committed"]
  /\ UNCHANGED <<files, lock, job, memory, readers>>

\* flush() and fsync() returned.
Commit(r) ==
  /\ pc[r] = "writing"
  /\ Land(r)
  /\ pc' = [pc EXCEPT ![r] = "committed"]
  /\ UNCHANGED <<experiment, created, summary, progress, lock, job, memory, readers>>

\* rows and completed follow the file.
Remember(r) ==
  /\ pc[r] = "committed"
  /\ kept' = [kept EXCEPT ![r] = Append(@, [run |-> record[r], identity |-> ident[r]])]
  /\ record' = [record EXCEPT ![r] = None]
  /\ pc' = [pc EXCEPT ![r] = IF (Len(kept[r]) + 1) % Interval = 0 THEN "publish" ELSE "loop"]
  /\ UNCHANGED <<files, lock, job, state, readers>>

Publish(r) ==
  /\ pc[r] = "publish"
  /\ Publishes(r)
  /\ pc' = [pc EXCEPT ![r] = "loop"]
  /\ UNCHANGED <<results, lock, job, memory, readers>>

\* Every planned run is in memory: aggregate_results and summary.json.
Summarise(r) ==
  /\ pc[r] = "loop"
  /\ Missing(r) = {}
  /\ summary' = kept[r]
  /\ pc' = [pc EXCEPT ![r] = "finalise"]
  /\ UNCHANGED <<experiment, created, rows, torn, progress, lock, job, memory, readers>>

\* experiment.json is written again and the checkpoint is marked completed.
Finalise(r) ==
  /\ pc[r] = "finalise"
  /\ experiment' = ident[r]
  /\ state' = [state EXCEPT ![r] = "completed"]
  /\ pc' = [pc EXCEPT ![r] = "saved"]
  /\ UNCHANGED <<created, rows, torn, summary, progress, lock, job, kept, record, readers>>

Leave(r) ==
  /\ pc[r] = "saved"
  /\ pc' = [pc EXCEPT ![r] = "closing"]
  /\ UNCHANGED <<files, lock, job, memory, readers>>

-----------------------------------------------------------------------------
(* Leaving: _RunCheckpoint.__exit__, and being killed *)

\* An execution raises, an I/O call fails or the user interrupts the body.  A
\* record that was not flushed stays in the stream's buffer.
Interrupt(r) ==
  /\ pc[r] \in Body
  /\ state' = [state EXCEPT ![r] = "interrupted"]
  /\ record' = [record EXCEPT ![r] = IF pc[r] = "writing" THEN @ ELSE None]
  /\ pc' = [pc EXCEPT ![r] = "closing"]
  /\ UNCHANGED <<files, lock, job, kept, readers>>

PublishLast(r) ==
  /\ pc[r] = "closing"
  /\ Publishes(r)
  /\ pc' = [pc EXCEPT ![r] = "unlocking"]
  /\ UNCHANGED <<results, lock, job, memory, readers>>

\* publish() raises; its finally clause still closes and unlocks.
PublishFails(r) ==
  /\ pc[r] = "closing"
  /\ pc' = [pc EXCEPT ![r] = "unlocking"]
  /\ UNCHANGED <<files, lock, job, memory, readers>>

\* What becomes of a record in the buffer: all of it, a piece or nothing is
\* written.
Spill(r) ==
  \/ Land(r)
  \/ torn' \in {torn, TRUE} /\ UNCHANGED rows

Buffered(r) == record[r] # None /\ pc[r] # "committed"

\* The stream is closed, which flushes the buffer, and the lock is given back.
Close(r) ==
  /\ pc[r] = "unlocking"
  /\ IF Buffered(r) THEN Spill(r) ELSE UNCHANGED <<rows, torn>>
  /\ Exit(r)
  /\ lock' = None
  /\ UNCHANGED <<experiment, created, summary, progress, readers>>

\* The process is killed: the operating system drops its lock.
Crash(r) ==
  /\ pc[r] \in Holding
  /\ IF Buffered(r) THEN Spill(r) ELSE UNCHANGED <<rows, torn>>
  /\ Exit(r)
  /\ lock' = None
  /\ UNCHANGED <<experiment, created, summary, progress, readers>>

-----------------------------------------------------------------------------
(* checkpoint_status *)

\* Without progress.json the query raises FileNotFoundError.
ReadProgress(q) ==
  /\ step[q] = "idle"
  /\ progress # None
  /\ seen' = [seen EXCEPT ![q] = progress]
  /\ report' = [report EXCEPT ![q] = None]
  /\ step' = [step EXCEPT ![q] = "rows"]
  /\ UNCHANGED <<files, lock, pc, job, memory, counted>>

ReadRows(q) ==
  /\ step[q] = "rows"
  /\ Corrupt \notin {rows[n] : n \in DOMAIN rows}
  /\ counted' = [counted EXCEPT ![q] = Len(rows)]
  /\ step' = [step EXCEPT ![q] = "probe"]
  /\ UNCHANGED <<files, lock, pc, job, memory, seen, report>>

\* Faulty variant: progress.json is read after the records were counted.
AnswerRereads(q, active) ==
  /\ report' = [report EXCEPT ![q] =
       [state |-> IF progress.state = "running" /\ ~active THEN "interrupted"
                                                           ELSE progress.state,
        completed |-> counted[q],
        active |-> active]]
  /\ step' = [step EXCEPT ![q] = "idle"]
  /\ seen' = [seen EXCEPT ![q] = None]
  /\ counted' = [counted EXCEPT ![q] = 0]
  /\ UNCHANGED <<files, pc, job, memory>>

Answer(q, active) ==
  /\ report' = [report EXCEPT ![q] =
       [state |-> IF seen[q].state = "running" /\ ~active THEN "interrupted"
                                                          ELSE seen[q].state,
        completed |-> counted[q],
        active |-> active]]
  /\ step' = [step EXCEPT ![q] = "idle"]
  /\ seen' = [seen EXCEPT ![q] = None]
  /\ counted' = [counted EXCEPT ![q] = 0]
  /\ UNCHANGED <<files, pc, job, memory>>

\* Somebody holds the lock: the reader calls that an active runner.
ProbeBusy(q) ==
  /\ step[q] = "probe"
  /\ lock # None
  /\ Answer(q, TRUE)
  /\ UNCHANGED lock

\* The lock is free: the reader has it until it unlocks.
ProbeFree(q) ==
  /\ step[q] = "probe"
  /\ lock = None
  /\ lock' = q
  /\ step' = [step EXCEPT ![q] = "held"]
  /\ UNCHANGED <<files, pc, job, memory, seen, counted, report>>

Unlock(q) ==
  /\ step[q] = "held"
  /\ lock' = None
  /\ Answer(q, FALSE)

-----------------------------------------------------------------------------

Init ==
  /\ experiment = None /\ created = FALSE /\ rows = <<>> /\ torn = FALSE
  /\ summary = None /\ progress = None /\ lock = None
  /\ pc = [r \in Runner |-> "idle"]
  /\ resume = [r \in Runner |-> FALSE]
  /\ ident = [r \in Runner |-> None]
  /\ kept = [r \in Runner |-> <<>>]
  /\ record = [r \in Runner |-> None]
  /\ state = [r \in Runner |-> "running"]
  /\ step = [q \in Reader |-> "idle"]
  /\ seen = [q \in Reader |-> None]
  /\ counted = [q \in Reader |-> 0]
  /\ report = [q \in Reader |-> None]

Enter(r) ==
  \/ Lock(r) \/ Refuse(r) \/ RejectFresh(r) \/ AcceptFresh(r) \/ Describe(r) \/ Touch(r)
  \/ RejectResume(r) \/ AcceptResume(r) \/ Truncate(r) \/ Unlink(r) \/ Open(r)

Work(r) ==
  \/ Write(r) \/ Commit(r) \/ Remember(r) \/ Publish(r)
  \/ Summarise(r) \/ Finalise(r) \/ Leave(r)

Fault(r) == Abort(r) \/ Interrupt(r) \/ PublishFails(r) \/ Crash(r)

\* What a runner that nothing disturbs does once it is started.
Proceed(r) == Enter(r) \/ Work(r) \/ PublishLast(r) \/ Close(r)

Query(q) == ReadProgress(q) \/ ReadRows(q) \/ ProbeBusy(q) \/ ProbeFree(q) \/ Unlock(q)

Next ==
  \/ \E r \in Runner :
       \/ \E again \in BOOLEAN, i \in Identity : Start(r, again, i)
       \/ Proceed(r)
       \/ Fault(r)
  \/ \E q \in Reader : Query(q)

Spec == Init /\ [][Next]_vars

-----------------------------------------------------------------------------
(* Properties *)

TypeOK ==
  /\ experiment \in Identity \cup {None}
  /\ created \in BOOLEAN /\ torn \in BOOLEAN
  /\ rows \in Seq(Record \cup {Corrupt})
  /\ summary \in Seq(Record \cup {Corrupt}) \cup {None}
  /\ progress \in Progress \cup {None}
  /\ lock \in Runner \cup Reader \cup {None}
  /\ pc \in [Runner -> {"idle", "opening"} \cup Holding]
  /\ resume \in [Runner -> BOOLEAN]
  /\ ident \in [Runner -> Identity \cup {None}]
  /\ kept \in [Runner -> Seq(Record \cup {Corrupt})]
  /\ record \in [Runner -> Run \cup {None}]
  /\ state \in [Runner -> State]
  /\ step \in [Reader -> {"idle", "rows", "probe", "held"}]
  /\ seen \in [Reader -> Progress \cup {None}]
  /\ counted \in [Reader -> Nat]
  /\ report \in [Reader -> Report \cup {None}]

\* Mutual exclusion over the output directory, whatever is killed or refused:
\* exactly the owner of the lock is between taking and returning it, so the
\* files have one writer and no dead or refused process keeps the lock.
OneWriter ==
  /\ \A r \in Runner : pc[r] \in Holding <=> lock = r
  /\ \A q \in Reader : step[q] = "held" <=> lock = q

\* Across crashes, interrupts and resumes, runs.jsonl holds each planned run at
\* most once, all of them of the experiment that experiment.json describes, and
\* no record is glued to a torn one.
RowsIntact ==
  /\ \A n \in DOMAIN rows :
       /\ rows[n].identity = experiment
       /\ rows[n].run \in Expected(experiment)
  /\ \A m, n \in DOMAIN rows : rows[m].run = rows[n].run => m = n

\* What a running checkpoint remembers is what the file holds: a run is counted
\* in memory only after its record is on disk.
MemoryFollowsFile ==
  \A r \in Runner :
    /\ pc[r] \in Body \ {"committed"} => kept[r] = rows
    /\ pc[r] = "committed" =>
         rows = Append(kept[r], [run |-> record[r], identity |-> ident[r]])

\* "A previous final summary must not look current during resumed execution":
\* while runs are executed there is no summary, and a summary always covers
\* every planned run and every record of the file.
SummaryFinal ==
  /\ summary # None => summary = rows /\ RunsIn(rows) = Expected(experiment)
  /\ \A r \in Runner : pc[r] \in {"loop", "writing", "committed", "publish"} => summary = None

\* progress.json never promises more than the file holds, and "completed" means
\* that every planned run is recorded.
ProgressCovered ==
  progress # None =>
    /\ progress.completed <= Len(rows)
    /\ progress.state = "completed" => RunsIn(rows) = Expected(experiment)

\* An answer of checkpoint_status composed from three reads at three moments is
\* consistent: "completed" comes with all runs counted, "running" with an
\* active process, and no answer counts a record that is not there.
ReportConsistent ==
  \A q \in Reader : report[q] # None =>
    /\ report[q].completed <= Len(rows)
    /\ report[q].state = "completed" => report[q].completed = Len(Plan[experiment])
    /\ report[q].state = "running" => report[q].active

\* Committed results outlive everything: runs.jsonl only grows at its end, and
\* a directory that belongs to an experiment belongs to it for ever.
NothingOverwritten ==
  [][/\ SubSeq(rows', 1, Len(rows)) = rows
     /\ experiment # None => experiment' = experiment]_vars

\* The directory is an experiment log: see ExperimentLog.
Log == INSTANCE ExperimentLog WITH
  identity <- experiment,
  done     <- [n \in DOMAIN rows |-> rows[n].run],
  final    <- summary # None

ImplementsLog == Log!Spec

\* The exception of a refused runner says that another runner uses the
\* directory.
RefusedByRunner == [][\A r \in Runner : Refuse(r) => lock \in Runner]_vars

-----------------------------------------------------------------------------
(* Liveness *)

\* A started process keeps going, and somebody keeps starting both a fresh and
\* a resumed run of every identity.
Fairness ==
  /\ \A r \in Runner :
       /\ WF_vars(Proceed(r))
       /\ \A again \in BOOLEAN, i \in Identity : SF_vars(Start(r, again, i))
  /\ \A q \in Reader : WF_vars(ReadRows(q) \/ ProbeBusy(q) \/ ProbeFree(q) \/ Unlock(q))

LiveSpec == Spec /\ Fairness

\* A process that takes the lock gives it back.
LockReturned == \A p \in Runner \cup Reader : lock = p ~> lock # p

Undisturbed ==
  \E r \in Runner : (\E again \in BOOLEAN, i \in Identity : Start(r, again, i)) \/ Proceed(r)

Summarised == summary # None /\ RunsIn(summary) = Expected(experiment)

\* However often runs were killed or interrupted before, once that stops (and
\* nobody asks for the status) the experiment is completed, again after every
\* resume.
EventuallySummarised == <>[][Undisturbed]_vars => []<>Summarised

=============================================================================
