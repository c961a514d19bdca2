----------------------- MODULE RunnerCheckpointProofs -----------------------
(***************************************************************************)
(* Proofs about RunnerCheckpoint, for every set of runners, readers,       *)
(* experiments and runs, and every checkpoint interval.                    *)
(***************************************************************************)
EXTENDS RunnerCheckpoint, FiniteSetTheorems, TLAPS

USE PlanAssumption, NoneAssumption, ProcessAssumption, IntervalAssumption

-----------------------------------------------------------------------------
(* The inductive invariant *)

\* What the files say about each other.
Directory ==
  /\ experiment = None => FreshAllowed /\ rows = <<>> /\ ~torn
  /\ RowsIntact
  /\ summary # None => summary = rows /\ RunsIn(rows) = Expected(experiment)
  /\ ProgressCovered

\* What a runner has in memory, by the place where it is.
Own(r) ==
  /\ pc[r] # "idle" => ident[r] \in Identity
  /\ pc[r] \in {"idle", "opening", "locked", "describe", "touch"} => kept[r] = <<>>
  /\ record[r] # None => pc[r] \in {"writing", "committed"} \cup Leaving
  /\ pc[r] \in {"writing", "committed"} => record[r] # None
  /\ pc[r] \notin {"saved"} \cup Leaving => state[r] = "running"

\* A record that is not in the file yet can still be appended to it.
Appendable(r) ==
  /\ ~torn /\ summary = None
  /\ record[r] \in Expected(ident[r]) \ RunsIn(rows)

\* What the holder of the lock knows about the directory.
Held(r) ==
  /\ pc[r] = "describe" => FreshAllowed /\ experiment = None
  /\ pc[r] \in Holding \ {"locked", "describe"} => experiment = ident[r]
  /\ pc[r] = "touch" => rows = <<>> /\ ~torn /\ summary = None
  /\ pc[r] \in {"truncate", "unlink", "open"} \cup (Body \ {"committed"}) => kept[r] = rows
  /\ pc[r] = "committed" =>
       rows = Append(kept[r], [run |-> record[r], identity |-> ident[r]])
  /\ pc[r] \in {"unlink", "open"} \cup Body => ~torn
  /\ pc[r] \in {"open", "loop", "writing", "committed", "publish"} => summary = None
  /\ pc[r] = "writing" => Appendable(r)
  /\ pc[r] \in {"finalise", "saved"} => RunsIn(rows) = Expected(ident[r])
  /\ pc[r] \in Leaving =>
       /\ Len(kept[r]) <= Len(rows)
       /\ record[r] # None => Appendable(r)
       /\ state[r] = "completed" => RunsIn(rows) = Expected(ident[r])

\* What a reader has read still holds.
Reading(q) ==
  /\ step[q] # "idle" =>
       /\ seen[q] # None /\ experiment # None
       /\ seen[q].state = "completed" => RunsIn(rows) = Expected(experiment)
  /\ step[q] \in {"probe", "held"} =>
       /\ counted[q] <= Len(rows)
       /\ seen[q].state = "completed" => counted[q] = Len(Plan[experiment])
  /\ report[q] # None =>
       /\ experiment # None
       /\ report[q].completed <= Len(rows)
       /\ report[q].state = "completed" => report[q].completed = Len(Plan[experiment])
       /\ report[q].state = "running" => report[q].active

IInv ==
  /\ TypeOK
  /\ OneWriter
  /\ Directory
  /\ \A r \in Runner : Own(r) /\ Held(r)
  /\ \A q \in Reader : Reading(q)

-----------------------------------------------------------------------------

LEMMA InitTypeOK == Init => TypeOK
  <1> SUFFICES ASSUME Init PROVE TypeOK
    OBVIOUS
  <1> USE DEF Init
  <1>1. rows \in Seq(Record \cup {Corrupt}) /\ kept \in [Runner -> Seq(Record \cup {Corrupt})]
    OBVIOUS
  <1>2. pc \in [Runner -> {"idle", "opening"} \cup Holding] /\ state \in [Runner -> State]
    BY DEF State
  <1>3. /\ resume \in [Runner -> BOOLEAN]
        /\ ident \in [Runner -> Identity \cup {None}]
        /\ record \in [Runner -> Run \cup {None}]
    OBVIOUS
  <1>4. /\ step \in [Reader -> {"idle", "rows", "probe", "held"}]
        /\ seen \in [Reader -> Progress \cup {None}]
        /\ counted \in [Reader -> Nat]
        /\ report \in [Reader -> Report \cup {None}]
    OBVIOUS
  <1> QED
    BY <1>1, <1>2, <1>3, <1>4 DEF TypeOK

LEMMA InitOneWriter == Init => OneWriter
  BY DEF Init, OneWriter, Holding, Opening, Body, Leaving

\* A step of a runner keeps the types.
LEMMA EnterTypeOK ==
  ASSUME TypeOK, NEW r \in Runner, Enter(r)
  PROVE  TypeOK'
  <1> USE DEF TypeOK, Holding, Opening, Body, Leaving, State, files, results, job, memory,
              readers, Exit, Abandon
  <1>1. CASE Lock(r)         BY <1>1 DEF Lock
  <1>2. CASE Refuse(r)       BY <1>2 DEF Refuse
  <1>3. CASE RejectFresh(r)  BY <1>3 DEF RejectFresh
  <1>4. CASE AcceptFresh(r)  BY <1>4 DEF AcceptFresh
  <1>5. CASE Describe(r)     BY <1>5 DEF Describe
  <1>6. CASE Touch(r)        BY <1>6 DEF Touch
  <1>7. CASE RejectResume(r) BY <1>7 DEF RejectResume
  <1>8. CASE AcceptResume(r) BY <1>8 DEF AcceptResume
  <1>9. CASE Truncate(r)     BY <1>9 DEF Truncate
  <1>10. CASE Unlink(r)      BY <1>10 DEF Unlink
  <1>11. CASE Open(r)        BY <1>11 DEF Open, Publishes, Progress
  <1> HIDE DEF TypeOK, Holding, Opening, Body, Leaving, State, files, results, job, memory,
              readers, Exit, Abandon
  <1> QED
    BY Enter(r), <1>1, <1>2, <1>3, <1>4, <1>5, <1>6, <1>7, <1>8, <1>9, <1>10, <1>11 DEF Enter

LEMMA LandType ==
  ASSUME TypeOK, NEW r \in Runner, record[r] # None, ident[r] # None
  PROVE  Land(r) => rows' \in Seq(Record \cup {Corrupt}) /\ torn' \in BOOLEAN
  <1> DEFINE line == IF torn THEN Corrupt ELSE [run |-> record[r], identity |-> ident[r]]
  <1>1. [run |-> record[r], identity |-> ident[r]] \in Record
    BY DEF TypeOK, Record
  <1>2. line \in Record \cup {Corrupt}
    BY <1>1
  <1>3. rows \in Seq(Record \cup {Corrupt})
    BY DEF TypeOK
  <1> HIDE DEF line
  <1>4. Append(rows, line) \in Seq(Record \cup {Corrupt})
    BY <1>2, <1>3
  <1> QED
    BY <1>4 DEF Land, line

LEMMA SpillType ==
  ASSUME TypeOK, NEW r \in Runner, record[r] # None, ident[r] # None
  PROVE  Spill(r) => rows' \in Seq(Record \cup {Corrupt}) /\ torn' \in BOOLEAN
  BY LandType DEF TypeOK, Spill

LEMMA WorkTypeOK ==
  ASSUME TypeOK, NEW r \in Runner, Own(r), Work(r)
  PROVE  TypeOK'
  <1> USE DEF TypeOK, Holding, Opening, Body, Leaving, State, files, results, job, memory, readers
  <1>0. pc[r] # "idle" => ident[r] \in Identity
    BY DEF Own
  <1>1. CASE Write(r)
    <2>1. PICK n \in DOMAIN Plan[ident[r]] : record' = [record EXCEPT ![r] = Plan[ident[r]][n]]
      BY <1>1 DEF Write, Missing
    <2>2. Plan[ident[r]][n] \in Run
      BY <1>0, <1>1 DEF Write, PlanAssumption
    <2> QED
      BY <1>1, <2>1, <2>2 DEF Write
  <1>2. CASE Commit(r)
    <2>1. rows' \in Seq(Record \cup {Corrupt}) /\ torn' \in BOOLEAN
      BY <1>0, <1>2, LandType DEF Commit, Own, NoneAssumption
    <2> QED
      BY <1>2, <2>1 DEF Commit
  <1>3. CASE Remember(r)
    <2>1. [run |-> record[r], identity |-> ident[r]] \in Record
      BY <1>0, <1>3 DEF Remember, Own, Record
    <2>2. kept' \in [Runner -> Seq(Record \cup {Corrupt})]
      BY <1>3, <2>1 DEF Remember
    <2> QED
      BY <1>3, <2>2 DEF Remember
  <1>4. CASE Publish(r)    BY <1>4 DEF Publish, Publishes, Progress
  <1>5. CASE Summarise(r)  BY <1>5 DEF Summarise
  <1>6. CASE Finalise(r)   BY <1>6 DEF Finalise
  <1>7. CASE Leave(r)      BY <1>7 DEF Leave
  <1> HIDE DEF TypeOK, Holding, Opening, Body, Leaving, State, files, results, job, memory, readers
  <1> QED
    BY <1>1, <1>2, <1>3, <1>4, <1>5, <1>6, <1>7 DEF Work

LEMMA EndTypeOK ==
  ASSUME TypeOK, NEW r \in Runner, Own(r), PublishLast(r) \/ Close(r) \/ Fault(r)
  PROVE  TypeOK'
  <1> USE DEF TypeOK, Holding, Opening, Body, Leaving, State, files, results, job, memory, readers
  <1>0. /\ pc[r] # "idle" => ident[r] # None
        /\ Buffered(r) => record[r] # None
    BY DEF Own, Buffered, NoneAssumption
  <1>1. CASE PublishLast(r)  BY <1>1 DEF PublishLast, Publishes, Progress
  <1>2. CASE Close(r)
    <2>1. rows' \in Seq(Record \cup {Corrupt}) /\ torn' \in BOOLEAN
      BY <1>0, <1>2, SpillType DEF Close
    <2> QED
      BY <1>2, <2>1 DEF Close, Exit
  <1>3. CASE Crash(r)
    <2>1. rows' \in Seq(Record \cup {Corrupt}) /\ torn' \in BOOLEAN
      BY <1>0, <1>3, SpillType DEF Crash
    <2> QED
      BY <1>3, <2>1 DEF Crash, Exit
  <1>4. CASE Abort(r)        BY <1>4 DEF Abort, Abandon, Exit
  <1>5. CASE Interrupt(r)    BY <1>5 DEF Interrupt
  <1>6. CASE PublishFails(r) BY <1>6 DEF PublishFails
  <1> QED
    BY <1>1, <1>2, <1>3, <1>4, <1>5, <1>6 DEF Fault

LEMMA QueryTypeOK ==
  ASSUME TypeOK, NEW q \in Reader, Reading(q), Query(q)
  PROVE  TypeOK'
  <1> USE DEF TypeOK, files, results, job, memory, Reading
  <1>1. CASE ReadProgress(q)  BY <1>1 DEF ReadProgress
  <1>2. CASE ReadRows(q)      BY <1>2 DEF ReadRows
  <1>3. ASSUME NEW active \in BOOLEAN, step[q] # "idle", Answer(q, active),
               lock' \in Runner \cup Reader \cup {None}
        PROVE  TypeOK'
    <2>1. seen[q] \in Progress
      BY <1>3
    <2>2. [state |-> IF seen[q].state = "running" /\ ~active THEN "interrupted" ELSE seen[q].state,
           completed |-> counted[q], active |-> active] \in Report
      BY <2>1 DEF Progress, Report, State
    <2> QED
      BY <1>3, <2>2 DEF Answer
  <1>4. CASE ProbeBusy(q)     BY <1>3, <1>4 DEF ProbeBusy
  <1>5. CASE ProbeFree(q)     BY <1>5 DEF ProbeFree
  <1>6. CASE Unlock(q)        BY <1>3, <1>6 DEF Unlock
  <1> HIDE DEF TypeOK, files, results, job, memory, Reading
  <1> QED
    BY <1>1, <1>2, <1>4, <1>5, <1>6 DEF Query

LEMMA StartTypeOK ==
  ASSUME TypeOK, NEW r \in Runner, NEW again \in BOOLEAN, NEW i \in Identity, Start(r, again, i)
  PROVE  TypeOK'
  BY DEF TypeOK, Start, files, results, memory, readers

-----------------------------------------------------------------------------
(* One writer *)

LEMMA RunnerOneWriter ==
  ASSUME TypeOK, OneWriter, NEW r \in Runner, Proceed(r) \/ Fault(r)
  PROVE  OneWriter'
  <1> USE DEF TypeOK, OneWriter, Holding, Opening, Body, Leaving, job, memory, readers,
              files, results, Exit, Abandon
  <1>1. CASE Lock(r)         BY <1>1 DEF Lock, NoneAssumption, ProcessAssumption
  <1>2. CASE Refuse(r)       BY <1>2 DEF Refuse
  <1>3. CASE RejectFresh(r)  BY <1>3 DEF RejectFresh, NoneAssumption, ProcessAssumption
  <1>4. CASE AcceptFresh(r)  BY <1>4 DEF AcceptFresh
  <1>5. CASE Describe(r)     BY <1>5 DEF Describe
  <1>6. CASE Touch(r)        BY <1>6 DEF Touch
  <1>7. CASE RejectResume(r) BY <1>7 DEF RejectResume, NoneAssumption, ProcessAssumption
  <1>8. CASE AcceptResume(r) BY <1>8 DEF AcceptResume
  <1>9. CASE Truncate(r)     BY <1>9 DEF Truncate
  <1>10. CASE Unlink(r)      BY <1>10 DEF Unlink
  <1>11. CASE Open(r)        BY <1>11 DEF Open
  <1>12. CASE Write(r)       BY <1>12 DEF Write
  <1>13. CASE Commit(r)      BY <1>13 DEF Commit
  <1>14. CASE Remember(r)    BY <1>14 DEF Remember
  <1>15. CASE Publish(r)     BY <1>15 DEF Publish
  <1>16. CASE Summarise(r)   BY <1>16 DEF Summarise
  <1>17. CASE Finalise(r)    BY <1>17 DEF Finalise
  <1>18. CASE Leave(r)       BY <1>18 DEF Leave
  <1>19. CASE PublishLast(r) BY <1>19 DEF PublishLast
  <1>20. CASE Close(r)       BY <1>20 DEF Close, NoneAssumption, ProcessAssumption
  <1>21. CASE Abort(r)       BY <1>21 DEF Abort, NoneAssumption, ProcessAssumption
  <1>22. CASE Interrupt(r)   BY <1>22 DEF Interrupt
  <1>23. CASE PublishFails(r) BY <1>23 DEF PublishFails
  <1>24. CASE Crash(r)       BY <1>24 DEF Crash, NoneAssumption, ProcessAssumption
  <1> QED
    BY <1>1, <1>2, <1>3, <1>4, <1>5, <1>6, <1>7, <1>8, <1>9, <1>10, <1>11, <1>12, <1>13, <1>14,
       <1>15, <1>16, <1>17, <1>18, <1>19, <1>20, <1>21, <1>22, <1>23, <1>24
       DEF Proceed, Enter, Work, Fault

LEMMA QueryOneWriter ==
  ASSUME TypeOK, OneWriter, NEW q \in Reader, Query(q)
  PROVE  OneWriter'
  <1> USE DEF TypeOK, OneWriter, Holding, Opening, Body, Leaving, job, memory
  <1>1. CASE ReadProgress(q)  BY <1>1 DEF ReadProgress
  <1>2. CASE ReadRows(q)      BY <1>2 DEF ReadRows
  <1>3. CASE ProbeBusy(q)     BY <1>3 DEF ProbeBusy, Answer
  <1>4. CASE ProbeFree(q)     BY <1>4 DEF ProbeFree, NoneAssumption, ProcessAssumption
  <1>5. CASE Unlock(q)        BY <1>5 DEF Unlock, Answer, NoneAssumption, ProcessAssumption
  <1> QED
    BY <1>1, <1>2, <1>3, <1>4, <1>5 DEF Query

-----------------------------------------------------------------------------
(* What a step does elsewhere *)

\* Only the holder of the lock writes files.
WritesAs(r) == UNCHANGED files \/ pc[r] \in Holding

\* A step of runner r leaves what the others have in memory alone.
Elsewhere(r) ==
  /\ \A x \in Runner \ {r} :
       /\ pc'[x] = pc[x] /\ ident'[x] = ident[x]
       /\ kept'[x] = kept[x] /\ record'[x] = record[x] /\ state'[x] = state[x]
  /\ UNCHANGED readers
  /\ WritesAs(r)

LEMMA StepElsewhere ==
  ASSUME TypeOK, NEW r \in Runner,
         Proceed(r) \/ Fault(r) \/ \E again \in BOOLEAN, i \in Identity : Start(r, again, i)
  PROVE  Elsewhere(r)
  <1> USE DEF TypeOK, Elsewhere, WritesAs, Holding, Opening, Body, Leaving, job, memory,
              readers, files, results, Exit, Abandon
  <1>1. CASE Lock(r)         BY <1>1 DEF Lock
  <1>2. CASE Refuse(r)       BY <1>2 DEF Refuse
  <1>3. CASE RejectFresh(r)  BY <1>3 DEF RejectFresh
  <1>4. CASE AcceptFresh(r)  BY <1>4 DEF AcceptFresh
  <1>5. CASE Describe(r)     BY <1>5 DEF Describe
  <1>6. CASE Touch(r)        BY <1>6 DEF Touch
  <1>7. CASE RejectResume(r) BY <1>7 DEF RejectResume
  <1>8. CASE AcceptResume(r) BY <1>8 DEF AcceptResume
  <1>9. CASE Truncate(r)     BY <1>9 DEF Truncate
  <1>10. CASE Unlink(r)      BY <1>10 DEF Unlink
  <1>11. CASE Open(r)        BY <1>11 DEF Open
  <1>12. CASE Write(r)       BY <1>12 DEF Write
  <1>13. CASE Commit(r)      BY <1>13 DEF Commit
  <1>14. CASE Remember(r)    BY <1>14 DEF Remember
  <1>15. CASE Publish(r)     BY <1>15 DEF Publish
  <1>16. CASE Summarise(r)   BY <1>16 DEF Summarise
  <1>17. CASE Finalise(r)    BY <1>17 DEF Finalise
  <1>18. CASE Leave(r)       BY <1>18 DEF Leave
  <1>19. CASE PublishLast(r) BY <1>19 DEF PublishLast
  <1>20. CASE Close(r)       BY <1>20 DEF Close
  <1>21. CASE Abort(r)       BY <1>21 DEF Abort
  <1>22. CASE Interrupt(r)   BY <1>22 DEF Interrupt
  <1>23. CASE PublishFails(r) BY <1>23 DEF PublishFails
  <1>24. CASE Crash(r)       BY <1>24 DEF Crash
  <1>25. ASSUME NEW again \in BOOLEAN, NEW i \in Identity, Start(r, again, i)
         PROVE  Elsewhere(r)
    BY <1>25 DEF Start
  <1> QED
    BY <1>1, <1>2, <1>3, <1>4, <1>5, <1>6, <1>7, <1>8, <1>9, <1>10, <1>11, <1>12, <1>13, <1>14,
       <1>15, <1>16, <1>17, <1>18, <1>19, <1>20, <1>21, <1>22, <1>23, <1>24, <1>25
       DEF Proceed, Enter, Work, Fault

\* A runner that does not hold the lock expects nothing of the directory.
LEMMA NotHolding ==
  ASSUME NEW r \in Runner, pc[r] \notin Holding
  PROVE  Held(r)
  BY DEF Held, Holding, Opening, Body, Leaving

\* While one runner moves, the others know what they knew.
LEMMA OthersKeep ==
  ASSUME IInv, NEW r \in Runner, Elsewhere(r), NEW x \in Runner \ {r}
  PROVE  Own(x)' /\ Held(x)'
  <1>1. Own(x)'
    BY DEF IInv, Own, Elsewhere, Leaving
  <1>2. CASE pc[r] \in Holding
    <2>1. pc[x] \notin Holding
      BY <1>2 DEF IInv, OneWriter
    <2>2. pc'[x] \notin Holding
      BY <2>1 DEF Elsewhere
    <2> QED
      BY <1>1, <2>2 DEF Held, Holding, Opening, Body, Leaving
  <1>3. CASE UNCHANGED files
    <2>1. /\ UNCHANGED <<experiment, created, rows, torn, summary, progress>>
          /\ pc'[x] = pc[x] /\ ident'[x] = ident[x]
          /\ kept'[x] = kept[x] /\ record'[x] = record[x] /\ state'[x] = state[x]
      BY <1>3 DEF Elsewhere, files, results
    <2>2. /\ RunsIn(rows)' = RunsIn(rows)
          /\ FreshAllowed' = FreshAllowed
          /\ Expected(ident[x])' = Expected(ident[x])
          /\ Appendable(x)' = Appendable(x)
      BY <2>1 DEF RunsIn, FreshAllowed, Expected, Appendable
    <2>3. Held(x)
      BY DEF IInv
    <2> QED
      BY <1>1, <2>1, <2>2, <2>3 DEF Held
  <1> QED
    BY <1>2, <1>3 DEF Elsewhere, WritesAs

-----------------------------------------------------------------------------
(* The directory, and the runner that moves *)

LEMMA StartHere ==
  ASSUME IInv, NEW r \in Runner, NEW again \in BOOLEAN, NEW i \in Identity, Start(r, again, i)
  PROVE  Own(r)' /\ Held(r)'
  <1>1. pc'[r] = "opening" /\ ident'[r] = i /\ UNCHANGED <<kept, record, state>>
    BY DEF IInv, TypeOK, Start, memory
  <1>2. Own(r)
    BY DEF IInv
  <1> QED
    BY <1>1, <1>2 DEF Start, Own, Held, Holding, Opening, Body, Leaving

\* Entering changes what a runner knows one file at a time.
LEMMA EnterHere ==
  ASSUME IInv, NEW r \in Runner, Enter(r)
  PROVE  Own(r)' /\ Held(r)'
  <1> USE DEF IInv, TypeOK
  <1>0. Own(r) /\ Held(r)
    OBVIOUS
  <1>1. CASE Lock(r)
    <2>1. pc'[r] = "locked" /\ UNCHANGED <<files, job, memory>>
      BY <1>1 DEF Lock
    <2> QED
      BY <1>0, <1>1, <2>1 DEF Lock, Own, Held, job, memory, Holding, Opening, Body, Leaving
  <1>2. ASSUME Exit(r)
        PROVE  Own(r)' /\ Held(r)'
    BY <1>2 DEF Exit, Own, Held, Holding, Opening, Body, Leaving
  <1>3. CASE Refuse(r) \/ RejectFresh(r) \/ RejectResume(r)
    BY <1>2, <1>3 DEF Refuse, RejectFresh, RejectResume, Abandon
  <1>4. CASE AcceptFresh(r)
    <2>1. /\ pc[r] = "locked" /\ pc'[r] = "describe" /\ UNCHANGED <<files, job, memory>>
          /\ FreshAllowed
      BY <1>4 DEF AcceptFresh
    <2>2. FreshAllowed'
      BY <2>1 DEF FreshAllowed, files, results
    <2> QED
      BY <1>0, <2>1, <2>2 DEF Own, Held, job, memory, FreshAllowed, Holding, Opening, Body, Leaving
  <1>5. CASE Describe(r)
    <2>1. /\ pc[r] = "describe" /\ pc'[r] = "touch" /\ UNCHANGED <<job, memory>>
          /\ experiment' = ident[r] /\ UNCHANGED <<rows, torn, summary>>
      BY <1>5 DEF Describe
    <2>2. rows = <<>> /\ ~torn /\ summary = None
      BY <1>0, <2>1 DEF Held, Directory, FreshAllowed
    <2> QED
      BY <1>0, <2>1, <2>2 DEF Own, Held, job, memory, Holding, Opening, Body, Leaving
  <1>6. CASE Touch(r)
    <2>1. /\ pc[r] = "touch" /\ pc'[r] = "open" /\ UNCHANGED <<job, memory>>
          /\ UNCHANGED <<experiment, rows, torn, summary>>
      BY <1>6 DEF Touch
    <2> QED
      BY <1>0, <2>1 DEF Own, Held, job, memory, Holding, Opening, Body, Leaving
  <1>7. CASE AcceptResume(r)
    <2>1. /\ pc[r] = "locked" /\ pc'[r] = "truncate" /\ kept'[r] = rows
          /\ UNCHANGED <<files, job, record, state>>
          /\ experiment = ident[r]
      BY <1>7 DEF AcceptResume, Resumable
    <2> QED
      BY <1>0, <2>1 DEF Own, Held, files, results, job, Holding, Opening, Body, Leaving
  <1>8. CASE Truncate(r)
    <2>1. /\ pc[r] = "truncate" /\ pc'[r] = "unlink" /\ ~torn'
          /\ UNCHANGED <<experiment, rows, summary, job, memory>>
      BY <1>8 DEF Truncate
    <2> QED
      BY <1>0, <2>1 DEF Own, Held, job, memory, Holding, Opening, Body, Leaving
  <1>9. CASE Unlink(r)
    <2>1. /\ pc[r] = "unlink" /\ pc'[r] = "open" /\ summary' = None
          /\ UNCHANGED <<experiment, rows, torn, job, memory>>
      BY <1>9 DEF Unlink
    <2> QED
      BY <1>0, <2>1 DEF Own, Held, job, memory, Holding, Opening, Body, Leaving
  <1>10. CASE Open(r)
    <2>1. /\ pc[r] = "open" /\ pc'[r] = "loop"
          /\ UNCHANGED <<results, job, memory>>
      BY <1>10 DEF Open
    <2> QED
      BY <1>0, <2>1 DEF Own, Held, results, job, memory, Holding, Opening, Body, Leaving
  <1> QED
    BY <1>1, <1>3, <1>4, <1>5, <1>6, <1>7, <1>8, <1>9, <1>10 DEF Enter

\* A record that can be appended is a line of its own, and new.
Appended(r) ==
  /\ rows' = Append(rows, [run |-> record[r], identity |-> ident[r]])
  /\ torn' = FALSE

LEMMA AppendEffect ==
  ASSUME TypeOK, NEW r \in Runner, Appended(r)
  PROVE  /\ Len(rows') = Len(rows) + 1
         /\ rows'[Len(rows) + 1] = [run |-> record[r], identity |-> ident[r]]
         /\ \A n \in 1..Len(rows) : rows'[n] = rows[n]
         /\ RunsIn(rows') = RunsIn(rows) \cup {record[r]}
  <1> DEFINE line == [run |-> record[r], identity |-> ident[r]]
  <1>1. rows \in Seq(Record \cup {Corrupt}) /\ rows' = Append(rows, line)
    BY DEF TypeOK, Appended
  <1>2. line.run = record[r]
    OBVIOUS
  <1> HIDE DEF line
  <1>3. /\ Len(rows') = Len(rows) + 1
        /\ rows'[Len(rows) + 1] = line
        /\ \A n \in 1..Len(rows) : rows'[n] = rows[n]
        /\ DOMAIN rows' = 1..(Len(rows) + 1) /\ DOMAIN rows = 1..Len(rows) /\ Len(rows) \in Nat
    BY <1>1
  <1>4. RunsIn(rows') = RunsIn(rows) \cup {record[r]}
    BY <1>2, <1>3 DEF RunsIn
  <1> QED
    BY <1>3, <1>4 DEF line

LEMMA WorkHere ==
  ASSUME IInv, NEW r \in Runner, Work(r)
  PROVE  Own(r)' /\ Held(r)'
  <1> USE DEF IInv, TypeOK
  <1>0. Own(r) /\ Held(r)
    OBVIOUS
  <1>1. CASE Write(r)
    <2>1. /\ pc[r] = "loop" /\ pc'[r] = "writing"
          /\ UNCHANGED <<files, job, kept, state>>
      BY <1>1 DEF Write
    <2>2. PICK n \in Missing(r) : record' = [record EXCEPT ![r] = Plan[ident[r]][n]]
      BY <1>1 DEF Write
    <2>3. record'[r] \in Expected(ident[r]) \ RunsIn(kept[r])
      BY <2>2 DEF Missing, Expected
    <2>4. record'[r] # None
      BY <1>0, <2>1, <2>2 DEF Missing, PlanAssumption, NoneAssumption, Own
    <2>5. ~torn /\ summary = None /\ kept[r] = rows
      BY <1>0, <2>1 DEF Held, Body
    <2>6. Appendable(r)'
      BY <2>1, <2>3, <2>5 DEF Appendable, files, results, job
    <2> QED
      BY <1>0, <2>1, <2>4, <2>6 DEF Own, Held, files, results, job, Holding, Opening, Body, Leaving
  <1>2. CASE Commit(r)
    <2>1. /\ pc[r] = "writing" /\ pc'[r] = "committed" /\ Land(r)
          /\ UNCHANGED <<experiment, summary, job, memory>>
      BY <1>2 DEF Commit
    <2>2. kept[r] = rows /\ ~torn
      BY <1>0, <2>1 DEF Held, Body, Appendable
    <2>3. Appended(r)
      BY <2>1, <2>2 DEF Land, Appended
    <2> QED
      BY <1>0, <2>1, <2>2, <2>3 DEF Own, Held, job, memory, Appended, Holding, Opening, Body, Leaving
  <1>3. CASE Remember(r)
    <2>1. /\ pc[r] = "committed" /\ pc'[r] \in {"publish", "loop"}
          /\ kept'[r] = Append(kept[r], [run |-> record[r], identity |-> ident[r]])
          /\ record'[r] = None
          /\ UNCHANGED <<files, job, state>>
      BY <1>3 DEF Remember
    <2> QED
      BY <1>0, <2>1 DEF Own, Held, files, results, job, Holding, Opening, Body, Leaving
  <1>4. CASE Publish(r)
    <2>1. /\ pc[r] = "publish" /\ pc'[r] = "loop" /\ UNCHANGED <<results, job, memory>>
      BY <1>4 DEF Publish
    <2> QED
      BY <1>0, <2>1 DEF Own, Held, results, job, memory, Holding, Opening, Body, Leaving
  <1>5. CASE Summarise(r)
    <2>1. /\ pc[r] = "loop" /\ pc'[r] = "finalise" /\ Missing(r) = {}
          /\ UNCHANGED <<experiment, rows, torn, job, memory>>
      BY <1>5 DEF Summarise
    <2>2. RunsIn(rows) = Expected(ident[r])
      <3>1. kept[r] = rows /\ experiment = ident[r]
        BY <1>0, <2>1 DEF Held, Holding, Body
      <3>2. Expected(ident[r]) \subseteq RunsIn(rows)
        BY <2>1, <3>1 DEF Missing, Expected
      <3>3. RunsIn(rows) \subseteq Expected(ident[r])
        BY <3>1 DEF Directory, RowsIntact, RunsIn
      <3> QED
        BY <3>2, <3>3
    <2> QED
      BY <1>0, <2>1, <2>2 DEF Own, Held, job, memory, Holding, Opening, Body, Leaving
  <1>6. CASE Finalise(r)
    <2>1. /\ pc[r] = "finalise" /\ pc'[r] = "saved" /\ experiment' = ident[r]
          /\ UNCHANGED <<rows, torn, summary, job, kept, record>>
      BY <1>6 DEF Finalise
    <2> QED
      BY <1>0, <2>1 DEF Own, Held, job, Holding, Opening, Body, Leaving
  <1>7. CASE Leave(r)
    <2>1. pc[r] = "saved" /\ pc'[r] = "closing" /\ UNCHANGED <<files, job, memory>>
      BY <1>7 DEF Leave
    <2>2. kept[r] = rows /\ record[r] = None /\ RunsIn(rows) = Expected(ident[r])
      BY <1>0, <2>1 DEF Own, Held, Body, Leaving
    <2>3. Len(rows) <= Len(rows)
      OBVIOUS
    <2> QED
      BY <1>0, <2>1, <2>2, <2>3 DEF Own, Held, files, results, job, memory,
         Holding, Opening, Body, Leaving
  <1> QED
    BY <1>1, <1>2, <1>3, <1>4, <1>5, <1>6, <1>7 DEF Work

LEMMA EndHere ==
  ASSUME IInv, NEW r \in Runner, PublishLast(r) \/ Close(r) \/ Fault(r)
  PROVE  Own(r)' /\ Held(r)'
  <1> USE DEF IInv, TypeOK
  <1>0. Own(r) /\ Held(r)
    OBVIOUS
  <1>1. ASSUME Exit(r)
        PROVE  Own(r)' /\ Held(r)'
    BY <1>1 DEF Exit, Own, Held, Holding, Opening, Body, Leaving
  <1>2. CASE Close(r) \/ Crash(r) \/ Abort(r)
    BY <1>1, <1>2 DEF Close, Crash, Abort, Abandon
  <1>3. CASE PublishLast(r) \/ PublishFails(r)
    <2>1. /\ pc[r] = "closing" /\ pc'[r] = "unlocking" /\ UNCHANGED <<results, job, memory>>
      BY <1>3 DEF PublishLast, PublishFails, files
    <2>2. Appendable(r)' = Appendable(r)
      BY <2>1 DEF Appendable, results, job, memory
    <2> QED
      BY <1>0, <2>1, <2>2 DEF Own, Held, results, job, memory, Holding, Opening, Body, Leaving
  <1>4. CASE Interrupt(r)
    <2>1. /\ pc[r] \in Body /\ pc'[r] = "closing" /\ state'[r] = "interrupted"
          /\ record'[r] = IF pc[r] = "writing" THEN record[r] ELSE None
          /\ UNCHANGED <<files, job, kept>>
      BY <1>4 DEF Interrupt
    <2>2. Len(kept[r]) <= Len(rows)
      <3>1. CASE pc[r] = "committed"
        BY <1>0, <3>1 DEF Held
      <3>2. CASE pc[r] # "committed"
        BY <1>0, <2>1, <3>2 DEF Held
      <3> QED
        BY <3>1, <3>2
    <2>3. record'[r] # None => Appendable(r)'
      BY <1>0, <2>1 DEF Held, Appendable, files, results, job
    <2> QED
      BY <1>0, <2>1, <2>2, <2>3 DEF Own, Held, files, results, job, Holding, Opening, Body, Leaving
  <1> QED
    BY <1>2, <1>3, <1>4 DEF Fault

-----------------------------------------------------------------------------
(* The shapes a step can have for the directory *)

\* A fresh start describes its experiment in an empty directory.
Begins(r) ==
  /\ experiment = None /\ FreshAllowed
  /\ experiment' = ident[r] /\ ident[r] \in Identity
  /\ UNCHANGED <<created, rows, torn, summary, progress>>

\* The records, the summary and the progress stay.
Keeps == UNCHANGED <<experiment, rows, summary, progress>>

Withdraws == summary' = None /\ UNCHANGED <<experiment, rows, progress>>

Announces(r) ==
  /\ progress' = [state |-> state[r], completed |-> Len(kept[r])]
  /\ Len(kept[r]) <= Len(rows)
  /\ state[r] = "completed" => RunsIn(rows) = Expected(experiment)
  /\ UNCHANGED results

Appends(r) ==
  /\ Appendable(r) /\ Appended(r) /\ ident[r] = experiment
  /\ UNCHANGED <<experiment, summary, progress>>

Concludes ==
  /\ RunsIn(rows) = Expected(experiment)
  /\ summary' = rows
  /\ UNCHANGED <<experiment, rows, progress>>

Shape(r) ==
  \/ UNCHANGED files
  \/ Begins(r)
  \/ experiment # None /\ (Keeps \/ Withdraws \/ Announces(r) \/ Appends(r) \/ Concludes)

LEMMA Described ==
  ASSUME IInv, NEW r \in Runner, pc[r] \in Holding \ {"locked", "describe"}
  PROVE  experiment = ident[r] /\ ident[r] \in Identity /\ experiment # None
  BY DEF IInv, Own, Held, Holding, Opening, Body, Leaving, NoneAssumption

LEMMA EnterShape ==
  ASSUME IInv, NEW r \in Runner, Enter(r)
  PROVE  Shape(r)
  <1> USE DEF Shape
  <1>0. Own(r) /\ Held(r)
    BY DEF IInv
  <1>1. CASE \/ Lock(r) \/ Refuse(r) \/ RejectFresh(r) \/ AcceptFresh(r)
             \/ RejectResume(r) \/ AcceptResume(r)
    BY <1>1 DEF Lock, Refuse, RejectFresh, AcceptFresh, RejectResume, AcceptResume, Abandon
  <1>2. CASE Describe(r)
    BY <1>0, <1>2 DEF Describe, Begins, Own, Held
  <1>3. CASE Touch(r) \/ Truncate(r)
    <2>1. pc[r] \in {"touch", "truncate"} /\ Keeps
      BY <1>3 DEF Touch, Truncate, Keeps
    <2> QED
      BY <2>1, Described DEF Holding, Opening
  <1>4. CASE Unlink(r)
    <2>1. pc[r] = "unlink" /\ Withdraws
      BY <1>4 DEF Unlink, Withdraws
    <2> QED
      BY <2>1, Described DEF Holding, Opening
  <1>5. CASE Open(r)
    <2>1. pc[r] = "open" /\ Publishes(r) /\ UNCHANGED results
      BY <1>5 DEF Open
    <2>2. kept[r] = rows /\ state[r] = "running"
      BY <1>0, <2>1 DEF Own, Held, Leaving
    <2>3. Len(rows) <= Len(rows)
      BY DEF IInv, TypeOK
    <2>4. Announces(r)
      BY <2>1, <2>2, <2>3 DEF Announces, Publishes
    <2> QED
      BY <2>1, <2>4, Described DEF Holding, Opening
  <1> QED
    BY <1>1, <1>2, <1>3, <1>4, <1>5 DEF Enter

LEMMA WorkShape ==
  ASSUME IInv, NEW r \in Runner, Work(r)
  PROVE  Shape(r)
  <1> USE DEF Shape
  <1>0. Own(r) /\ Held(r)
    BY DEF IInv
  <1>1. pc[r] \in Body
    BY DEF Work, Write, Commit, Remember, Publish, Summarise, Finalise, Leave, Body
  <1>2. experiment = ident[r] /\ experiment # None
    BY <1>1, Described DEF Holding, Opening, Body
  <1>3. CASE Write(r) \/ Remember(r) \/ Leave(r)
    BY <1>3 DEF Write, Remember, Leave
  <1>4. CASE Commit(r)
    <2>1. pc[r] = "writing" /\ Land(r) /\ UNCHANGED <<experiment, summary, progress>>
      BY <1>4 DEF Commit
    <2>2. Appendable(r)
      BY <1>0, <2>1 DEF Held
    <2>3. Appends(r)
      BY <1>2, <2>1, <2>2 DEF Appends, Appendable, Appended, Land
    <2> QED
      BY <1>2, <2>3
  <1>5. CASE Publish(r)
    <2>1. pc[r] = "publish" /\ Publishes(r) /\ UNCHANGED results
      BY <1>5 DEF Publish
    <2>2. kept[r] = rows /\ state[r] = "running"
      BY <1>0, <2>1 DEF Own, Held, Body, Leaving
    <2>3. Len(rows) <= Len(rows)
      BY DEF IInv, TypeOK
    <2>4. Announces(r)
      BY <2>1, <2>2, <2>3 DEF Announces, Publishes
    <2> QED
      BY <1>2, <2>4
  <1>6. CASE Summarise(r)
    <2>1. pc[r] = "loop" /\ Missing(r) = {} /\ summary' = kept[r]
          /\ UNCHANGED <<experiment, rows, progress>>
      BY <1>6 DEF Summarise
    <2>2. kept[r] = rows
      BY <1>0, <2>1 DEF Held, Body
    <2>3. Expected(experiment) \subseteq RunsIn(rows)
      BY <1>2, <2>1, <2>2 DEF Missing, Expected
    <2>4. RunsIn(rows) \subseteq Expected(experiment)
      BY DEF IInv, Directory, RowsIntact, RunsIn
    <2>5. Concludes
      BY <2>1, <2>2, <2>3, <2>4 DEF Concludes
    <2> QED
      BY <1>2, <2>5
  <1>7. CASE Finalise(r)
    BY <1>2, <1>7 DEF Finalise, Keeps
  <1> QED
    BY <1>3, <1>4, <1>5, <1>6, <1>7 DEF Work

LEMMA EndShape ==
  ASSUME IInv, NEW r \in Runner, PublishLast(r) \/ Close(r) \/ Fault(r)
  PROVE  Shape(r)
  <1> USE DEF Shape
  <1>0. Own(r) /\ Held(r)
    BY DEF IInv
  <1>1. CASE Abort(r) \/ Interrupt(r) \/ PublishFails(r)
    BY <1>1 DEF Abort, Abandon, Interrupt, PublishFails
  <1>2. CASE PublishLast(r)
    <2>1. pc[r] = "closing" /\ Publishes(r) /\ UNCHANGED results
      BY <1>2 DEF PublishLast
    <2>2. experiment = ident[r] /\ experiment # None
      BY <2>1, Described DEF Holding, Leaving
    <2>3. Announces(r)
      BY <1>0, <2>1, <2>2 DEF Announces, Publishes, Held, Leaving
    <2> QED
      BY <2>2, <2>3
  <1>3. CASE Close(r) \/ Crash(r)
    <2>1. /\ IF Buffered(r) THEN Spill(r) ELSE UNCHANGED <<rows, torn>>
          /\ UNCHANGED <<experiment, created, summary, progress>>
      BY <1>3 DEF Close, Crash
    <2>2. CASE ~Buffered(r)
      BY <2>1, <2>2 DEF files, results
    <2>3. CASE Buffered(r)
      <3>1. pc[r] \in {"writing"} \cup Leaving /\ record[r] # None
        BY <1>0, <2>3 DEF Buffered, Own
      <3>2. Appendable(r)
        BY <1>0, <3>1 DEF Held
      <3>3. experiment = ident[r] /\ experiment # None
        BY <3>1, Described DEF Holding, Body, Leaving
      <3>4. CASE Land(r)
        <4>1. Appends(r)
          BY <2>1, <3>2, <3>3, <3>4 DEF Appends, Appendable, Appended, Land
        <4> QED
          BY <3>3, <4>1
      <3>5. CASE UNCHANGED rows
        BY <2>1, <3>3, <3>5 DEF Keeps
      <3> QED
        BY <2>1, <2>3, <3>4, <3>5 DEF Spill
    <2> QED
      BY <2>2, <2>3
  <1> QED
    BY <1>1, <1>2, <1>3 DEF Fault

\* Every step of a runner has one of the shapes.
LEMMA RunnerShape ==
  ASSUME IInv, NEW r \in Runner, Proceed(r) \/ Fault(r)
  PROVE  Shape(r)
  BY EnterShape, WorkShape, EndShape DEF Proceed

-----------------------------------------------------------------------------
(* What the shapes preserve *)

\* What is said of the experiment and its records depends on nothing else.
LEMMA SameRecords ==
  ASSUME UNCHANGED <<experiment, rows>>
  PROVE  /\ RunsIn(rows)' = RunsIn(rows)
         /\ Expected(experiment)' = Expected(experiment)
         /\ RowsIntact' = RowsIntact
  <1>1. RunsIn(rows)' = RunsIn(rows) /\ Expected(experiment)' = Expected(experiment)
    BY DEF RunsIn, Expected
  <1> QED
    BY <1>1 DEF RowsIntact

LEMMA DirectoryKept ==
  ASSUME IInv, NEW r \in Runner, Shape(r)
  PROVE  Directory'
  <1>0. /\ Directory
        /\ experiment # None => experiment' = experiment
    BY DEF IInv, Shape, files, results, Keeps, Withdraws, Announces, Appends, Concludes, Begins
  <1>1. CASE UNCHANGED files
    BY <1>0, <1>1, SameRecords DEF Directory, FreshAllowed, ProgressCovered, files, results
  <1>2. CASE Begins(r)
    <2>1. /\ experiment' # None /\ rows = <<>> /\ rows' = <<>>
          /\ summary' = None /\ progress' = None
      BY <1>0, <1>2, NoneAssumption DEF Begins, Directory, FreshAllowed
    <2> QED
      BY <2>1 DEF Directory, RowsIntact, ProgressCovered
  <1>3. CASE experiment # None /\ Keeps
    <2>1. ProgressCovered' = ProgressCovered
      BY <1>3, SameRecords DEF Keeps, ProgressCovered
    <2> QED
      BY <1>0, <1>3, <2>1, SameRecords DEF Directory, Keeps
  <1>4. CASE experiment # None /\ Withdraws
    <2>1. ProgressCovered' = ProgressCovered
      BY <1>4, SameRecords DEF Withdraws, ProgressCovered
    <2> QED
      BY <1>0, <1>4, <2>1, SameRecords DEF Directory, Withdraws
  <1>5. CASE experiment # None /\ Announces(r)
    <2>1. UNCHANGED <<experiment, rows, summary>>
      BY <1>5 DEF Announces, results
    <2>2. progress'.completed = Len(kept[r]) /\ progress'.state = state[r]
      BY <1>5 DEF Announces
    <2>3. ProgressCovered'
      BY <1>5, <2>1, <2>2, SameRecords DEF ProgressCovered, Announces
    <2> QED
      BY <1>0, <1>5, <2>1, <2>3, SameRecords DEF Directory
  <1>6. CASE experiment # None /\ Appends(r)
    <2> USE DEF IInv, RowsIntact, ProgressCovered
    <2> DEFINE line == [run |-> record[r], identity |-> ident[r]]
    <2>1. /\ Len(rows') = Len(rows) + 1
          /\ rows'[Len(rows) + 1] = line
          /\ \A n \in 1..Len(rows) : rows'[n] = rows[n]
          /\ RunsIn(rows') = RunsIn(rows) \cup {record[r]}
      BY <1>6, AppendEffect DEF Appends
    <2>2. /\ UNCHANGED <<experiment, summary, progress>> /\ summary = None
          /\ ident[r] = experiment
          /\ record[r] \in Expected(experiment) \ RunsIn(rows)
      BY <1>6 DEF Appends, Appendable
    <2>3. /\ DOMAIN rows = 1..Len(rows) /\ Len(rows) \in Nat
          /\ DOMAIN rows' = 1..(Len(rows) + 1)
      BY <1>6 DEF TypeOK, Appends, Appended
    <2>4. line.run = record[r] /\ line.identity = ident[r]
      OBVIOUS
    <2> HIDE DEF line
    <2>5. RowsIntact'
      <3>1. \A n \in DOMAIN rows' :
              /\ rows'[n].identity = experiment
              /\ rows'[n].run \in Expected(experiment)
        BY <2>1, <2>2, <2>3, <2>4 DEF Directory
      <3>2. \A m, n \in DOMAIN rows' : rows'[m].run = rows'[n].run => m = n
        <4>1. \A n \in 1..Len(rows) : rows'[n].run \in RunsIn(rows) /\ rows'[n].run = rows[n].run
          BY <2>1, <2>3 DEF RunsIn
        <4> QED
          BY <2>1, <2>2, <2>3, <2>4, <4>1 DEF Directory
      <3>3. Expected(experiment)' = Expected(experiment)
        BY <2>2 DEF Expected
      <3> QED
        BY <2>2, <3>1, <3>2, <3>3
    <2>6. ProgressCovered'
      <3>1. RunsIn(rows) # Expected(experiment)
        BY <2>2
      <3>2. progress # None =>
              progress.completed <= Len(rows) /\ progress.state # "completed"
        BY <3>1 DEF Directory
      <3>3. progress # None => progress.completed \in Nat
        BY DEF TypeOK, Progress
      <3> QED
        BY <2>1, <2>2, <2>3, <3>2, <3>3
    <2> QED
      BY <1>6, <2>2, <2>5, <2>6 DEF Directory
  <1>7. CASE experiment # None /\ Concludes
    <2>1. ProgressCovered' = ProgressCovered
      BY <1>7, SameRecords DEF Concludes, ProgressCovered
    <2>2. summary' = rows' /\ RunsIn(rows)' = Expected(experiment)'
      BY <1>7, SameRecords DEF Concludes
    <2> QED
      BY <1>0, <1>7, <2>1, <2>2, SameRecords DEF Directory, Concludes
  <1> QED
    BY <1>1, <1>2, <1>3, <1>4, <1>5, <1>6, <1>7 DEF Shape

\* The records only grow, and an experiment that has all of them keeps them.
Grows ==
  /\ SubSeq(rows', 1, Len(rows)) = rows
  /\ Len(rows) <= Len(rows')
  /\ experiment # None => experiment' = experiment
  /\ experiment # None /\ RunsIn(rows) = Expected(experiment) =>
       RunsIn(rows)' = Expected(experiment)'

LEMMA Growth ==
  ASSUME IInv, NEW r \in Runner, Shape(r)
  PROVE  Grows
  <1>0. rows \in Seq(Record \cup {Corrupt})
    BY DEF IInv, TypeOK
  <1>1. ASSUME UNCHANGED rows, experiment # None => experiment' = experiment
        PROVE  Grows
    <2>1. SubSeq(rows, 1, Len(rows)) = rows /\ Len(rows) <= Len(rows)
      BY <1>0
    <2> QED
      <3>1. rows' = rows /\ (experiment # None => experiment' = experiment)
        BY <1>1
      <3>2. RunsIn(rows)' = RunsIn(rows)
        BY <3>1 DEF RunsIn
      <3>3. experiment # None => Expected(experiment)' = Expected(experiment)
        BY <3>1 DEF Expected
      <3>4. SubSeq(rows', 1, Len(rows)) = rows /\ Len(rows) <= Len(rows')
        BY <2>1, <3>1
      <3> QED BY <3>1, <3>2, <3>3, <3>4 DEF Grows
  <1>2. CASE UNCHANGED files \/ Begins(r)
    BY <1>1, <1>2 DEF Begins, files, results
  <1>3. CASE experiment # None /\ (Keeps \/ Withdraws \/ Announces(r) \/ Concludes)
    BY <1>1, <1>3 DEF Keeps, Withdraws, Announces, Concludes, results
  <1>4. CASE experiment # None /\ Appends(r)
    <2> DEFINE line == [run |-> record[r], identity |-> ident[r]]
    <2>1. rows' = Append(rows, line) /\ experiment' = experiment
      BY <1>4 DEF Appends, Appended
    <2>2. RunsIn(rows) # Expected(experiment)
      BY <1>4 DEF Appends, Appendable
    <2> HIDE DEF line
    <2>3. /\ Len(rows') = Len(rows) + 1 /\ Len(rows) \in Nat
          /\ SubSeq(rows', 1, Len(rows)) = rows
      BY <1>0, <2>1
    <2>4. Len(rows) <= Len(rows')
      BY <2>3
    <2> QED
      BY <2>1, <2>2, <2>3, <2>4 DEF Grows
  <1> QED
    BY <1>2, <1>3, <1>4 DEF Shape

\* An injection between initial segments of the naturals.
LEMMA NoLonger ==
  ASSUME NEW a \in Nat, NEW b \in Nat, NEW f \in [1..a -> 1..b],
         \A m, n \in 1..a : f[m] = f[n] => m = n
  PROVE  a <= b
  <1>1. f \in Injection(1..a, 1..b)
    BY DEF Injection, IsInjective
  <1>2. /\ IsFiniteSet(1..b) /\ Cardinality(1..b) = b
        /\ Cardinality(1..a) = a
    BY FS_Interval
  <1> QED
    BY <1>1, <1>2, FS_Injection

\* With every planned run recorded there are as many records as planned runs.
LEMMA CompleteLength ==
  ASSUME IInv, experiment # None, RunsIn(rows) = Expected(experiment)
  PROVE  Len(rows) = Len(Plan[experiment])
  <1> DEFINE plan == Plan[experiment]
  <1>1. /\ plan \in Seq(Run)
        /\ \A m, n \in DOMAIN plan : plan[m] = plan[n] => m = n
    BY PlanAssumption DEF IInv, TypeOK
  <1>2. /\ rows \in Seq(Record \cup {Corrupt})
        /\ \A m, n \in DOMAIN rows : rows[m].run = rows[n].run => m = n
    BY DEF IInv, TypeOK, Directory, RowsIntact
  <1>3. {rows[n].run : n \in DOMAIN rows} = {plan[n] : n \in DOMAIN plan}
    BY DEF RunsIn, Expected
  <1> HIDE DEF plan
  <1>4. /\ DOMAIN rows = 1..Len(rows) /\ Len(rows) \in Nat
        /\ DOMAIN plan = 1..Len(plan) /\ Len(plan) \in Nat
    BY <1>1, <1>2
  <1>5. Len(rows) <= Len(plan)
    <2> DEFINE f == [n \in 1..Len(rows) |-> CHOOSE m \in 1..Len(plan) : plan[m] = rows[n].run]
    <2>1. \A n \in 1..Len(rows) : \E m \in 1..Len(plan) : plan[m] = rows[n].run
      BY <1>3, <1>4
    <2>2. ASSUME NEW n \in 1..Len(rows) PROVE f[n] \in 1..Len(plan) /\ plan[f[n]] = rows[n].run
      BY <2>1, Zenon
    <2>3. f \in [1..Len(rows) -> 1..Len(plan)]
      BY <2>2
    <2> HIDE DEF f
    <2>4. \A m, n \in 1..Len(rows) : f[m] = f[n] => m = n
      BY <1>2, <1>4, <2>2
    <2> QED
      BY <1>4, <2>3, <2>4, NoLonger
  <1>6. Len(plan) <= Len(rows)
    <2> DEFINE f == [n \in 1..Len(plan) |-> CHOOSE m \in 1..Len(rows) : rows[m].run = plan[n]]
    <2>1. \A n \in 1..Len(plan) : \E m \in 1..Len(rows) : rows[m].run = plan[n]
      BY <1>3, <1>4
    <2>2. ASSUME NEW n \in 1..Len(plan) PROVE f[n] \in 1..Len(rows) /\ rows[f[n]].run = plan[n]
      BY <2>1, Zenon
    <2>3. f \in [1..Len(plan) -> 1..Len(rows)]
      BY <2>2
    <2> HIDE DEF f
    <2>4. \A m, n \in 1..Len(plan) : f[m] = f[n] => m = n
      BY <1>1, <1>4, <2>2
    <2> QED
      BY <1>4, <2>3, <2>4, NoLonger
  <1> QED
    BY <1>4, <1>5, <1>6 DEF plan

-----------------------------------------------------------------------------
(* The readers *)

\* What a reader has read outlives a step that lets the records grow.
LEMMA ReadingKept ==
  ASSUME IInv, NEW q \in Reader, Grows,
         step'[q] = step[q] /\ seen'[q] = seen[q]
           /\ counted'[q] = counted[q] /\ report'[q] = report[q]
  PROVE  Reading(q)'
  <1>1. Reading(q) /\ Len(rows) \in Nat /\ Len(rows') >= Len(rows)
    BY DEF IInv, TypeOK, Grows
  <1>2. step[q] \in {"idle", "rows", "probe", "held"} /\ counted[q] \in Nat
    BY DEF IInv, TypeOK
  <1>3. experiment # None =>
          /\ experiment' = experiment
          /\ RunsIn(rows) = Expected(experiment) => RunsIn(rows)' = Expected(experiment)'
    BY DEF Grows
  <1>4. report[q] # None => report[q].completed \in Nat
    BY DEF IInv, TypeOK, Report
  <1>5. Len(rows') \in Nat
    BY <1>1, <1>2, <1>4 DEF Grows
  <1>6. ASSUME step'[q] # "idle"
        PROVE  /\ seen'[q] # None /\ experiment' # None
               /\ seen'[q].state = "completed" => RunsIn(rows)' = Expected(experiment)'
    BY <1>1, <1>3, <1>6 DEF Reading
  <1>7. ASSUME step'[q] \in {"probe", "held"}
        PROVE  /\ counted'[q] <= Len(rows')
               /\ seen'[q].state = "completed" => counted'[q] = Len(Plan[experiment'])
    BY <1>1, <1>2, <1>3, <1>5, <1>7 DEF Reading
  <1>8. ASSUME report'[q] # None
        PROVE  /\ experiment' # None
               /\ report'[q].completed <= Len(rows')
               /\ report'[q].state = "completed" =>
                    report'[q].completed = Len(Plan[experiment'])
               /\ report'[q].state = "running" => report'[q].active
    BY <1>1, <1>3, <1>4, <1>5, <1>8 DEF Reading
  <1> QED
    BY <1>6, <1>7, <1>8 DEF Reading

\* A step of a reader changes its own reading only.
LEMMA QueryElsewhere ==
  ASSUME TypeOK, NEW q \in Reader, Query(q)
  PROVE  /\ UNCHANGED <<files, pc, job, memory>>
         /\ \A x \in Reader \ {q} :
              /\ step'[x] = step[x] /\ seen'[x] = seen[x]
              /\ counted'[x] = counted[x] /\ report'[x] = report[x]
  <1> USE DEF TypeOK
  <1>1. CASE ReadProgress(q)  BY <1>1 DEF ReadProgress
  <1>2. CASE ReadRows(q)      BY <1>2 DEF ReadRows
  <1>3. CASE ProbeBusy(q)     BY <1>3 DEF ProbeBusy, Answer
  <1>4. CASE ProbeFree(q)     BY <1>4 DEF ProbeFree
  <1>5. CASE Unlock(q)        BY <1>5 DEF Unlock, Answer
  <1> QED
    BY <1>1, <1>2, <1>3, <1>4, <1>5 DEF Query

\* The answer of a reader that has counted the records.
LEMMA AnswerReading ==
  ASSUME IInv, NEW q \in Reader, NEW active \in BOOLEAN,
         step[q] \in {"probe", "held"}, Answer(q, active)
  PROVE  Reading(q)'
  <1> DEFINE said == IF seen[q].state = "running" /\ ~active THEN "interrupted" ELSE seen[q].state
  <1>1. /\ Reading(q)
        /\ UNCHANGED <<experiment, rows>>
    BY DEF IInv, Answer, files, results
  <1>2. /\ report'[q] = [state |-> said, completed |-> counted[q], active |-> active]
        /\ step'[q] = "idle"
    BY DEF IInv, TypeOK, Answer
  <1>3. /\ experiment # None /\ counted[q] <= Len(rows)
        /\ seen[q].state = "completed" => counted[q] = Len(Plan[experiment])
    BY <1>1 DEF Reading
  <1>4. /\ said = "completed" => seen[q].state = "completed"
        /\ said = "running" => active
    OBVIOUS
  <1> HIDE DEF said
  <1>5. /\ report'[q].state = said /\ report'[q].completed = counted[q]
        /\ report'[q].active = active
    BY <1>2
  <1> QED
    BY <1>1, <1>2, <1>3, <1>4, <1>5 DEF Reading

LEMMA QueryHere ==
  ASSUME IInv, NEW q \in Reader, Query(q)
  PROVE  Reading(q)'
  <1> USE DEF IInv
  <1>0. Reading(q) /\ UNCHANGED <<experiment, rows, progress>>
    BY QueryElsewhere DEF files, results
  <1>1. CASE ReadProgress(q)
    <2>1. /\ progress # None /\ seen'[q] = progress /\ report'[q] = None /\ step'[q] = "rows"
      BY <1>1 DEF ReadProgress, TypeOK
    <2>2. experiment # None
      BY <2>1 DEF Directory, FreshAllowed
    <2>3. progress.state = "completed" => RunsIn(rows) = Expected(experiment)
      BY <2>1 DEF Directory, ProgressCovered
    <2> QED
      BY <1>0, <2>1, <2>2, <2>3, SameRecords DEF Reading
  <1>2. CASE ReadRows(q)
    <2>1. /\ step[q] = "rows" /\ counted'[q] = Len(rows) /\ step'[q] = "probe"
          /\ UNCHANGED <<seen, report>>
      BY <1>2 DEF ReadRows, TypeOK
    <2>2. Len(rows) <= Len(rows)
      BY DEF TypeOK
    <2>3. seen[q].state = "completed" => Len(rows) = Len(Plan[experiment])
      BY <1>0, <2>1, CompleteLength DEF Reading
    <2> QED
      BY <1>0, <2>1, <2>2, <2>3, SameRecords DEF Reading
  <1>3. CASE ProbeBusy(q)
    BY <1>3, AnswerReading DEF ProbeBusy
  <1>4. CASE ProbeFree(q)
    <2>1. /\ step[q] = "probe" /\ step'[q] = "held" /\ UNCHANGED <<seen, counted, report>>
      BY <1>4 DEF ProbeFree, TypeOK
    <2> QED
      BY <1>0, <2>1, SameRecords DEF Reading
  <1>5. CASE Unlock(q)
    BY <1>5, AnswerReading DEF Unlock
  <1> QED
    BY <1>1, <1>2, <1>3, <1>4, <1>5 DEF Query

\* Nothing but the directory's content, and a runner's own memory, matters to
\* the parts of the invariant about them.
LEMMA QueryAside ==
  ASSUME IInv, UNCHANGED <<files, pc, job, memory>>
  PROVE  /\ Directory'
         /\ \A r \in Runner : Own(r)' /\ Held(r)'
         /\ Grows
  <1>1. UNCHANGED <<experiment, created, rows, torn, summary, progress, ident, kept, record, state, pc>>
    BY DEF files, results, job, memory
  <1>2. Directory'
    BY <1>1, SameRecords DEF IInv, Directory, FreshAllowed, ProgressCovered
  <1>3. ASSUME NEW r \in Runner
        PROVE  Own(r)' /\ Held(r)'
    <2>1. Own(r)'
      BY <1>1 DEF IInv, Own
    <2>2. Expected(ident[r])' = Expected(ident[r])
      BY <1>1 DEF Expected
    <2>3. Appendable(r)' = Appendable(r) /\ FreshAllowed' = FreshAllowed
      BY <1>1, <2>2, SameRecords DEF Appendable, FreshAllowed
    <2>4. Held(r)'
      BY <1>1, <2>2, <2>3, SameRecords DEF IInv, Held
    <2> QED
      BY <2>1, <2>4
  <1>4. Grows
    <2>1. rows \in Seq(Record \cup {Corrupt})
      BY DEF IInv, TypeOK
    <2>2. SubSeq(rows, 1, Len(rows)) = rows /\ Len(rows) <= Len(rows)
      BY <2>1
    <2> QED
      BY <1>1, <2>2, SameRecords DEF Grows
  <1> QED
    BY <1>2, <1>3, <1>4

-----------------------------------------------------------------------------
(* The invariant *)

LEMMA InitIInv == Init => IInv
  <1> SUFFICES ASSUME Init PROVE IInv
    OBVIOUS
  <1>1. TypeOK /\ OneWriter
    BY InitTypeOK, InitOneWriter
  <1>2. Directory
    BY DEF Init, Directory, FreshAllowed, RowsIntact, ProgressCovered
  <1>3. ASSUME NEW r \in Runner
        PROVE  Own(r) /\ Held(r)
    BY DEF Init, Own, Held, Holding, Opening, Body, Leaving
  <1>4. ASSUME NEW q \in Reader
        PROVE  Reading(q)
    BY DEF Init, Reading
  <1> QED
    BY <1>1, <1>2, <1>3, <1>4 DEF IInv

LEMMA RunnerIInv ==
  ASSUME IInv, NEW r \in Runner, Proceed(r) \/ Fault(r)
  PROVE  IInv'
  <1>1. TypeOK'
    BY EnterTypeOK, WorkTypeOK, EndTypeOK DEF IInv, Proceed
  <1>2. OneWriter'
    BY RunnerOneWriter DEF IInv
  <1>3. Directory' /\ Grows
    BY RunnerShape, DirectoryKept, Growth
  <1>4. Elsewhere(r)
    BY StepElsewhere DEF IInv
  <1>5. ASSUME NEW x \in Runner
        PROVE  Own(x)' /\ Held(x)'
    <2>1. CASE x = r
      BY <2>1, EnterHere, WorkHere, EndHere DEF Proceed
    <2>2. CASE x # r
      BY <1>4, <2>2, OthersKeep
    <2> QED
      BY <2>1, <2>2
  <1>6. ASSUME NEW q \in Reader
        PROVE  Reading(q)'
    BY <1>3, <1>4, ReadingKept DEF Elsewhere, readers
  <1> QED
    BY <1>1, <1>2, <1>3, <1>5, <1>6 DEF IInv

LEMMA StartIInv ==
  ASSUME IInv, NEW r \in Runner, NEW again \in BOOLEAN, NEW i \in Identity, Start(r, again, i)
  PROVE  IInv'
  <1>1. TypeOK'
    BY StartTypeOK DEF IInv
  <1>2. OneWriter'
    <2>1. /\ pc[r] = "idle" /\ pc' = [pc EXCEPT ![r] = "opening"]
          /\ UNCHANGED <<lock, step>>
      BY DEF Start, readers
    <2> QED
      BY <2>1 DEF IInv, TypeOK, OneWriter, Holding, Opening, Body, Leaving
  <1>3. Elsewhere(r)
    BY StepElsewhere DEF IInv
  <1>4. Shape(r)
    BY DEF Start, Shape
  <1>5. Directory' /\ Grows
    BY <1>4, DirectoryKept, Growth
  <1>6. ASSUME NEW x \in Runner
        PROVE  Own(x)' /\ Held(x)'
    <2>1. CASE x = r
      BY <2>1, StartHere
    <2>2. CASE x # r
      BY <1>3, <2>2, OthersKeep
    <2> QED
      BY <2>1, <2>2
  <1>7. ASSUME NEW q \in Reader
        PROVE  Reading(q)'
    BY <1>3, <1>5, ReadingKept DEF Elsewhere, readers
  <1> QED
    BY <1>1, <1>2, <1>5, <1>6, <1>7 DEF IInv

LEMMA QueryIInv ==
  ASSUME IInv, NEW q \in Reader, Query(q)
  PROVE  IInv'
  <1>1. TypeOK' /\ OneWriter'
    BY QueryTypeOK, QueryOneWriter DEF IInv
  <1>2. /\ UNCHANGED <<files, pc, job, memory>>
        /\ \A x \in Reader \ {q} :
             /\ step'[x] = step[x] /\ seen'[x] = seen[x]
             /\ counted'[x] = counted[x] /\ report'[x] = report[x]
    BY QueryElsewhere DEF IInv
  <1>3. /\ Directory'
        /\ \A r \in Runner : Own(r)' /\ Held(r)'
        /\ Grows
    BY <1>2, QueryAside
  <1>4. ASSUME NEW x \in Reader
        PROVE  Reading(x)'
    <2>1. CASE x = q
      BY <2>1, QueryHere
    <2>2. CASE x # q
      BY <1>2, <1>3, <2>2, ReadingKept
    <2> QED
      BY <2>1, <2>2
  <1> QED
    BY <1>1, <1>3, <1>4 DEF IInv

LEMMA StutterIInv ==
  ASSUME IInv, UNCHANGED vars
  PROVE  IInv'
  <1>1. /\ UNCHANGED <<files, pc, job, memory>>
        /\ UNCHANGED <<experiment, created, rows, torn, summary, progress, lock, pc, resume, ident>>
        /\ UNCHANGED <<kept, record, state, step, seen, counted, report>>
    BY DEF vars, files, results, job, memory, readers
  <1>2. TypeOK' /\ OneWriter'
    BY <1>1 DEF IInv, TypeOK, OneWriter
  <1>3. /\ Directory'
        /\ \A r \in Runner : Own(r)' /\ Held(r)'
        /\ Grows
    BY <1>1, QueryAside
  <1>4. ASSUME NEW q \in Reader
        PROVE  Reading(q)'
    BY <1>1, <1>3, ReadingKept
  <1> QED
    BY <1>2, <1>3, <1>4 DEF IInv

\* The inductive invariant of a directory shared by runners that are
\* interrupted and killed, and by status readers.
THEOREM Invariance == Spec => []IInv
  <1>1. IInv /\ [Next]_vars => IInv'
    BY RunnerIInv, StartIInv, QueryIInv, StutterIInv DEF Next
  <1> QED
    BY <1>1, InitIInv, PTL DEF Spec

\* The files, the processes' memory and the answers keep their types.
THEOREM TypeCorrect == Spec => []TypeOK
  BY Invariance, PTL DEF IInv

\* Exactly the owner of .runner.lock is between taking and returning it,
\* whoever was refused, interrupted or killed.
THEOREM SingleWriter == Spec => []OneWriter
  BY Invariance, PTL DEF IInv

\* runs.jsonl holds each planned run at most once, all of one experiment, and
\* no record glued to a torn one.
THEOREM RowsStayIntact == Spec => []RowsIntact
  BY Invariance, PTL DEF IInv, Directory

\* A run is counted in memory only after its record is on disk.
THEOREM MemoryFollows == Spec => []MemoryFollowsFile
  <1>1. IInv => MemoryFollowsFile
    BY DEF IInv, Held, MemoryFollowsFile
  <1> QED
    BY <1>1, Invariance, PTL

\* A summary covers every planned run and every record, and there is none while
\* runs are executed.
THEOREM SummaryIsFinal == Spec => []SummaryFinal
  <1>1. IInv => SummaryFinal
    BY DEF IInv, Directory, Held, SummaryFinal
  <1> QED
    BY <1>1, Invariance, PTL

\* progress.json never promises more than the file holds.
THEOREM ProgressIsCovered == Spec => []ProgressCovered
  BY Invariance, PTL DEF IInv, Directory

\* An answer composed from three reads at three moments is consistent, and
\* stays so.
THEOREM ReportsConsistent == Spec => []ReportConsistent
  <1>1. IInv => ReportConsistent
    BY DEF IInv, Reading, ReportConsistent
  <1> QED
    BY <1>1, Invariance, PTL

-----------------------------------------------------------------------------
(* Steps *)

\* Every step lets the records grow.
LEMMA StepGrows ==
  ASSUME IInv, [Next]_vars
  PROVE  Grows
  <1>1. ASSUME NEW r \in Runner, Proceed(r) \/ Fault(r)
        PROVE  Grows
    BY <1>1, RunnerShape, Growth
  <1>2. ASSUME NEW r \in Runner, NEW again \in BOOLEAN, NEW i \in Identity, Start(r, again, i)
        PROVE  Grows
    BY <1>2, Growth DEF Start, Shape
  <1>3. ASSUME NEW q \in Reader, Query(q)
        PROVE  Grows
    BY <1>3, QueryElsewhere, QueryAside DEF IInv
  <1>4. CASE UNCHANGED vars
    BY <1>4, QueryAside DEF vars
  <1> QED
    BY <1>1, <1>2, <1>3, <1>4 DEF Next

\* Committed records outlive everything, and a directory belongs to one
\* experiment for ever.
THEOREM NothingIsOverwritten == Spec => NothingOverwritten
  <1>1. IInv /\ [Next]_vars =>
          [/\ SubSeq(rows', 1, Len(rows)) = rows
           /\ experiment # None => experiment' = experiment]_vars
    BY StepGrows DEF Grows
  <1> QED
    BY <1>1, Invariance, PTL DEF Spec, NothingOverwritten

\* The experiment log's view of the directory.
Done == [n \in DOMAIN rows |-> rows[n].run]

\* One more record is one more run in the log.
LEMMA DoneAppend ==
  ASSUME IInv, NEW line, rows' = Append(rows, line)
  PROVE  Done' = Append(Done, line.run)
  <1>1. rows \in Seq(Record \cup {Corrupt})
    BY DEF IInv, TypeOK
  <1>2. /\ Len(rows) \in Nat /\ DOMAIN rows = 1..Len(rows)
        /\ DOMAIN rows' = 1..(Len(rows) + 1)
        /\ rows'[Len(rows) + 1] = line
        /\ \A n \in 1..Len(rows) : rows'[n] = rows[n]
    BY <1>1
  <1>3. Done' = [n \in 1..(Len(rows) + 1) |-> rows'[n].run]
    BY <1>2 DEF Done
  <1>4. Append(Done, line.run)
          = [n \in 1..(Len(rows) + 1) |-> IF n = Len(rows) + 1 THEN line.run ELSE rows[n].run]
    <2>1. Done = [n \in 1..Len(rows) |-> rows[n].run]
      BY <1>2 DEF Done
    <2>2. Len(Done) = Len(rows)
      BY <1>2, <2>1
    <2> QED
      BY <1>2, <2>1, <2>2
  <1> QED
    BY <1>2, <1>3, <1>4

\* Every shape is a step of the experiment log or leaves it alone.
LEMMA ShapeIsLogStep ==
  ASSUME IInv, NEW r \in Runner, Shape(r)
  PROVE  [Log!Next]_(Log!logvars)
  <1>0. Log!Done = RunsIn(rows) /\ Log!Planned = Expected(experiment)
    BY DEF Log!Done, Log!Planned, RunsIn, Expected
  <1>1. ASSUME UNCHANGED <<experiment, rows, summary>>
        PROVE  [Log!Next]_(Log!logvars)
    BY <1>1 DEF Log!logvars
  <1>2. CASE UNCHANGED files
    BY <1>1, <1>2 DEF files, results
  <1>3. CASE Begins(r)
    BY <1>3 DEF Begins, Log!Next, Log!Begin
  <1>4. CASE experiment # None /\ Keeps
    BY <1>1, <1>4 DEF Keeps
  <1>5. CASE experiment # None /\ Withdraws
    BY <1>5 DEF Withdraws, Log!Next, Log!Reopen, Log!logvars
  <1>6. CASE experiment # None /\ Announces(r)
    BY <1>1, <1>6 DEF Announces, results
  <1>7. CASE experiment # None /\ Appends(r)
    <2>1. /\ rows' = Append(rows, [run |-> record[r], identity |-> ident[r]])
          /\ UNCHANGED <<experiment, summary>> /\ summary = None
          /\ record[r] \in Expected(experiment) \ RunsIn(rows)
      BY <1>7 DEF Appends, Appended, Appendable
    <2>2. Done' = Append(Done, record[r])
      BY <2>1, DoneAppend
    <2>3. /\ record[r] \in Log!Planned \ Log!Done
          /\ UNCHANGED <<experiment, summary # None>>
      BY <1>0, <2>1
    <2> QED
      BY <1>7, <2>1, <2>2, <2>3 DEF Log!Next, Log!Commit, Done
  <1>8. CASE experiment # None /\ Concludes
    <2>1. summary' # None
      <3>1. rows \in Seq(Record \cup {Corrupt})
        BY DEF IInv, TypeOK
      <3> QED
        BY <1>8, <3>1, SummaryAssumption DEF Concludes
    <2> QED
      BY <1>0, <1>8, <2>1 DEF Concludes, Log!Next, Log!Finish
  <1> QED
    BY <1>2, <1>3, <1>4, <1>5, <1>6, <1>7, <1>8 DEF Shape

\* Runners, readers, locks and files implement the experiment log.
THEOREM RunnerImplementsLog == Spec => ImplementsLog
  <1>1. Init => Log!Init
    BY DEF Init, Log!Init
  <1>2. IInv /\ [Next]_vars => [Log!Next]_(Log!logvars)
    <2>1. ASSUME IInv, NEW r \in Runner,
                 Proceed(r) \/ Fault(r) \/ \E again \in BOOLEAN, i \in Identity : Start(r, again, i)
          PROVE  [Log!Next]_(Log!logvars)
      BY <2>1, RunnerShape, ShapeIsLogStep DEF Start, Shape
    <2>2. ASSUME IInv, NEW q \in Reader, Query(q)
          PROVE  [Log!Next]_(Log!logvars)
      BY <2>2, QueryElsewhere DEF IInv, files, results, Log!logvars
    <2>3. CASE UNCHANGED vars
      BY <2>3 DEF vars, files, results, Log!logvars
    <2> QED
      BY <2>1, <2>2, <2>3 DEF Next
  <1> QED
    BY <1>1, <1>2, Invariance, PTL DEF Spec, ImplementsLog, Log!Spec

=============================================================================
