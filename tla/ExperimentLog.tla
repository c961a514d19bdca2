--------------------------- MODULE ExperimentLog ---------------------------
(***************************************************************************)
(* What an output directory promises, without processes, locks or files:   *)
(* it belongs to one experiment, each planned run is recorded once and     *)
(* stays recorded, and there is a summary only when every run is recorded. *)
(***************************************************************************)
EXTENDS Sequences, Naturals

CONSTANTS Identity, Plan, None

VARIABLES identity,   \* the experiment the directory belongs to, or None
          done,       \* the recorded runs, in the order they finished
          final       \* is there a summary?

logvars == <<identity, done, final>>

Planned == {Plan[identity][n] : n \in DOMAIN Plan[identity]}
Done == {done[n] : n \in DOMAIN done}

Init ==
  /\ identity = None
  /\ done = <<>>
  /\ final = FALSE

Begin(i) ==
  /\ identity = None
  /\ identity' = i
  /\ UNCHANGED <<done, final>>

Commit(x) ==
  /\ identity # None
  /\ ~final
  /\ x \in Planned \ Done
  /\ done' = Append(done, x)
  /\ UNCHANGED <<identity, final>>

Finish ==
  /\ identity # None
  /\ Done = Planned
  /\ final' = TRUE
  /\ UNCHANGED <<identity, done>>

\* Resuming a finished experiment withdraws its summary.
Reopen ==
  /\ final
  /\ final' = FALSE
  /\ UNCHANGED <<identity, done>>

Next ==
  \/ \E i \in Identity : Begin(i)
  \/ identity # None /\ \E x \in Planned : Commit(x)
  \/ Finish
  \/ Reopen

Spec == Init /\ [][Next]_logvars

=============================================================================
