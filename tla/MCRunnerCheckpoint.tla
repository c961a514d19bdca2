------------------------- MODULE MCRunnerCheckpoint -------------------------
(***************************************************************************)
(* Instances of RunnerCheckpoint for TLC: two experiments that share runs, *)
(* the first with three runs and a checkpoint interval of two, so that     *)
(* progress.json lags behind runs.jsonl.                                   *)
(***************************************************************************)
EXTENDS RunnerCheckpoint, TLC

CONSTANTS i1, i2, a, b, c

MCPlan == i1 :> <<a, b, c>> @@ i2 :> <<b>>

OnePlan == i1 :> <<a, b, c>>

RunnerSymmetry == Permutations(Runner)

=============================================================================
