--------------------------- MODULE MCMemoryStore ---------------------------
(***************************************************************************)
(* Instances of MemoryStore for TLC.  Three ids make chains of three       *)
(* versions; two instants make equal, later and earlier starts.            *)
(***************************************************************************)
EXTENDS MemoryStore, TLC

CONSTANTS s1, s2, k1

Links == MemoryId \cup {None}

\* Versions of the chain (s1, k1): plain states and protected constraints.
ChainInput ==
  {m \in [id : MemoryId, session : {s1}, key : {k1}, type : {"constraint", "state"},
          aware : {TRUE}, validFrom : Time, validTo : {None, 1}, active : BOOLEAN,
          protected : BOOLEAN, supersedes : Links, supersededBy : Links] :
     /\ WellFormed(m)
     /\ m.protected <=> m.type = "constraint"
     /\ m.active => m.validTo = None}

\* The same key in another session, a record without a key, and a record with
\* naive timestamps.
OtherInput ==
  {m \in [id : MemoryId, session : {s1, s2}, key : {k1, None}, type : {"constraint"},
          aware : BOOLEAN, validFrom : {1}, validTo : {None}, active : BOOLEAN,
          protected : {TRUE}, supersedes : Links, supersededBy : Links] :
     /\ WellFormed(m)
     /\ \/ m.session = s2 /\ m.key = k1 /\ m.aware
        \/ m.session = s1 /\ m.key = None /\ m.aware
        \/ m.session = s1 /\ m.key = k1 /\ ~m.aware /\ m.supersededBy = None}

MCInput == ChainInput \cup OtherInput

IdSymmetry == Permutations(MemoryId)

=============================================================================
