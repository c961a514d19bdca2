---------------------------- MODULE MemoryItems ----------------------------
(***************************************************************************)
(* The record clients store (memory/schema.py, MemoryItem), reduced to the *)
(* fields that decide how versions are kept.  content, token_count,        *)
(* importance, created_at and turn_id never steer the store.  A timestamp  *)
(* is a number; `aware` says whether the record's timestamps carry a time  *)
(* zone, because Python refuses to order an aware and a naive one.         *)
(***************************************************************************)
EXTENDS Integers

CONSTANTS MemoryId,   \* memory_id values
          Session,    \* session_id values
          Key,        \* memory_key values
          Time,       \* instants a validity interval can start or end at
          None        \* Python's None

MemoryType == {"constraint", "state", "preference", "fact", "experience"}

Fields == [id           : MemoryId,
           session      : Session,
           key          : Key \cup {None},
           type         : MemoryType,
           aware        : BOOLEAN,
           validFrom    : Time,
           validTo      : Time \cup {None},
           active       : BOOLEAN,
           protected    : BOOLEAN,
           supersedes   : MemoryId \cup {None},
           supersededBy : MemoryId \cup {None}]

\* What MemoryItem.__post_init__ insists on, both for a new record and for
\* every copy that dataclasses.replace makes of one.
WellFormed(m) ==
  /\ m.id \notin {m.supersedes, m.supersededBy}
  /\ m.supersedes # None => m.supersedes # m.supersededBy
  /\ m.active => m.supersededBy = None
  /\ m.type = "state" => m.key # None
  /\ m.validTo # None => m.validFrom <= m.validTo

MemoryItem == {m \in Fields : WellFormed(m)}

ASSUME ItemAssumption ==
  /\ Time \subseteq Int
  /\ None \notin MemoryId \cup Key \cup Time
  /\ None \notin Fields

=============================================================================
