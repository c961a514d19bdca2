------------------------- MODULE VersionedRegister -------------------------
(***************************************************************************)
(* What the memory store promises its callers, without links, intervals or *)
(* record fields: every (session, key) is a register that holds at most    *)
(* one current memory, each insertion brings in an id never seen before,   *)
(* and a memory that stopped being current never becomes current again.    *)
(***************************************************************************)
CONSTANTS MemoryId, Slot, None

VARIABLES known,     \* every id ever stored: history is never dropped
          current    \* the current id of each slot, or None

regvars == <<known, current>>

Init ==
  /\ known = {}
  /\ current = [c \in Slot |-> None]

\* A new current version takes the slot over.
Publish(c, i) ==
  /\ i \notin known
  /\ known' = known \cup {i}
  /\ current' = [current EXCEPT ![c] = i]

\* A record is kept without touching any slot.
Archive(i) ==
  /\ i \notin known
  /\ known' = known \cup {i}
  /\ UNCHANGED current

\* An inactive successor closes the current version and leaves the slot empty.
Withdraw(c, i) ==
  /\ i \notin known
  /\ current[c] # None
  /\ known' = known \cup {i}
  /\ current' = [current EXCEPT ![c] = None]

Next ==
  \E i \in MemoryId :
     \/ Archive(i)
     \/ \E c \in Slot : Publish(c, i) \/ Withdraw(c, i)

Spec == Init /\ [][Next]_regvars

=============================================================================
