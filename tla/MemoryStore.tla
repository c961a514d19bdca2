---------------------------- MODULE MemoryStore ----------------------------
(***************************************************************************)
(* memory/store.py, MemoryStore: an in-process dictionary of versioned     *)
(* memories.  insert is the only operation that changes it.  A record with *)
(* a key belongs to the version chain of its (session, key): a new active  *)
(* record closes the active one, an inactive record closes the version it  *)
(* names in `supersedes`, and any other record is kept as it is.           *)
(***************************************************************************)
EXTENDS MemoryItems

CONSTANT Input        \* the records clients insert

ASSUME InputAssumption == Input \subseteq MemoryItem

VARIABLES memories,   \* _memories: the record stored under each id, or None
          result      \* how the last insert ended

vars == <<memories, result>>

Results == {"none", "stored", "rejected"}

StoredIn(mem) == {i \in MemoryId : mem[i] # None}
Stored == StoredIn(memories)

\* find_active_by_key: the active versions of one chain.
ActiveIn(mem, s, k) ==
  {i \in StoredIn(mem) :
      mem[i].active /\ mem[i].session = s /\ mem[i].key = k}

Active(s, k) == ActiveIn(memories, s, k)

\* find_active_by_key raises MemoryStoreConsistencyError on a second one.
Consistent(mem, s, k) ==
  \A i, j \in ActiveIn(mem, s, k) : i = j

\* find_all_by_key: every version of one chain.
VersionChain(s, k) ==
  {i \in Stored : memories[i].session = s /\ memories[i].key = k}

\* find_active_protected_constraints: what acts on the agent unconditionally.
ActiveProtectedConstraints(s) ==
  {i \in Stored : /\ memories[i].session = s
                  /\ memories[i].type = "constraint"
                  /\ memories[i].active
                  /\ memories[i].protected}

-----------------------------------------------------------------------------

SameVersionChain(old, new) ==
  /\ old.session = new.session
  /\ old.key # None
  /\ old.key = new.key

\* Faulty variant: the named version may already have a successor.
ExplicitPredecessorReused(m) ==
  m.supersedes # None =>
    /\ m.supersedes \in Stored
    /\ SameVersionChain(memories[m.supersedes], m)

\* An explicit `supersedes` names a stored version of the same chain that no
\* other record has replaced.
ExplicitPredecessorOk(m) ==
  m.supersedes # None =>
    /\ m.supersedes \in Stored
    /\ SameVersionChain(memories[m.supersedes], m)
    /\ memories[m.supersedes].supersededBy \in {None, m.id}

\* A new active record may only name the version that is active now.
ExplicitIsCurrent(m) ==
  m.active /\ m.supersedes # None => Active(m.session, m.key) \subseteq {m.supersedes}

\* Faulty variant: the active version is not closed unless the caller names it.
PredecessorNamedOnly(m) == m.supersedes

\* The version that m closes: the active one for an active record, else the
\* one it names.
Predecessor(m) ==
  IF m.key # None /\ m.active /\ Active(m.session, m.key) # {}
  THEN CHOOSE i \in Active(m.session, m.key) : TRUE
  ELSE m.supersedes

VersionTimeOk(old, new) ==
  /\ old.aware = new.aware
  /\ old.validFrom <= new.validFrom

\* The replaced version: closed where the new one starts, and an old
\* constraint no longer protects.
Close(old, m) ==
  [old EXCEPT !.active = FALSE,
              !.validTo = m.validFrom,
              !.supersededBy = m.id,
              !.protected = IF old.type = "constraint" THEN FALSE ELSE old.protected]

\* Faulty variant: the duplicate id check is missing.
AcceptsDuplicate(m) ==
  /\ m.key = None => m.supersedes = None /\ m.supersededBy = None
  /\ ExplicitPredecessorOk(m)
  /\ m.key # None => Consistent(memories, m.session, m.key) /\ ExplicitIsCurrent(m)
  /\ Predecessor(m) # None =>
       /\ VersionTimeOk(memories[Predecessor(m)], m)
       /\ WellFormed(Close(memories[Predecessor(m)], m))

\* The checks insert makes before its first write.
Accepts(m) ==
  /\ m.id \notin Stored
  /\ m.key = None => m.supersedes = None /\ m.supersededBy = None
  /\ ExplicitPredecessorOk(m)
  /\ m.key # None => Consistent(memories, m.session, m.key) /\ ExplicitIsCurrent(m)
  /\ Predecessor(m) # None =>
       /\ VersionTimeOk(memories[Predecessor(m)], m)
       /\ WellFormed(Close(memories[Predecessor(m)], m))

-----------------------------------------------------------------------------

Init ==
  /\ memories = [i \in MemoryId |-> None]
  /\ result = "none"

Reject(m) ==
  /\ ~Accepts(m)
  /\ result' = "rejected"
  /\ UNCHANGED memories

\* No version to close: the record is stored as given.
Keep(m) ==
  /\ Accepts(m)
  /\ Predecessor(m) = None
  /\ memories' = [memories EXCEPT ![m.id] = m]
  /\ result' = IF m.key # None => Consistent(memories', m.session, m.key)
               THEN "stored" ELSE "rejected"

\* Faulty variant: the closed predecessor is filed under the new id.
SupersedeMisfiled(m) ==
  LET p == Predecessor(m)
  IN  /\ Accepts(m)
      /\ p # None
      /\ memories' = [memories EXCEPT ![m.id] = Close(memories[p], m)]
      /\ result' = "stored"

\* The closed predecessor is written first; building the linked copy of m can
\* still raise, and the final look-up can too, with the writes already made.
Supersede(m) ==
  LET p      == Predecessor(m)
      linked == [m EXCEPT !.supersedes = p]
      closed == [memories EXCEPT ![p] = Close(memories[p], m)]
  IN  /\ Accepts(m)
      /\ p # None
      /\ memories' = IF WellFormed(linked) THEN [closed EXCEPT ![m.id] = linked]
                                           ELSE closed
      /\ result' = IF WellFormed(linked) /\ Consistent(memories', m.session, m.key)
                   THEN "stored" ELSE "rejected"

Insert(m) == Reject(m) \/ Keep(m) \/ Supersede(m)

Next == \E m \in Input : Insert(m)

Spec == Init /\ [][Next]_vars

-----------------------------------------------------------------------------
(* Properties *)

TypeOK ==
  /\ memories \in [MemoryId -> MemoryItem \cup {None}]
  /\ \A i \in Stored : memories[i].id = i
  /\ result \in Results

\* "At most one current ACTIVE memory per key": whatever mix of active,
\* historical and explicitly linked records is inserted, a chain never holds
\* two active versions, so find_active_by_key never raises.
AtMostOneActive ==
  \A s \in Session, k \in Key : \A i, j \in Active(s, k) : i = j

\* A stored `supersedes` link is mirrored by the version it points to, which is
\* closed exactly where its successor starts and protects nothing any more.
\* insert writes the two ends at different times and lets callers supply both.
LinksMirrored ==
  \A i \in Stored : memories[i].supersedes # None =>
    LET new == memories[i]
        old == memories[new.supersedes]
    IN  /\ new.supersedes \in Stored
        /\ SameVersionChain(old, new)
        /\ VersionTimeOk(old, new)
        /\ old.supersededBy = i
        /\ old.validTo = new.validFrom
        /\ ~old.active
        /\ ~(old.type = "constraint" /\ old.protected)

\* "The version chain has no cycle": in every set of stored versions some
\* version supersedes nothing in that set.
SupersedesAcyclic ==
  \A S \in SUBSET Stored :
    S # {} => \E i \in S : memories[i].supersedes \notin S

\* Past versions are preserved: a stored record keeps its identity, chain and
\* start for ever, is never reactivated or re-protected, and once it has a
\* successor nothing of it changes again.
HistoryPreserved ==
  [][\A i \in Stored :
       LET old == memories[i]
           new == memories'[i]
       IN  /\ i \in StoredIn(memories')
           /\ new.session = old.session /\ new.key = old.key
           /\ new.type = old.type /\ new.validFrom = old.validFrom
           /\ new.supersedes = old.supersedes
           /\ new.active => old.active
           /\ new.protected => old.protected
           /\ (\E j \in Stored : memories[j].supersedes = i) => new = old]_vars

\* An insert that raises leaves the store as it was, although it replaces the
\* predecessor before the new record is built and checked.
FailedInsertChangesNothing ==
  [][result' = "rejected" => UNCHANGED memories]_vars

\* The store behaves as one register per (session, key): see VersionedRegister.
CurrentVersion ==
  [c \in Session \X Key |->
     IF Active(c[1], c[2]) = {} THEN None
     ELSE CHOOSE i \in Active(c[1], c[2]) : TRUE]

Register == INSTANCE VersionedRegister WITH
  Slot <- Session \X Key, known <- Stored, current <- CurrentVersion

ImplementsRegister == Register!Spec

\* docs/architecture.md: "supersedes / superseded_by refer to memories of the
\* same session".
ReferencesSameSession ==
  \A i, j \in Stored :
    j \in {memories[i].supersedes, memories[i].supersededBy}
      => memories[j].session = memories[i].session

=============================================================================
