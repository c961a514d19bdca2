------------------------- MODULE MemoryStoreProofs -------------------------
(***************************************************************************)
(* Proofs about MemoryStore, for every set of ids, sessions, keys, instants *)
(* and inserted records.                                                   *)
(***************************************************************************)
EXTENDS MemoryStore, TLAPS

USE ItemAssumption, InputAssumption

\* The facts about a version p that insert closes for the record m.
Closes(p, m) ==
  /\ p \in Stored
  /\ p # m.id
  /\ SameVersionChain(memories[p], m)
  /\ VersionTimeOk(memories[p], m)
  /\ memories[p].supersededBy \in {None, m.id}
  /\ m.active => Active(m.session, m.key) \subseteq {p}

Linked(m, p) == [m EXCEPT !.supersedes = p]

\* The shapes a step of the store can have.
KeepStep(m) ==
  /\ m.id \notin Stored
  /\ m.supersedes = None
  /\ m.key # None /\ m.active => Active(m.session, m.key) = {}
  /\ memories' = [memories EXCEPT ![m.id] = m]

SupersedeStep(m, p) ==
  /\ m.id \notin Stored
  /\ Closes(p, m)
  /\ WellFormed(Close(memories[p], m))
  /\ WellFormed(Linked(m, p))
  /\ memories' = [memories EXCEPT ![p] = Close(memories[p], m), ![m.id] = Linked(m, p)]

\* An inserted record is well formed and its id is not None.
LEMMA InputItem ==
  ASSUME NEW m \in Input
  PROVE  /\ m \in Fields
         /\ WellFormed(m)
         /\ m.id \in MemoryId
         /\ m.id # None
  BY DEF MemoryItem, Fields

\* A stored record is an item, filed under its own id.
LEMMA StoredItem ==
  ASSUME TypeOK, NEW i \in Stored
  PROVE  /\ i \in MemoryId /\ i # None
         /\ memories[i] \in Fields
         /\ WellFormed(memories[i])
         /\ memories[i].id = i
  BY DEF TypeOK, Stored, StoredIn, MemoryItem

\* Whatever version insert closes, it is a stored version of the same chain
\* with no other successor, and the only active one when m is active.
LEMMA PredecessorCloses ==
  ASSUME TypeOK, AtMostOneActive, NEW m \in Input, Accepts(m), Predecessor(m) # None
  PROVE  Closes(Predecessor(m), m)
  <1> DEFINE p == Predecessor(m)
  <1>1. m.id \notin Stored /\ ExplicitPredecessorOk(m) /\ VersionTimeOk(memories[p], m)
    BY DEF Accepts
  <1>2. m.key # None
    BY DEF Accepts, Predecessor
  <1>3. m.session \in Session /\ m.key \in Key
    BY <1>2, InputItem DEF Fields
  <1>4. CASE m.active /\ Active(m.session, m.key) # {}
    <2>1. p \in Active(m.session, m.key)
      BY <1>2, <1>4 DEF Predecessor
    <2>2. p \in Stored /\ memories[p].active /\ SameVersionChain(memories[p], m)
      BY <2>1, <1>2 DEF Active, ActiveIn, Stored, SameVersionChain
    <2>3. memories[p].supersededBy = None
      BY <2>2, StoredItem DEF WellFormed
    <2>4. Active(m.session, m.key) \subseteq {p}
      BY <2>1, <1>3 DEF AtMostOneActive
    <2> QED
      BY <1>1, <2>2, <2>3, <2>4 DEF Closes
  <1>5. CASE ~(m.active /\ Active(m.session, m.key) # {})
    <2>1. p = m.supersedes /\ m.supersedes # None
      BY <1>5 DEF Predecessor
    <2> QED
      BY <1>1, <1>5, <2>1 DEF Closes, ExplicitPredecessorOk
  <1> QED
    BY <1>4, <1>5

\* The post-conditions insert checks after writing cannot fail: the linked
\* copy of a record that may be stored is well formed.
LEMMA LinkedWellFormed ==
  ASSUME TypeOK, NEW m \in Input, NEW p, Closes(p, m), p = Predecessor(m), p # None
  PROVE  WellFormed(Linked(m, p))
  <1>1. m \in Fields /\ WellFormed(m)
    BY InputItem
  <1>2. p # m.supersededBy
    <2>1. CASE m.active
      BY <2>1, <1>1 DEF WellFormed
    <2>2. CASE ~m.active
      BY <2>2, <1>1 DEF Predecessor, WellFormed
    <2> QED
      BY <2>1, <2>2
  <1> QED
    BY <1>1, <1>2 DEF WellFormed, Linked, Closes, Fields

\* Every step of the store has one of three shapes.
LEMMA StepShape ==
  ASSUME TypeOK, AtMostOneActive, NEW m \in Input, Insert(m)
  PROVE  \/ UNCHANGED memories
         \/ KeepStep(m)
         \/ \E p \in MemoryId : SupersedeStep(m, p)
  <1>1. CASE Reject(m)
    BY <1>1 DEF Reject
  <1>2. CASE Keep(m)
    <2>1. m.id \notin Stored
      BY <1>2 DEF Keep, Accepts
    <2>2. m.key # None /\ m.active => Active(m.session, m.key) = {}
      <3> SUFFICES ASSUME m.key # None, m.active, Active(m.session, m.key) # {}
                   PROVE  FALSE
        OBVIOUS
      <3>1. Predecessor(m) \in Active(m.session, m.key)
        BY DEF Predecessor
      <3>2. Predecessor(m) \in MemoryId
        BY <3>1 DEF Active, ActiveIn, StoredIn
      <3> QED
        BY <3>2, <1>2 DEF Keep
    <2>3. m.supersedes = None
      <3>1. CASE m.key = None
        BY <3>1, <1>2 DEF Keep, Accepts
      <3>2. CASE m.key # None
        BY <3>2, <2>2, <1>2 DEF Keep, Predecessor
      <3> QED
        BY <3>1, <3>2
    <2> QED
      BY <1>2, <2>1, <2>2, <2>3 DEF Keep, KeepStep
  <1>3. CASE Supersede(m)
    <2> DEFINE p == Predecessor(m)
    <2>1. Accepts(m) /\ p # None
      BY <1>3 DEF Supersede
    <2>2. Closes(p, m)
      BY <2>1, PredecessorCloses
    <2>3. WellFormed(Linked(m, p))
      BY <2>1, <2>2, LinkedWellFormed
    <2>4. memories' = [memories EXCEPT ![p] = Close(memories[p], m), ![m.id] = Linked(m, p)]
      BY <1>3, <2>3 DEF Supersede, Linked
    <2>5. SupersedeStep(m, p)
      BY <2>1, <2>2, <2>3, <2>4 DEF SupersedeStep, Accepts
    <2>6. p \in MemoryId
      BY <2>2 DEF Closes, Stored, StoredIn
    <2> QED
      BY <2>5, <2>6
  <1> QED
    BY <1>1, <1>2, <1>3 DEF Insert

-----------------------------------------------------------------------------
(* What each shape does to the stored records. *)

\* Closing a record gives a record.
LEMMA CloseType ==
  ASSUME NEW old \in Fields, NEW m \in Fields
  PROVE  Close(old, m) \in Fields
  <1> DEFINE prot == IF old.type = "constraint" THEN FALSE ELSE old.protected
  <1>1. prot \in BOOLEAN
    BY DEF Fields
  <1>2. Close(old, m) = [old EXCEPT !.active = FALSE, !.validTo = m.validFrom,
                                    !.supersededBy = m.id, !.protected = prot]
    BY DEF Close
  <1> HIDE DEF prot
  <1> QED
    BY <1>1, <1>2 DEF Fields

\* A kept record is the only entry that changes.
LEMMA KeepEffect ==
  ASSUME TypeOK, NEW m \in Input, KeepStep(m)
  PROVE  /\ StoredIn(memories') = Stored \cup {m.id}
         /\ memories'[m.id] = m
         /\ \A i \in Stored : i # m.id /\ memories'[i] = memories[i]
  <1>1. m.id \in MemoryId /\ m \in Fields /\ m # None
    BY InputItem
  <1>2. /\ memories'[m.id] = m
        /\ \A i \in MemoryId \ {m.id} : memories'[i] = memories[i]
    BY <1>1 DEF KeepStep, TypeOK
  <1> QED
    BY <1>1, <1>2 DEF KeepStep, Stored, StoredIn

\* A superseding record changes its predecessor and its own entry.
LEMMA SupersedeEffect ==
  ASSUME TypeOK, NEW m \in Input, NEW p \in MemoryId, SupersedeStep(m, p)
  PROVE  /\ StoredIn(memories') = Stored \cup {m.id}
         /\ p \in Stored /\ p # m.id
         /\ memories'[m.id] = Linked(m, p)
         /\ memories'[p] = Close(memories[p], m)
         /\ \A i \in Stored \ {p} : i # m.id /\ memories'[i] = memories[i]
         /\ Linked(m, p) \in Fields
         /\ Close(memories[p], m) \in Fields
  <1>1. m.id \in MemoryId /\ m \in Fields
    BY InputItem
  <1>2. p \in Stored /\ p # m.id /\ m.id \notin Stored
    BY DEF SupersedeStep, Closes
  <1>3. Linked(m, p) \in Fields
    BY <1>1 DEF Linked, Fields
  <1>4. Close(memories[p], m) \in Fields
    <2>1. memories[p] \in Fields
      BY <1>2, StoredItem
    <2> QED
      BY <2>1, <1>1, CloseType
  <1>5. Linked(m, p) # None /\ Close(memories[p], m) # None
    BY <1>3, <1>4
  <1>6. /\ memories'[m.id] = Linked(m, p)
        /\ memories'[p] = Close(memories[p], m)
        /\ \A i \in MemoryId \ {p, m.id} : memories'[i] = memories[i]
    BY <1>1, <1>2 DEF SupersedeStep, TypeOK
  <1> QED
    BY <1>1, <1>2, <1>3, <1>4, <1>5, <1>6 DEF Stored, StoredIn

\* The fields of a linked and of a closed record.
LEMMA LinkedFields ==
  ASSUME NEW m \in Fields, NEW p
  PROVE  /\ Linked(m, p).supersedes = p
         /\ Linked(m, p).id = m.id
         /\ Linked(m, p).session = m.session
         /\ Linked(m, p).key = m.key
         /\ Linked(m, p).type = m.type
         /\ Linked(m, p).aware = m.aware
         /\ Linked(m, p).validFrom = m.validFrom
         /\ Linked(m, p).active = m.active
         /\ Linked(m, p).protected = m.protected
         /\ Linked(m, p).supersededBy = m.supersededBy
  BY DEF Linked, Fields

LEMMA CloseFields ==
  ASSUME NEW old \in Fields, NEW m
  PROVE  /\ Close(old, m).id = old.id
         /\ Close(old, m).session = old.session
         /\ Close(old, m).key = old.key
         /\ Close(old, m).type = old.type
         /\ Close(old, m).aware = old.aware
         /\ Close(old, m).validFrom = old.validFrom
         /\ Close(old, m).supersedes = old.supersedes
  BY DEF Close, Fields

LEMMA CloseSets ==
  ASSUME NEW old \in Fields, NEW m
  PROVE  /\ ~Close(old, m).active
         /\ Close(old, m).validTo = m.validFrom
         /\ Close(old, m).supersededBy = m.id
  BY DEF Close, Fields

\* A closed constraint protects nothing, and closing protects nothing new.
LEMMA CloseProtection ==
  ASSUME NEW old \in Fields, NEW m
  PROVE  /\ ~(Close(old, m).type = "constraint" /\ Close(old, m).protected)
         /\ Close(old, m).protected => old.protected
  BY DEF Close, Fields

\* What closing a version and adding its successor leaves alone.
LEMMA SupersedeKeeps ==
  ASSUME TypeOK, NEW m \in Input, NEW p \in MemoryId, SupersedeStep(m, p), NEW i \in Stored
  PROVE  /\ memories'[i].id = memories[i].id
         /\ memories'[i].session = memories[i].session
         /\ memories'[i].key = memories[i].key
         /\ memories'[i].type = memories[i].type
         /\ memories'[i].aware = memories[i].aware
         /\ memories'[i].validFrom = memories[i].validFrom
         /\ memories'[i].supersedes = memories[i].supersedes
  <1>1. CASE i = p
    <2>1. memories'[i] = Close(memories[i], m) /\ memories[i] \in Fields
      BY <1>1, SupersedeEffect, StoredItem
    <2> QED
      BY <2>1, CloseFields
  <1>2. CASE i # p
    BY <1>2, SupersedeEffect
  <1> QED
    BY <1>1, <1>2

-----------------------------------------------------------------------------
(* The inductive invariant and its preservation, conjunct by conjunct. *)

IInv ==
  /\ TypeOK
  /\ AtMostOneActive
  /\ LinksMirrored
  /\ SupersedesAcyclic

LEMMA InitIInv == Init => IInv
  BY DEF Init, IInv, TypeOK, AtMostOneActive, LinksMirrored, SupersedesAcyclic,
         Stored, StoredIn, Active, ActiveIn, Results

LEMMA StepTypeOK ==
  ASSUME IInv, [Next]_vars
  PROVE  TypeOK'
  <1> USE DEF IInv
  <1>1. CASE UNCHANGED vars
    BY <1>1 DEF vars, TypeOK, Stored, StoredIn
  <1>2. ASSUME NEW m \in Input, Insert(m)
        PROVE  TypeOK'
    <2>1. result' \in Results
      BY <1>2 DEF Insert, Reject, Keep, Supersede, Results
    <2>2. CASE UNCHANGED memories
      BY <2>1, <2>2 DEF TypeOK, Stored, StoredIn
    <2>3. CASE KeepStep(m)
      <3>1. memories' \in [MemoryId -> MemoryItem \cup {None}]
        BY <2>3, InputItem DEF KeepStep, TypeOK, MemoryItem
      <3>2. \A i \in StoredIn(memories') : memories'[i].id = i
        BY <2>3, KeepEffect, StoredItem
      <3> QED
        BY <2>1, <3>1, <3>2 DEF TypeOK, Stored, StoredIn
    <2>4. ASSUME NEW p \in MemoryId, SupersedeStep(m, p)
          PROVE  TypeOK'
      <3>1. Linked(m, p) \in MemoryItem /\ Close(memories[p], m) \in MemoryItem
        BY <2>4, SupersedeEffect DEF SupersedeStep, MemoryItem
      <3>2. memories' \in [MemoryId -> MemoryItem \cup {None}]
        BY <2>4, <3>1 DEF SupersedeStep, TypeOK
      <3>3. Linked(m, p).id = m.id
        BY InputItem, LinkedFields
      <3>4. Close(memories[p], m).id = p
        <4>1. memories[p] \in Fields /\ memories[p].id = p
          BY <2>4, SupersedeEffect, StoredItem
        <4> QED
          BY <4>1, CloseFields
      <3>5. \A i \in StoredIn(memories') : memories'[i].id = i
        BY <2>4, <3>3, <3>4, SupersedeEffect, StoredItem
      <3> QED
        BY <2>1, <3>2, <3>5 DEF TypeOK, Stored, StoredIn
    <2> QED
      BY <1>2, <2>2, <2>3, <2>4, StepShape
  <1> QED
    BY <1>1, <1>2 DEF Next

LEMMA StepAtMostOneActive ==
  ASSUME IInv, [Next]_vars
  PROVE  AtMostOneActive'
  <1> USE DEF IInv
  <1>1. CASE UNCHANGED memories
    BY <1>1 DEF AtMostOneActive, Active, ActiveIn, StoredIn
  <1>2. ASSUME NEW m \in Input, Insert(m), ~UNCHANGED memories
        PROVE  AtMostOneActive'
    <2> SUFFICES ASSUME NEW s \in Session, NEW k \in Key,
                        NEW i \in ActiveIn(memories', s, k), NEW j \in ActiveIn(memories', s, k)
                 PROVE  i = j
      BY DEF AtMostOneActive, Active
    <2>1. CASE KeepStep(m)
      <3>1. \A h \in ActiveIn(memories', s, k) \ {m.id} : h \in Active(s, k)
        BY <2>1, KeepEffect DEF Active, ActiveIn, Stored
      <3>2. m.id \in ActiveIn(memories', s, k) => Active(s, k) = {}
        <4> SUFFICES ASSUME m.id \in ActiveIn(memories', s, k)
                     PROVE  Active(s, k) = {}
          OBVIOUS
        <4>1. m.active /\ m.session = s /\ m.key = k
          BY <2>1, KeepEffect DEF ActiveIn
        <4>2. k # None
          OBVIOUS
        <4> QED
          BY <2>1, <4>1, <4>2 DEF KeepStep
      <3> QED
        BY <3>1, <3>2 DEF AtMostOneActive
    <2>2. ASSUME NEW p \in MemoryId, SupersedeStep(m, p)
          PROVE  i = j
      <3>1. \A h \in ActiveIn(memories', s, k) \ {m.id} : h \in Active(s, k) \ {p}
        <4>1. memories[p] \in Fields
          BY <2>2, SupersedeEffect, StoredItem
        <4>2. ~memories'[p].active
          <5>1. memories'[p] = Close(memories[p], m)
            BY <2>2, SupersedeEffect
          <5>2. ~Close(memories[p], m).active
            BY <4>1, CloseSets
          <5> QED
            BY <5>1, <5>2
        <4> QED
          BY <2>2, <4>2, SupersedeEffect DEF Active, ActiveIn, Stored
      <3>2. m.id \in ActiveIn(memories', s, k) => Active(s, k) \subseteq {p}
        <4> SUFFICES ASSUME m.id \in ActiveIn(memories', s, k)
                     PROVE  Active(s, k) \subseteq {p}
          OBVIOUS
        <4>1. Linked(m, p).active /\ Linked(m, p).session = s /\ Linked(m, p).key = k
          BY <2>2, SupersedeEffect DEF ActiveIn
        <4>2. m.active /\ m.session = s /\ m.key = k
          BY <4>1, InputItem, LinkedFields
        <4> QED
          BY <2>2, <4>2 DEF SupersedeStep, Closes
      <3> QED
        BY <3>1, <3>2 DEF AtMostOneActive
    <2> QED
      BY <1>2, <2>1, <2>2, StepShape
  <1> QED
    BY <1>1, <1>2 DEF Next, vars

LEMMA StepLinksMirrored ==
  ASSUME IInv, [Next]_vars
  PROVE  LinksMirrored'
  <1> USE DEF IInv
  <1>1. CASE UNCHANGED memories
    BY <1>1 DEF LinksMirrored, Stored, StoredIn
  <1>2. ASSUME NEW m \in Input, Insert(m), ~UNCHANGED memories
        PROVE  LinksMirrored'
    <2> DEFINE Mirrored(mem, i) ==
                 LET new == mem[i]
                     old == mem[new.supersedes]
                 IN  /\ new.supersedes \in StoredIn(mem)
                     /\ SameVersionChain(old, new)
                     /\ VersionTimeOk(old, new)
                     /\ old.supersededBy = i
                     /\ old.validTo = new.validFrom
                     /\ ~old.active
                     /\ ~(old.type = "constraint" /\ old.protected)
    <2> SUFFICES ASSUME NEW i \in StoredIn(memories'), memories'[i].supersedes # None
                 PROVE  Mirrored(memories', i)
      BY DEF LinksMirrored, Stored
    <2>0. \A h \in Stored : memories[h].supersedes # None => Mirrored(memories, h)
      BY DEF LinksMirrored, Stored
    <2>1. CASE KeepStep(m)
      <3>1. i # m.id
        BY <2>1, KeepEffect DEF KeepStep
      <3>2. i \in Stored /\ memories'[i] = memories[i]
        BY <2>1, <3>1, KeepEffect
      <3>3. Mirrored(memories, i)
        BY <3>2, <2>0
      <3>4. memories'[memories[i].supersedes] = memories[memories[i].supersedes]
        BY <2>1, <3>3, KeepEffect DEF Stored
      <3> QED
        BY <2>1, <3>2, <3>3, <3>4, KeepEffect DEF Stored
    <2>2. ASSUME NEW p \in MemoryId, SupersedeStep(m, p)
          PROVE  Mirrored(memories', i)
      <3>1. memories[p] \in Fields /\ m \in Fields
        BY <2>2, SupersedeEffect, StoredItem, InputItem
      <3>2. CASE i = m.id
        <4>1. memories'[i] = Linked(m, p) /\ memories'[p] = Close(memories[p], m)
          BY <2>2, <3>2, SupersedeEffect
        <4>2. p \in StoredIn(memories')
          BY <2>2, SupersedeEffect
        <4>3. SameVersionChain(memories[p], m) /\ VersionTimeOk(memories[p], m)
          BY <2>2 DEF SupersedeStep, Closes
        <4>4. /\ Linked(m, p).supersedes = p
              /\ Linked(m, p).session = m.session /\ Linked(m, p).key = m.key
              /\ Linked(m, p).aware = m.aware /\ Linked(m, p).validFrom = m.validFrom
          BY <3>1, LinkedFields
        <4>5. /\ Close(memories[p], m).session = memories[p].session
              /\ Close(memories[p], m).key = memories[p].key
              /\ Close(memories[p], m).aware = memories[p].aware
              /\ Close(memories[p], m).validFrom = memories[p].validFrom
          BY <3>1, CloseFields
        <4>6. /\ Close(memories[p], m).supersededBy = m.id
              /\ Close(memories[p], m).validTo = m.validFrom
              /\ ~Close(memories[p], m).active
          BY <3>1, CloseSets
        <4>7. ~(Close(memories[p], m).type = "constraint" /\ Close(memories[p], m).protected)
          BY <3>1, CloseProtection
        <4> QED
          BY <3>2, <4>1, <4>2, <4>3, <4>4, <4>5, <4>6, <4>7 DEF SameVersionChain, VersionTimeOk
      <3>3. CASE i # m.id
        <4>1. i \in Stored
          BY <2>2, <3>3, SupersedeEffect
        <4>2. /\ memories'[i].supersedes = memories[i].supersedes
              /\ memories'[i].session = memories[i].session
              /\ memories'[i].key = memories[i].key
              /\ memories'[i].aware = memories[i].aware
              /\ memories'[i].validFrom = memories[i].validFrom
          BY <2>2, <4>1, SupersedeKeeps
        <4>3. Mirrored(memories, i)
          BY <4>1, <4>2, <2>0
        <4> DEFINE q == memories[i].supersedes
        <4>4. q # p
          \* p has no successor but m, and i, stored already, is not m
          <5>1. memories[p].supersededBy \in {None, m.id}
            BY <2>2 DEF SupersedeStep, Closes
          <5>2. memories[q].supersededBy = i /\ i # None
            BY <4>1, <4>3, StoredItem
          <5> QED
            BY <5>1, <5>2, <3>3
        <4>5. memories'[q] = memories[q] /\ q \in StoredIn(memories')
          BY <2>2, <4>3, <4>4, SupersedeEffect DEF Stored
        <4> QED
          BY <4>2, <4>3, <4>5 DEF SameVersionChain, VersionTimeOk
      <3> QED
        BY <3>2, <3>3
    <2> QED
      BY <1>2, <2>1, <2>2, StepShape
  <1> QED
    BY <1>1, <1>2 DEF Next, vars

LEMMA StepSupersedesAcyclic ==
  ASSUME IInv, [Next]_vars
  PROVE  SupersedesAcyclic'
  <1> USE DEF IInv
  <1>1. CASE UNCHANGED memories
    BY <1>1 DEF SupersedesAcyclic, Stored, StoredIn
  <1>2. ASSUME NEW m \in Input, Insert(m), ~UNCHANGED memories
        PROVE  SupersedesAcyclic'
    <2>1. /\ StoredIn(memories') = Stored \cup {m.id}
          /\ m.id \notin Stored
          /\ \A i \in Stored : memories'[i].supersedes = memories[i].supersedes
      <3>1. CASE KeepStep(m)
        BY <3>1, KeepEffect DEF KeepStep
      <3>2. ASSUME NEW p \in MemoryId, SupersedeStep(m, p)
            PROVE  <2>1!1 /\ <2>1!2 /\ <2>1!3
        BY <3>2, SupersedeEffect, SupersedeKeeps DEF SupersedeStep
      <3> QED
        BY <1>2, <3>1, <3>2, StepShape
    <2>2. \A i \in Stored : memories[i].supersedes # m.id
      \* a stored link points to a stored version, and m is new
      BY <2>1, InputItem DEF LinksMirrored
    <2> SUFFICES ASSUME NEW S \in SUBSET StoredIn(memories'), S # {}
                 PROVE  \E i \in S : memories'[i].supersedes \notin S
      BY DEF SupersedesAcyclic, Stored
    <2>3. CASE S \ {m.id} = {}
      <3>1. S = {m.id}
        BY <2>3
      <3>2. memories'[m.id].supersedes # m.id
        <4>1. CASE KeepStep(m)
          BY <4>1, KeepEffect, InputItem DEF KeepStep
        <4>2. ASSUME NEW p \in MemoryId, SupersedeStep(m, p)
              PROVE  memories'[m.id].supersedes # m.id
          BY <4>2, SupersedeEffect, LinkedFields, InputItem
        <4> QED
          BY <1>2, <4>1, <4>2, StepShape
      <3> QED
        BY <3>1, <3>2
    <2>4. CASE S \ {m.id} # {}
      <3>1. S \ {m.id} \in SUBSET Stored
        BY <2>1
      <3>2. PICK i \in S \ {m.id} : memories[i].supersedes \notin S \ {m.id}
        BY <2>4, <3>1 DEF SupersedesAcyclic
      <3>3. memories'[i].supersedes \notin S
        BY <2>1, <2>2, <3>1, <3>2
      <3> QED
        BY <3>3
    <2> QED
      BY <2>3, <2>4
  <1> QED
    BY <1>1, <1>2 DEF Next, vars

-----------------------------------------------------------------------------
(* Theorems *)

\* The strengthened invariant holds in every reachable state.
THEOREM Invariance == Spec => []IInv
  <1>1. Init => IInv
    BY InitIInv
  <1>2. IInv /\ [Next]_vars => IInv'
    BY StepTypeOK, StepAtMostOneActive, StepLinksMirrored, StepSupersedesAcyclic DEF IInv
  <1> QED
    BY <1>1, <1>2, PTL DEF Spec

\* Stored values are well-formed records filed under their own ids.
THEOREM TypeCorrect == Spec => []TypeOK
  BY Invariance, PTL DEF IInv

\* docs/architecture.md: at most one active memory per session and key.
THEOREM ActiveUnique == Spec => []AtMostOneActive
  BY Invariance, PTL DEF IInv

\* Every supersedes link is mirrored by a closed, unprotected predecessor.
THEOREM LinksAreMirrored == Spec => []LinksMirrored
  BY Invariance, PTL DEF IInv

\* docs/architecture.md: the version chain has no cycle (along supersedes).
THEOREM ChainAcyclic == Spec => []SupersedesAcyclic
  BY Invariance, PTL DEF IInv

-----------------------------------------------------------------------------
(* Action properties. *)

\* A kept or superseding record is always reported as stored: the checks that
\* insert makes after its writes never fire.
LEMMA AcceptedIsStored ==
  ASSUME IInv, NEW m \in Input, Keep(m) \/ Supersede(m)
  PROVE  result' = "stored"
  <1>1. AtMostOneActive'
    BY StepAtMostOneActive DEF Next, Insert
  <1>2. m.key # None => Consistent(memories', m.session, m.key)
    BY <1>1, InputItem DEF AtMostOneActive, Consistent, Active, Fields
  <1>3. CASE Keep(m)
    BY <1>2, <1>3 DEF Keep
  <1>4. CASE Supersede(m)
    <2> DEFINE p == Predecessor(m)
    <2>1. Accepts(m) /\ p # None
      BY <1>4 DEF Supersede
    <2>2. m.key # None
      BY <2>1 DEF Accepts, Predecessor
    <2>3. Closes(p, m)
      BY <2>1, PredecessorCloses DEF IInv
    <2>4. WellFormed(Linked(m, p))
      BY <2>1, <2>3, LinkedWellFormed DEF IInv
    <2> QED
      BY <1>2, <1>4, <2>2, <2>4 DEF Supersede, Linked
  <1> QED
    BY <1>3, <1>4

\* An insert that raises leaves the store as it was.
THEOREM RejectionIsAtomic == Spec => FailedInsertChangesNothing
  <1>1. IInv /\ [Next]_vars => [result' = "rejected" => UNCHANGED memories]_vars
    <2> SUFFICES ASSUME IInv, NEW m \in Input, Insert(m), result' = "rejected"
                 PROVE  UNCHANGED memories
      BY DEF Next, vars
    <2>1. Reject(m)
      BY AcceptedIsStored DEF Insert
    <2> QED
      BY <2>1 DEF Reject
  <1> QED
    BY <1>1, Invariance, PTL DEF Spec, FailedInsertChangesNothing

\* What HistoryPreserved says of one stored version in one step.
Preserved(i) ==
  LET old == memories[i]
      new == memories'[i]
  IN  /\ i \in StoredIn(memories')
      /\ new.session = old.session /\ new.key = old.key
      /\ new.type = old.type /\ new.validFrom = old.validFrom
      /\ new.supersedes = old.supersedes
      /\ new.active => old.active
      /\ new.protected => old.protected
      /\ (\E j \in Stored : memories[j].supersedes = i) => new = old

\* One step preserves every stored version.
LEMMA StepPreserves ==
  ASSUME IInv, [Next]_vars, NEW i \in Stored
  PROVE  Preserved(i)
  <1> USE DEF IInv
  <1>1. CASE UNCHANGED memories
    BY <1>1 DEF Preserved, Stored
  <1>2. ASSUME NEW m \in Input, Insert(m), ~UNCHANGED memories
        PROVE  Preserved(i)
    <2>1. CASE KeepStep(m)
      BY <2>1, KeepEffect DEF Preserved
    <2>2. ASSUME NEW p \in MemoryId, SupersedeStep(m, p)
          PROVE  Preserved(i)
      <3>1. i \in StoredIn(memories')
        BY <2>2, SupersedeEffect
      <3>2. CASE i # p
        <4>1. memories'[i] = memories[i]
          BY <2>2, <3>2, SupersedeEffect
        <4> QED
          BY <3>1, <4>1 DEF Preserved
      <3>3. CASE i = p
        <4>1. memories'[i] = Close(memories[i], m) /\ memories[i] \in Fields
          BY <2>2, <3>3, SupersedeEffect, StoredItem
        <4>2. ~memories'[i].active
          BY <4>1, CloseSets
        <4>3. memories'[i].protected => memories[i].protected
          BY <4>1, CloseProtection
        <4>4. \A j \in Stored : memories[j].supersedes # i
          \* a successor of p would be m itself, which is not stored yet
          <5> SUFFICES ASSUME NEW j \in Stored, memories[j].supersedes = i
                       PROVE  FALSE
            OBVIOUS
          <5>1. i # None
            BY StoredItem
          <5>2. memories[i].supersededBy = j
            BY <5>1 DEF LinksMirrored
          <5>3. memories[i].supersededBy \in {None, m.id} /\ m.id \notin Stored
            BY <2>2, <3>3 DEF SupersedeStep, Closes
          <5> QED
            BY <5>2, <5>3, StoredItem
        <4> QED
          BY <2>2, <3>1, <4>2, <4>3, <4>4, SupersedeKeeps DEF Preserved
      <3> QED
        BY <3>2, <3>3
    <2> QED
      BY <1>2, <2>1, <2>2, StepShape
  <1> QED
    BY <1>1, <1>2 DEF Next, vars

\* Past versions are preserved in every behaviour.
THEOREM HistoryIsPreserved == Spec => HistoryPreserved
  <1>1. IInv /\ [Next]_vars => [\A i \in Stored : Preserved(i)]_vars
    BY StepPreserves
  <1> QED
    BY <1>1, Invariance, PTL DEF Spec, HistoryPreserved, Preserved

-----------------------------------------------------------------------------
(* The store implements the versioned register. *)

\* The current version of a chain whose active versions are A.
Only(A) == IF A = {} THEN None ELSE CHOOSE i \in A : TRUE

LEMMA OnlyOne == Only({}) = None /\ \A i : Only({i}) = i
  BY DEF Only

\* Which versions of a chain are active after an insertion.
LEMMA ActiveAfter ==
  ASSUME IInv, NEW m \in Input, NEW s \in Session, NEW k \in Key
  PROVE  LET own == IF m.active /\ m.session = s /\ m.key = k THEN {m.id} ELSE {}
         IN  /\ KeepStep(m) => Active(s, k)' = Active(s, k) \cup own
             /\ \A p \in MemoryId : SupersedeStep(m, p) =>
                  Active(s, k)' = (Active(s, k) \ {p}) \cup own
  <1> USE DEF IInv
  <1>1. ASSUME KeepStep(m)
        PROVE  \A i : i \in Active(s, k)' <=>
                 i \in Active(s, k) \/ (i = m.id /\ m.active /\ m.session = s /\ m.key = k)
    BY <1>1, KeepEffect DEF Active, ActiveIn, Stored
  <1>2. ASSUME NEW p \in MemoryId, SupersedeStep(m, p)
        PROVE  \A i : i \in Active(s, k)' <=>
                 \/ i \in Active(s, k) \ {p}
                 \/ i = m.id /\ m.active /\ m.session = s /\ m.key = k
    <2>1. memories'[p] = Close(memories[p], m) /\ memories[p] \in Fields
      BY <1>2, SupersedeEffect, StoredItem
    <2>2. ~memories'[p].active
      BY <2>1, CloseSets
    <2>3. memories'[m.id] = Linked(m, p) /\ m \in Fields
      BY <1>2, SupersedeEffect, InputItem
    <2>4. /\ memories'[m.id].session = m.session /\ memories'[m.id].key = m.key
          /\ memories'[m.id].active <=> m.active
      BY <2>3, LinkedFields
    <2> QED
      BY <1>2, <2>2, <2>4, SupersedeEffect DEF Active, ActiveIn, Stored
  <1> QED
    BY <1>1, <1>2

\* Keeping m changes no chain that m does not become active in.
LEMMA KeepElsewhere ==
  ASSUME IInv, NEW m \in Input, KeepStep(m), NEW s \in Session, NEW k \in Key,
         ~(m.active /\ m.session = s /\ m.key = k)
  PROVE  Active(s, k)' = Active(s, k)
  <1>1. \A i : i \in Active(s, k)' <=> i \in Active(s, k)
    BY KeepEffect DEF IInv, Active, ActiveIn, Stored
  <1> QED
    BY <1>1

\* CurrentVersion, with the choice named.
LEMMA CurrentIsOnly ==
  CurrentVersion = [c \in Session \X Key |-> Only(Active(c[1], c[2]))]
  BY DEF CurrentVersion, Only

LEMMA CurrentIsOnlyNext ==
  CurrentVersion' = [c \in Session \X Key |-> Only(Active(c[1], c[2])')]
  BY DEF CurrentVersion, Only

\* One insertion publishes, archives or withdraws.
LEMMA InsertIsRegisterStep ==
  ASSUME IInv, NEW m \in Input, Insert(m), ~UNCHANGED memories
  PROVE  Register!Next
  <1> DEFINE c == <<m.session, m.key>>
  <1>1. m.id \in MemoryId /\ m.session \in Session /\ m.key \in Key \cup {None} /\ m \in Fields
    BY InputItem DEF Fields
  <1>2. CASE KeepStep(m)
    <2>1. m.id \notin Stored /\ Stored' = Stored \cup {m.id}
      BY <1>2, KeepEffect DEF KeepStep, IInv, Stored
    <2>2. CASE m.active /\ m.key # None
      <3>1. c \in Session \X Key /\ Active(c[1], c[2]) = {}
        BY <1>1, <1>2, <2>2 DEF KeepStep
      <3>2. Active(c[1], c[2])' = {m.id}
        BY <1>1, <1>2, <2>2, <3>1, ActiveAfter
      <3>3. \A d \in Session \X Key : d # c => Active(d[1], d[2])' = Active(d[1], d[2])
        <4> SUFFICES ASSUME NEW d \in Session \X Key, d # c
                     PROVE  Active(d[1], d[2])' = Active(d[1], d[2])
          OBVIOUS
        <4>1. d[1] \in Session /\ d[2] \in Key /\ ~(m.session = d[1] /\ m.key = d[2])
          OBVIOUS
        <4> QED
          BY <1>2, <4>1, KeepElsewhere
      <3>4. CurrentVersion' = [CurrentVersion EXCEPT ![c] = m.id]
        BY <3>1, <3>2, <3>3, OnlyOne, CurrentIsOnly, CurrentIsOnlyNext
      <3> QED
        BY <1>1, <2>1, <3>1, <3>4 DEF Register!Next, Register!Publish
    <2>3. CASE ~(m.active /\ m.key # None)
      <3>1. \A d \in Session \X Key : Active(d[1], d[2])' = Active(d[1], d[2])
        <4> SUFFICES ASSUME NEW d \in Session \X Key
                     PROVE  Active(d[1], d[2])' = Active(d[1], d[2])
          OBVIOUS
        <4>1. d[1] \in Session /\ d[2] \in Key /\ d[2] # None
          OBVIOUS
        <4>2. ~(m.active /\ m.session = d[1] /\ m.key = d[2])
          BY <2>3, <4>1
        <4> QED
          BY <1>2, <4>1, <4>2, KeepElsewhere
      <3>2. CurrentVersion' = CurrentVersion
        BY <3>1, CurrentIsOnly, CurrentIsOnlyNext
      <3> QED
        BY <1>1, <2>1, <3>2 DEF Register!Next, Register!Archive
    <2> QED
      BY <2>2, <2>3
  <1>3. ASSUME NEW p \in MemoryId, SupersedeStep(m, p)
        PROVE  Register!Next
    <2>1. m.id \notin Stored /\ Stored' = Stored \cup {m.id}
      BY <1>3, SupersedeEffect DEF SupersedeStep, IInv, Stored
    <2>2. p \in Stored /\ p # None /\ SameVersionChain(memories[p], m)
      BY <1>3, StoredItem DEF SupersedeStep, Closes, IInv
    <2>3. c \in Session \X Key
      BY <1>1, <2>2 DEF SameVersionChain
    <2>4. \A d \in Session \X Key : d # c => p \notin Active(d[1], d[2])
      BY <2>2 DEF SameVersionChain, Active, ActiveIn
    <2>5. \A d \in Session \X Key : d # c => Active(d[1], d[2])' = Active(d[1], d[2])
      BY <1>3, <2>4, ActiveAfter
    <2>6. p \in Active(m.session, m.key) <=> memories[p].active
      BY <2>2 DEF Active, ActiveIn, Stored, SameVersionChain
    <2>7. p \in Active(m.session, m.key) => Active(m.session, m.key) = {p}
      BY <1>1, <2>3 DEF IInv, AtMostOneActive
    <2>8. CASE m.active
      <3>1. Active(c[1], c[2])' = {m.id}
        BY <1>3, <2>3, <2>8, ActiveAfter DEF SupersedeStep, Closes
      <3>2. CurrentVersion' = [CurrentVersion EXCEPT ![c] = m.id]
        BY <2>3, <2>5, <3>1, OnlyOne, CurrentIsOnly, CurrentIsOnlyNext
      <3> QED
        BY <1>1, <2>1, <2>3, <3>2 DEF Register!Next, Register!Publish
    <2>9. CASE ~m.active /\ p \in Active(m.session, m.key)
      <3>1. Active(c[1], c[2]) = {p} /\ Active(c[1], c[2])' = {}
        BY <1>3, <2>3, <2>7, <2>9, ActiveAfter
      <3>2. CurrentVersion[c] # None
        BY <2>2, <2>3, <3>1, OnlyOne, CurrentIsOnly
      <3>3. CurrentVersion' = [CurrentVersion EXCEPT ![c] = None]
        BY <2>3, <2>5, <3>1, OnlyOne, CurrentIsOnly, CurrentIsOnlyNext
      <3> QED
        BY <1>1, <2>1, <2>3, <3>2, <3>3 DEF Register!Next, Register!Withdraw
    <2>10. CASE ~m.active /\ p \notin Active(m.session, m.key)
      <3>1. Active(c[1], c[2])' = (Active(c[1], c[2]) \ {p}) \cup {}
        BY <1>3, <2>3, <2>10, ActiveAfter
      <3>0. p \notin Active(c[1], c[2])
        BY <2>10
      <3>2. \A d \in Session \X Key : Active(d[1], d[2])' = Active(d[1], d[2])
        BY <2>5, <3>0, <3>1
      <3>3. CurrentVersion' = CurrentVersion
        BY <3>2, CurrentIsOnly, CurrentIsOnlyNext
      <3> QED
        BY <1>1, <2>1, <3>3 DEF Register!Next, Register!Archive
    <2> QED
      BY <2>8, <2>9, <2>10
  <1> QED
    BY <1>2, <1>3, StepShape DEF IInv

\* The store implements the register: initial states and steps map to it.
THEOREM StoreImplementsRegister == Spec => ImplementsRegister
  <1>1. Init => Register!Init
    BY OnlyOne, CurrentIsOnly DEF Init, Register!Init, Stored, StoredIn, Active, ActiveIn
  <1>2. IInv /\ [Next]_vars => [Register!Next]_Register!regvars
    <2>1. CASE UNCHANGED memories
      BY <2>1 DEF Register!regvars, Stored, StoredIn, CurrentVersion, Active, ActiveIn
    <2>2. ASSUME IInv, NEW m \in Input, Insert(m), ~UNCHANGED memories
          PROVE  Register!Next
      BY <2>2, InsertIsRegisterStep
    <2> QED
      BY <2>1, <2>2 DEF Next, vars
  <1> QED
    BY <1>1, <1>2, Invariance, PTL DEF Spec, ImplementsRegister, Register!Spec

=============================================================================
