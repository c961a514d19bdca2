SPECIFICATION Spec
CONSTANTS
  MemoryId = {m1, m2, m3}
  s1 = s1
  s2 = s2
  k1 = k1
  Session = {s1, s2}
  Key = {k1}
  Time = {0, 1}
  None = None
  Input <- MCInput
SYMMETRY IdSymmetry
INVARIANTS
  TypeOK
  AtMostOneActive
  LinksMirrored
  SupersedesAcyclic
PROPERTIES
  HistoryPreserved
  FailedInsertChangesNothing
  ImplementsRegister
