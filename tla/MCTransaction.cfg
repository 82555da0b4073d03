CONSTANTS
  Txn <- MCTxn
  Journal <- MCJournal
  Rec <- MCOneRec
  t1 = t1
  t2 = t2
  j1 = j1
  j2 = j2
  j3 = j3
  r1 = r1
  r2 = r2
  NoTxn = NoTxn
  NoRecord = NoRecord
  NoSnap = NoSnap
  SnapshotTxns = {}
  Timeouts = {TRUE, FALSE}
  MaxRewind = 1
SPECIFICATION Spec
INVARIANTS
  TypeOK
  SerialVersions
  VersionsMatchAnnals
PROPERTIES
  ImplementsLockTable
SYMMETRY Symm
