\* Two transactions with one journal each: a Storage snapshot taken while a Rubicon finalizes.
CONSTANTS
  Txn <- MCTxn
  Journal <- MCTwoJournals
  Rec <- MCOneRec
  t1 = t1
  t2 = t2
  j1 = j1
  j2 = j2
  j3 = j3
  r1 = r1
  r2 = r2
  NoTxn = NoTxn
  NoRecord = NoRecord
  NoSnap = NoSnap
  SnapshotTxns = {}
  Timeouts = {TRUE}
  MaxRewind = 0
SPECIFICATION Spec
PROPERTIES
  RepeatableSnapshots
