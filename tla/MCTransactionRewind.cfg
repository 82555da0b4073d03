\* One transaction, one journal: the clock values rewind is called with.
CONSTANTS
  Txn <- MCOneTxn
  Journal <- MCOneJournal
  Rec <- MCOneRec
  t1 = t1
  t2 = t2
  j1 = j1
  j2 = j2
  j3 = j3
  r1 = r1
  r2 = r2
  NoTxn = NoTxn
  NoRecord = NoRecord
  NoSnap = NoSnap
  SnapshotTxns = {}
  Timeouts = {TRUE}
  MaxRewind = 2
SPECIFICATION Spec
PROPERTIES
  RewindContract
