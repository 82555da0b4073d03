\* One transaction with three journals and a thread holding snapshots of it:
\* concurrent submits and drops while a snapshot is held, and rewinds of one
\* or two Annals.
CONSTANTS
  Txn <- MCOneTxn
  Journal <- MCJournal
  Rec <- MCRec
  t1 = t1
  t2 = t2
  j1 = j1
  j2 = j2
  j3 = j3
  r1 = r1
  r2 = r2
  NoTxn = NoTxn
  NoRecord = NoRecord
  NoSnap = NoSnap
  SnapshotTxns <- MCOneTxn
  Timeouts = {TRUE}
  MaxRewind = 2
SPECIFICATION Spec
PROPERTIES
  TxnSnapshotStable
  RewindInverse
SYMMETRY Symm
