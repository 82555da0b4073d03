\* The WaitQueue test of transaction.rs.
CONSTANTS
  Threads <- WQThreads
  Main = "main"
  Program <- WQProgram
  TxnOf <- WQTxn
  Parties <- WQThreads
  TestJournal <- WQJournal
  Obj = "versioned_object"
  NoTxn = NoTxn
  NoRecord = NoRecord
  NoSnap = NoSnap
SPECIFICATION TestSpec
INVARIANTS
  AssertionsHold
