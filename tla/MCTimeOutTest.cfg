\* The time_out test with two waiter threads and the spawned thread.
CONSTANTS
  Threads <- TOThreads
  Main = "main"
  Program <- TOProgram
  TxnOf <- TOTxn
  Parties <- TOParties
  TestJournal <- TOJournal
  Obj = "versioned_object"
  NoTxn = NoTxn
  NoRecord = NoRecord
  NoSnap = NoSnap
SPECIFICATION TestSpec
INVARIANTS
  AssertionsHold
PROPERTIES
  TestCompletes
