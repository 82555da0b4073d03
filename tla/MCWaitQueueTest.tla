-------------------------- MODULE MCWaitQueueTest --------------------------
(* transaction.rs test wait_queue: reader threads take storage snapshots  *)
(* before and after the main thread commits a version; the version is    *)
(* invisible before and visible after, and consolidate succeeds.  The     *)
(* test runs 16 readers; three interleave with every step of the commit.  *)
EXTENDS TestHarness

Readers == {"r1", "r2", "r3"}
WQThreads == {"main"} \cup Readers
WQJournal == {<<"main", 1>>}
WQTxn == [th \in WQThreads |-> "transaction"]

WQReader ==
  << Do("barrier"), Do("snapshot"), PredateIs(FALSE),
     Do("barrier"), Do("barrier"), Do("snapshot"), PredateIs(TRUE) >>

WQMain ==
  << Spawn("r1"), Spawn("r2"), Spawn("r3"),
     Do("barrier"),
     Do("new"), StartJ(<<"main", 1>>), CreateJ(<<"main", 1>>, FALSE, TRUE),
     SubmitJ(<<"main", 1>>, 1),
     Do("barrier"),
     Do("commit"), Do("advance"), Do("store"),
     Do("barrier"),
     Join("r1"), Join("r2"), Join("r3"),
     ConsolidateIs(TRUE), Do("snapshot"), PredateIs(TRUE) >>

WQProgram == [th \in WQThreads |-> IF th = "main" THEN WQMain ELSE WQReader]

=============================================================================
