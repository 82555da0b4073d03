--------------------------- MODULE MCTimeOutTest ---------------------------
(* transaction.rs test time_out: the main transaction holds the record   *)
(* while waiter threads time out on it twice, and a thread waiting with   *)
(* no deadline gets it after the main transaction rolls back.  The test  *)
(* runs 16 waiters; two already interleave their waits and drops.        *)
EXTENDS TestHarness

Waiters == {"w1", "w2"}
TOThreads == {"main", "x"} \cup Waiters
TOJournal == ({"main"} \X (1..3)) \cup ({"x"} \X {1}) \cup (Waiters \X (1..2))
TOTxn == [th \in TOThreads |-> th]

\* A waiter thread: times out on the held lock before and after main's
\* submit, then drops its journals and its transaction at the closure end.
TOWaiter(w) ==
  << Do("barrier"), Do("new"), StartJ(<<w, 1>>),
     CreateJ(<<w, 1>>, TRUE, FALSE),
     Do("barrier"), Do("barrier"),
     StartJ(<<w, 2>>), CreateJ(<<w, 2>>, TRUE, FALSE),
     DropJ(<<w, 2>>), DropJ(<<w, 1>>), Do("droptxn") >>

\* The thread spawned after the first submit: create with no deadline.
TOSpawned ==
  << Do("new"), StartJ(<<"x", 1>>), CreateJ(<<"x", 1>>, FALSE, TRUE),
     DropJ(<<"x", 1>>), Do("droptxn") >>

TOMain ==
  << Do("new"), StartJ(<<"main", 1>>), CreateJ(<<"main", 1>>, FALSE, TRUE),
     Spawn("w1"), Spawn("w2"),
     Do("barrier"), Do("barrier"),
     SubmitJ(<<"main", 1>>, 1),
     Spawn("x"),
     Do("barrier"),
     StartJ(<<"main", 2>>), CreateJ(<<"main", 2>>, FALSE, TRUE),
     SubmitJ(<<"main", 2>>, 2),
     Join("w1"), Join("w2"),
     StartJ(<<"main", 3>>), CreateJ(<<"main", 3>>, FALSE, TRUE),
     DropJ(<<"main", 3>>),
     Do("rollback"),
     Join("x") >>

TOProgram ==
  [th \in TOThreads |-> IF th = "main" THEN TOMain
                        ELSE IF th = "x" THEN TOSpawned ELSE TOWaiter(th)]
TOParties == {"main"} \cup Waiters
=============================================================================
