----------------------------- MODULE TestHarness -----------------------------
(***************************************************************************)
(* The threads of a unit test of src/src/transaction.rs running against   *)
(* the Transaction model.  Each thread executes its program, a sequence of *)
(* the calls the test makes in that thread, one call per step; a blocking  *)
(* create() returns in a later step, through a wake-up or its deadline.   *)
(* std::sync::Barrier, thread::spawn and JoinHandle::join synchronise the  *)
(* threads; every assert! of the test is evaluated when its call returns  *)
(* and a failing one is recorded in `failed`.                             *)
(***************************************************************************)
EXTENDS Naturals, Sequences, FiniteSets

CONSTANTS
  Threads,    \* the test's threads, the main thread included
  Main,       \* the thread running at the start
  Program,    \* Program[th]: the calls of thread th, in program order
  TxnOf,      \* TxnOf[th]: the transaction (Arc-shared or own) th uses
  Parties,    \* the threads taking part in the test's Barrier
  TestJournal,\* the journals the test starts
  Obj,        \* the test's RecordVersion
  NoTxn, NoRecord, NoSnap

VARIABLES
  seq, tstate, record, clock, prelim, commitSnap, pending, jstate, jtxn,
  jlocks, jclock, waiting, timed, jresult, versions, lastRewind, held,
  pc,         \* pc[th]: index of th's next call; 0 before it is spawned
  snap,       \* snap[th]: sequencer clock of th's last Storage::snapshot
  failed      \* the assertions, as <<thread, call index>>, that failed

INSTANCE Transaction WITH
  Txn <- {TxnOf[th] : th \in Threads}, Journal <- TestJournal, Rec <- {Obj},
  Timeouts <- BOOLEAN, MaxRewind <- 0, SnapshotTxns <- {}

\* The Transaction state, listed here since TLC does not carry a tuple of
\* variables across an unnamed INSTANCE.
txnVars == << seq, tstate, record, clock, prelim, commitSnap, pending, jstate,
              jtxn, jlocks, jclock, waiting, timed, jresult, versions,
              lastRewind, held >>
testVars == << txnVars, pc, snap, failed >>

Done(th) == pc[th] = Len(Program[th]) + 1
Running(th) == pc[th] \in 1..Len(Program[th])
Call(th) == Program[th][pc[th]]

\* The call returns: th moves on, and an assertion on its outcome is kept.
Return(th, holds) ==
  /\ pc' = [pc EXCEPT ![th] = @ + 1]
  /\ failed' = IF holds THEN failed ELSE failed \cup {<< th, pc[th] >>}

\* RecordVersion::predate (spec 4.2): some version is visible at clock c.
Predate(c) == VisibleAt(c) # {}

\* RecordVersion::consolidate (spec 3): succeeds when no uncommitted
\* version is left, collapsing the list to its newest version.
Consolidated == \A v \in Range(versions[Obj]) : Finalized(v.txn)

\* The calls a program is written in.
Do(op)            == [op |-> op]   \* new, commit, advance, store, rollback,
                                  \* droptxn, barrier, snapshot
StartJ(j)         == [op |-> "start", j |-> j]
CreateJ(j, tm, ok) == [op |-> "create", j |-> j, tm |-> tm, ok |-> ok]
SubmitJ(j, n)     == [op |-> "submit", j |-> j, clock |-> n]
DropJ(j)          == [op |-> "drop", j |-> j]
PredateIs(ok)     == [op |-> "predate", ok |-> ok]
ConsolidateIs(ok) == [op |-> "consolidate", ok |-> ok]
Spawn(th)         == [op |-> "spawn", th |-> th]
Join(th)          == [op |-> "join", th |-> th]

-----------------------------------------------------------------------------

TestInit ==
  /\ Init
  /\ pc = [th \in Threads |-> IF th = Main THEN 1 ELSE 0]
  /\ snap = [th \in Threads |-> 0]
  /\ failed = {}

\* One call of thread th that returns in the same step.
Exec(th) ==
  LET c == Call(th)
      t == TxnOf[th]
  IN /\ Running(th)
     /\ \/ c.op = "new" /\ NewTransaction(t) /\ Return(th, TRUE)
             /\ UNCHANGED snap
        \/ c.op = "start" /\ Start(t, c.j) /\ Return(th, TRUE) /\ UNCHANGED snap
        \/ /\ c.op = "create"
           /\ Create(c.j, Obj, c.tm)
           /\ IF waiting'[c.j] = NoRecord
              THEN Return(th, (jresult'[c.j] = "ok") = c.ok)
              ELSE UNCHANGED << pc, failed >>
           /\ UNCHANGED snap
        \/ c.op = "submit" /\ Submit(c.j) /\ Return(th, jclock'[c.j] = c.clock)
             /\ UNCHANGED snap
        \/ c.op = "drop" /\ DropJournal(c.j) /\ Return(th, TRUE) /\ UNCHANGED snap
        \/ c.op = "commit" /\ Commit(t) /\ Return(th, TRUE) /\ UNCHANGED snap
        \/ c.op = "advance" /\ PostProcessAdvance(t) /\ Return(th, TRUE)
             /\ UNCHANGED snap
        \/ c.op = "store" /\ PostProcessStore(t) /\ Return(th, TRUE)
             /\ UNCHANGED snap
        \/ c.op = "rollback" /\ Rollback(t) /\ Return(th, TRUE) /\ UNCHANGED snap
        \/ c.op = "droptxn" /\ DropTransaction(t) /\ Return(th, TRUE)
             /\ UNCHANGED snap
        \/ /\ c.op = "snapshot"
           /\ snap' = [snap EXCEPT ![th] = seq]
           /\ Return(th, TRUE)
           /\ UNCHANGED txnVars
        \/ c.op = "predate" /\ Return(th, Predate(snap[th]) = c.ok)
             /\ UNCHANGED << txnVars, snap >>
        \/ /\ c.op = "consolidate"
           /\ versions' = [versions EXCEPT ![Obj] =
                             IF Consolidated /\ @ # << >> THEN << Last(@) >> ELSE @]
           /\ Return(th, Consolidated = c.ok)
           /\ UNCHANGED << seq, tstate, record, clock, prelim, commitSnap,
                           pending, jstate, jtxn, jlocks, jclock, waiting,
                           timed, jresult, lastRewind, held, snap >>
        \/ /\ c.op = "spawn"
           /\ pc' = [pc EXCEPT ![th] = @ + 1, ![c.th] = 1]
           /\ UNCHANGED << txnVars, snap, failed >>
        \/ c.op = "join" /\ Done(c.th) /\ Return(th, TRUE)
             /\ UNCHANGED << txnVars, snap >>

\* A create() of th blocked in the wait queue returns: woken, or its
\* deadline expired.
Resume(th) ==
  LET c == Call(th)
  IN /\ Running(th)
     /\ c.op = "create"
     /\ waiting[c.j] # NoRecord
     /\ Wake(c.j) \/ Timeout(c.j)
     /\ Return(th, (jresult'[c.j] = "ok") = c.ok)
     /\ UNCHANGED snap

\* Barrier::wait: the last party to arrive releases all of them.
BarrierWait ==
  /\ \A p \in Parties : Running(p) /\ Call(p).op = "barrier"
  /\ pc' = [th \in Threads |-> IF th \in Parties THEN pc[th] + 1 ELSE pc[th]]
  /\ UNCHANGED << txnVars, snap, failed >>

\* Every thread has finished: the test returns.
Finished ==
  /\ \A th \in Threads : Done(th)
  /\ UNCHANGED testVars

TestNext ==
  \/ \E th \in Threads : Exec(th) \/ Resume(th)
  \/ BarrierWait
  \/ Finished

\* Every runnable thread is eventually scheduled, and a deadline passed
\* to create() eventually expires.
TestSpec == TestInit /\ [][TestNext]_testVars
              /\ \A th \in Threads : WF_testVars(Exec(th)) /\ WF_testVars(Resume(th))
              /\ WF_testVars(BarrierWait)

-----------------------------------------------------------------------------
(* Properties                                                              *)

\* Every assert! and assert_eq! of the test holds in every interleaving of
\* its threads that the barriers and joins allow.
AssertionsHold == failed = {}

\* The test never hangs: every thread, the ones blocked in create()
\* included, runs to its end.
TestCompletes == <>(\A th \in Threads : Done(th))

=============================================================================
