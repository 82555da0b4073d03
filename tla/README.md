# TLA+ models of the transactional storage core

Models of `src/src/transaction.rs` (Transaction, Rubicon, Anchor) and
`src/src/persistence_layer/file_io/db_header.rs` (DatabaseHeader). The
Journal, Annals, RecordVersion, Snapshot and Sequencer code is not in `src/`.
Its operators follow `spec.md` and are marked `spec_modelled` in
`PROJECT.json`.

## Inventory

| Component | State | Operations | Source |
|---|---|---|---|
| Sequencer (AtomicCounter) | one counter | `get`, `advance` | spec 4.1 |
| Transaction | `record: Mutex<Vec<Annals>>`, `clock: AtomicUsize`, `anchor` | `new`, `start`, `snapshot`, `clock`, `rewind`, `commit`, `rollback`, `record`, `post_process` | transaction.rs |
| Anchor | `preliminary_snapshot`, `commit_snapshot` | `new`, accessors; written through a `&`→`&mut` cast | transaction.rs |
| Rubicon | `Option<Transaction>` | `commit`, `rollback`, `drop` (= commit) | transaction.rs |
| Journal / Annals | in-progress Annals, locked records | `create`, `submit`, drop | spec 4.4 |
| VersionedRecord / WaitQueue | version list per record, waiters | `create` (acquire, conflict, block, timeout), `predate`, `consolidate` | spec 4.3 |
| Snapshot | (sequencer clock, transaction?, journal clock?) | visibility predicate | spec 4.2 |
| DatabaseHeader | four u64 fields at offset 0 of the file | `from_file`, `flush_header`, `default` | db_header.rs |

How the parts interact:
- Journals borrow their Transaction (`start<'t>(&'t self)`). `commit(self)`,
  `rollback(self)` and `rewind(&mut self)` can therefore only run when no
  journal is open.
- `Journal::submit` calls `Transaction::record`. Under the record mutex,
  `record` pushes the Annals, gives it the new length as its clock, and
  stores that clock.
- A record's newest uncommitted version is its write lock:
  - a create by an open journal of the same transaction fails at once;
  - a create over a version that the same transaction has submitted succeeds;
  - a create over another live transaction's version blocks, with a deadline
    or without one.
- The lock is released when its journal is dropped, when its Annals is popped
  by `rewind` or `rollback`, or when the anchor's `commit_snapshot` is set.
- `Transaction::commit` reads the sequencer into `preliminary_snapshot`. The
  Rubicon's `post_process` then calls `advance` and afterwards stores the
  result into `commit_snapshot`. These are two separate steps.
- A storage snapshot sees a committed version when its clock is at or above
  the version's `commit_snapshot`. A transaction-scoped snapshot
  (`Transaction::snapshot`) also sees its own transaction's versions whose
  journals were submitted at a clock at or below the transaction clock it
  read. It borrows the transaction, so rewind, rollback and commit wait for
  it.

Hard behaviours:
- the threads of one transaction's journals interleave with each other and
  with other transactions;
- a timed wait races with the release of the lock;
- two Rubicons finalize concurrently;
- `rewind` and `rollback` must undo every version of the Annals they pop;
- the header flush can stop part-way through an I/O error or a crash.

What makes each part correct:
- Locks serialize writers in a single order: the journal clock within a
  transaction, the commit snapshot across transactions.
- After any drop, rewind or rollback, the versions match the Annals still
  recorded.
- A commit snapshot is fresh (above the preliminary snapshot) and unique.
- Snapshots are immutable; a held transaction snapshot keeps its view.
- `rewind` follows its contract, and undoes exactly what it pops.
- The locks behave as a lock table: one live holder per record, and every
  lock released in the step that ends its transaction.
- A commit wakes the journals blocked on its records.
- Every open returns the header that was written.

## Modules

- `Transaction.tla` covers the transaction, journals, record locks, Rubicon
  and anchor. Its variables map to the code as follows:
  - `record[t]` is the `Vec<Annals>`, with each Annals named by its journal;
  - `clock[t]`, `prelim[t]` and `commitSnap[t]` are the atomic clock and the
    two anchor fields;
  - `pending[t]` is `post_process`'s local `commit_snapshot` between the
    advance and the store;
  - `versions[r]` is the record's version list;
  - `waiting`, `timed` and `jresult` are the state of a blocked `create`
    and its result;
  - `held[t]` is a `Transaction::snapshot` a thread holds (sequencer value
    and `TxnClock(t)`), or `NoSnap`. Only transactions in the constant
    `SnapshotTxns` have such a thread.

  The actions map to the code like this:
  - `NewTransaction`, `Start`, `TakeSnapshot` (= `snapshot`), `Submit`
    (= `record`), `Rewind`, `Commit`, `Rollback` and `RubiconRollback` are
    one action per function. `DropSnapshot` ends a snapshot's borrow.
  - `PostProcessAdvance` and `PostProcessStore` are the two halves of
    `Rubicon::post_process`, which both `Rubicon::commit` and
    `Drop for Rubicon` run.
  - `Create`, `Wake`, `Timeout` and `DropJournal` come from spec 4.3/4.4.

  - `DropTransaction` is an active `Transaction` going out of scope: its
    `Vec<Annals>` is dropped and each Annals reverts its journal, the same
    body as `rollback`.

  Each step the code performs inside a function (push the Annals and store
  the clock, pop to a clock, read the preliminary snapshot, advance the
  sequencer, store into the anchor) is a helper operator of its own, so the
  actions read as the functions do. `Exclusive(t)` encodes the borrow rule above. `Terminated` lets the program
  exit once every transaction has ended.
- `LockTable.tla` is the abstract specification of the record locks. It has
  a holder per record and a status per transaction, with the steps `Begin`,
  `Acquire` (a free record), `Release` (some records of a live transaction)
  and `End` (commit or abort, releasing everything at once).
  `Transaction.tla` instantiates it as `LT` with a refinement mapping:
  - a record's holder is the transaction of its newest version, until that
    transaction is finalized;
  - a transaction's status is live from `active` to `finalizing`.

  `ImplementsLockTable` is `LT!Spec`.
- `WaitQueue.tla` is the per-record wait queue of spec 4.3, 5 and 9, whose
  code is not in this repository, on one record. `holder` is the journal
  holding the write lock, `queue` the FIFO of waiting `create()` calls,
  `notified` the waiters a release has woken and that have not run yet.
  `Create` takes a free lock at once (it does not look at the queue) or
  enqueues with a deadline or none; `Release` is the holder letting go
  (journal drop, rollback, or `post_process` dropping the committed
  transaction) and wakes the head; `Recheck` is a woken waiter retrying,
  taking the lock or enqueuing again at the tail; `Expire` removes a timed
  waiter's entry. `Transaction.tla` abstracts this into `Wake`: any waiter
  whose lock is no longer blocked may wake. `MCWaitQueue.tla` instantiates
  it with three or four journals.
- `DatabaseHeader.tla` models `from_file` and `flush_header` one file call at
  a time. Each call may fail with `Error::IO`, and `?` returns at once.
  `u64::to_le_bytes` and `from_le_bytes` are modelled byte by byte
  (`LeBytes`, `FromLeBytes`). A crash between two calls leaves the file as an
  I/O error at that call does.
- `TestHarness.tla` runs a unit test of `transaction.rs` as threads over
  the `Transaction` model. `Program[th]` is the list of calls thread `th`
  makes; `pc[th]` is its position (0 before `thread::spawn`). `Exec` makes one
  call and checks its `assert!` at once; a `create` that blocks returns
  later through `Resume` (a wake-up or its deadline). `BarrierWait` is
  `std::sync::Barrier::wait`, releasing all parties at once, and a `join`
  waits for the thread to finish. A failed assertion is kept in `failed`.
  `predate` and `consolidate` are read over the version list (spec 3, 4.2).
- `MCTimeOutTest.tla` and `MCWaitQueueTest.tla` give the programs of the
  tests `time_out` and `wait_queue`, call for call and in the order of the
  source, including the drops at the end of each closure's scope.
- `MCTransaction.tla` and `MCDatabaseHeader.tla` instantiate the modules with
  model values.

## Runs

| Run | Config | Expect | Checks |
|---|---|---|---|
| transaction_core | MCTransaction.cfg | pass | `TypeOK`, `SerialVersions`, `VersionsMatchAnnals`, `ImplementsLockTable` |
| rewind_at_clock | MCTransactionRewind.cfg | violation | `RewindContract` |
| snapshot_during_finalize | MCTransactionSnapshot.cfg | violation | `RepeatableSnapshots` |
| txn_snapshot | MCTransactionTxnSnapshot.cfg | pass | `TxnSnapshotStable`, `RewindInverse` |
| test_time_out | MCTimeOutTest.cfg | pass | `AssertionsHold`, `TestCompletes` |
| test_wait_queue | MCWaitQueueTest.cfg | pass | `AssertionsHold` |
| wait_queue_fifo | MCWaitQueue.cfg | pass | `QueueMatchesWaiters` |
| wait_queue_untimed | MCWaitQueueUntimed.cfg | pass | `WaiterWakes` |
| wait_queue_lost_wakeup | MCWaitQueueLost.cfg | violation | `WaiterWakes` |
| header_stable | MCDatabaseHeader.cfg | pass | `TypeOK`, `StableHeader` |
| header_partial_write | MCDatabaseHeaderPartial.cfg | violation | `OnlyWrittenHeader` |

- **SerialVersions**: along each record's version list, every version comes
  before the next one in a serial order:
  - within one transaction, the older version's journal was submitted with a
    lower clock, or the newer one is still open;
  - across transactions, the older version's transaction is committed with a
    smaller commit snapshot.

  This is mutual exclusion, and more: it ties the lock order to the order of
  the commit snapshots.
- **VersionsMatchAnnals**: every uncommitted version belongs to an open
  journal that created it, or to a submitted journal whose Annals is still in
  the record at its clock.
- **TxnSnapshotStable**: while a thread holds a transaction snapshot, the
  set of its transaction's versions that it sees does not change. Other
  journals of the transaction keep creating, submitting and dropping.
  `record()` hands out clocks above the snapshot's.
- **RewindInverse** (spec 8): after `rewind` pops Annals, a snapshot at the
  new clock sees exactly what a snapshot at that clock saw before the
  rewind.
- **ImplementsLockTable**: every step of the model is a `LockTable` step or
  leaves the mapped state unchanged. A record is never handed to a second
  transaction, never released by a transaction that has ended, and a commit
  (the store in `post_process`) or a rollback releases all of the
  transaction's records in the same step.
- **AssertionsHold** (test runs): every `assert!` and `assert_eq!` of the
  test holds in every interleaving its barriers and joins allow. For
  `time_out`, the waiters' timed creates fail before and after main's
  submit, main's own creates succeed and its submits return 1 and 2. For
  `wait_queue` (spec scenario 6), readers see no version before the commit
  and the committed version after it, and `consolidate` succeeds after the
  joins. The test's barriers bracket the whole commit, so no reader
  snapshot falls between the advance and the store: that window is the
  snapshot_during_finalize finding, which this test cannot reach.
- **TestCompletes** (`time_out`): the test finishes; the untimed waiter is
  woken once main rolls back, and the waiters' dropped transactions leave
  the record free. The wake-up itself is assumed (weak fairness of
  `Resume`, enabled once the lock is free); what this shows is that the
  barriers, joins and lock releases of the program leave no thread stuck.
- **QueueMatchesWaiters**: the queue holds exactly the waiting `create()`
  calls, each once, so a release never wakes an entry that has already
  returned.
- **WaiterWakes** (liveness): a `create()` waiting on a lock that has been
  let go runs again, unless another `create()` took the lock (and will wake
  the queue when it lets go). It holds when no waiter has a deadline, with
  barging creates.
- **StableHeader**: all successful opens return the same header, even when
  earlier opens failed with I/O errors.
- Findings from the violation runs (details in `PROJECT.json`):
  - `rewind(clock())` returns `Err(Fail)`. The code tests `len() > clock`;
    spec 4.5 says it fails only above the clock.
  - A storage snapshot taken between `advance` and the store into the anchor
    sees the committing transaction first as uncommitted, then as committed.
  - Lost wake-up in the wait queue (spec gap): a release wakes only the
    head; if the head's deadline expires before it re-checks, its entry is
    removed and the wake-up goes with it. An untimed waiter behind it then
    waits forever on a free lock. TLC's trace: w3 holds; w2 (timed) and
    then w1 (untimed) queue; w3 lets go and wakes w2; w2's deadline expires
    before it re-checks; w1 stays queued. The spec must pass
    the wake-up on (or wake all waiters) when a woken waiter times out.
  - After a flush that stops after `set_len`, the next open returns a zeroed
    header as `Ok`.

Bounds:
- transaction_core uses 2 transactions, 3 journals, 1 record,
  `MaxRewind = 1`, and both timed and untimed waits (about 1.1M states, about
  70 s). That is enough for:
  - two journals of one transaction contending on the record;
  - a journal of the other transaction blocking on it;
  - rewind of one Annals out of two;
  - both Rubicons finalizing concurrently.

  With two records, the state space grows past what TLC covers in minutes.
- txn_snapshot uses one transaction with three journals and two records, a
  snapshot-holding thread, and `MaxRewind = 2`. That covers rewinds of one
  and of two Annals, and submits while a snapshot is held (67k states).
- `ImplementsLockTable` is checked in transaction_core, two transactions
  contending on a record. With two
  transactions, two records and untimed waits, TLC finds two transactions
  each waiting forever on the other's record. Spec sections 1 and 5 accept
  this: they use timeouts instead of deadlock detection and leave untimed
  waits to the caller.
- The test runs cut the 16 threads of each test to 2 timed waiters
  (`time_out`, 873 states) and 3 readers (`wait_queue`, 186 states). Two
  waiters already time out, drop and block in every order against each other
  and against main; three readers take their snapshots in every order among
  themselves and against main's steps that lie outside the barriers.
- The wait-queue runs use four journals on one record (301 states with
  symmetry, 316 without for the liveness run): enough for a holder, a
  woken head, a barging create and a waiter behind them. The lost wake-up
  needs three.
- The violation runs use the smallest sets that reach the behaviour.
- header_stable uses six opens, so a failing first open is followed by
  several reading opens.

The `Transaction` runs check safety only and assume no fairness. Its
`Wake` is enabled as soon as a lock is free, so weak fairness of it would
already assume the wake-up that a liveness property about it would claim;
the wake-up is checked in `WaitQueue`, where a release has to notify a
waiter.

`WaitQueue.Spec` assumes weak fairness of `Recheck(w)` (a woken thread is
eventually scheduled) and of `Expire(w)` (a deadline eventually passes). A
holder is never forced to let go. wait_queue_fifo turns deadlock checking
off because, with deadlines, the lost
wake-up leaves a waiter that can do nothing (that is the finding).

The test runs assume weak fairness of every thread's next call, of a
blocked `create` returning, and of the barrier: the OS schedules runnable
threads, a deadline of 100 ms expires, and a notified waiter wakes.

No fairness is assumed for user actions (commit, submit, drop). The code
does not force them to happen.

## Not modelled (yet)

- FIFO order of waiters inside `Transaction`: there `Wake` lets any waiter
  on a free lock run; the queue itself is `WaitQueue`, on one record.
- `consolidate` and `predate` outside the test runs.
- The test `visibility`: it is nearly sequential (19 reachable states); its
  calls (a conflicting create of the same transaction, a create over its
  own submitted version, submit returning 2) are behaviours of the
  transaction_core run.
- Journal-scoped snapshots (the code for them is not in `src/`).
- The order in which a dropped Transaction's Annals revert (front to back,
  where rollback pops from the back): Annals revert by removing their
  versions, so the order cannot be observed in the model.
- Notifications inside `Transaction`: `Wake` is enabled whenever the lock
  is no longer blocked. The lost wake-up of the queue policy is shown by
  `WaitQueue`. One caused by a commit-snapshot store delayed past the
  release (the anchor data race) is out of reach: the release happens
  through the journal's lock code after the store, and that code is not in
  this repository.
- Mutex poisoning. It needs a panic while the record mutex is held, and
  the only code that runs under it and can panic is `Annals::assign_clock`
  and `Annals::drop` (journal.rs, not in this repository). What those leave
  behind cannot be taken from the source.
- Which of `Rubicon::commit` and `Drop for Rubicon` ran: they are the same
  action, as in the code, so a commit caused by unwinding looks like an
  intended one.
- The data race on the anchor fields: each store is one atomic step.
- Power loss that drops unsynced writes.

## Plan

1. Done: `Transaction` (locks, submit, rewind, rollback, Rubicon) and
   `DatabaseHeader`.
2. Done: transaction-scoped snapshots, the rewind inverse, the `LockTable`
   refinement.
3. Done: the unit tests `time_out` and `wait_queue` as thread programs,
   and `DropTransaction`.
4. Done: the per-record FIFO wait queue with head wake-up (`WaitQueue`),
   showing the lost wake-up. Next: compose it with `Transaction` in place of
   `Wake`, so that holders are transactions and releases are their drops,
   rewinds and commits.
5. The journal-scoped snapshot, and `predate`, as a read over `versions`.
