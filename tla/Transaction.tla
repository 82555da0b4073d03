----------------------------- MODULE Transaction -----------------------------
(***************************************************************************)
(* Transactions, journals, per-record write locks and the Rubicon commit  *)
(* fence of the storage engine core (src/src/transaction.rs).              *)
(*                                                                         *)
(* A Transaction keeps its submitted journals (their Annals) in `record`   *)
(* and a transaction-local clock; its Anchor carries the preliminary and   *)
(* the final commit snapshot.  Journals install versions on records; the   *)
(* top uncommitted version of a record is its write lock.  Journal,        *)
(* Annals, RecordVersion and the AtomicCounter sequencer are not under     *)
(* src/: their operators follow spec.md and are marked as such.            *)
(***************************************************************************)
EXTENDS Naturals, Sequences, FiniteSets, SequencesExt, Functions

CONSTANTS
  Txn,       \* transactions handed out by Storage::transaction
  Journal,   \* journals; each is started at most once by Transaction::start
  Rec,       \* versioned records (RecordVersion instances)
  NoTxn,     \* jtxn of a journal not yet started
  NoRecord,  \* waiting value of a journal that is not blocked
  Timeouts,  \* the create() timeouts callers pass: TRUE = Some(d), FALSE = None
  MaxRewind, \* largest target passed to Transaction::rewind
  SnapshotTxns, \* transactions on which a thread holds a Transaction::snapshot
  NoSnap     \* held value when no snapshot is held

ASSUME Timeouts \subseteq BOOLEAN /\ Timeouts # {}
ASSUME MaxRewind \in Nat
ASSUME SnapshotTxns \subseteq Txn

VARIABLES
  seq,        \* the Sequencer (AtomicCounter) value
  tstate,     \* lifecycle of each transaction, see TxnState
  record,     \* Transaction.record: the submitted journals, oldest first
  clock,      \* Transaction.clock
  prelim,     \* Anchor.preliminary_snapshot
  commitSnap, \* Anchor.commit_snapshot
  pending,    \* Rubicon::post_process local commit_snapshot, before it is stored
  jstate,     \* lifecycle of each journal, see JState
  jtxn,       \* the transaction a journal was started on
  jlocks,     \* the records a journal has created versions on (its Annals)
  jclock,     \* the clock record() assigned to a submitted journal
  waiting,    \* the record a journal is blocked on inside create()
  timed,      \* whether that blocked create() has a deadline
  jresult,    \* result of the journal's last create()
  versions,   \* per record: its versions, oldest first, as [txn, jnl]
  lastRewind, \* per transaction: the last rewind call and its outcome
  held        \* per transaction: the snapshot a thread holds on it, or NoSnap

anchorVars == << prelim, commitSnap, pending >>
jnlVars    == << jstate, jtxn, jlocks, jclock >>
waitVars   == << waiting, timed, jresult >>
vars == << seq, tstate, record, clock, anchorVars, jnlVars, waitVars,
           versions, lastRewind, held >>

TxnState == {"none", "active", "rubicon", "finalizing", "committed",
             "rolledback"}
JState   == {"idle", "open", "submitted", "dropped"}
Version  == [txn : Txn, jnl : Journal]
Result   == {"none", "ok", "conflict", "timeout"}
RewindCall == [target : 0..MaxRewind, from : Nat, ok : BOOLEAN]
Snap     == [seq : Nat, jc : Nat]

-----------------------------------------------------------------------------
(* Helpers                                                                 *)

\* The anchor carries a final commit snapshot: the transaction is committed
\* and its locks are released (spec 4.3 (c)).
Finalized(t) == commitSnap[t] # 0

\* Journals and snapshots borrow t; commit, rollback and rewind take t by
\* value or by &mut, so the borrow checker lets them run only when none is
\* alive.
OpenJournals(t) == {j \in Journal : jtxn[j] = t /\ jstate[j] = "open"}
Exclusive(t) == OpenJournals(t) = {} /\ held[t] = NoSnap

\* The write lock of r as seen by journal j (RecordVersion::create, spec 4.3).
\* Free: no version, the newest is committed, or it was submitted by j's own
\* transaction.  Conflict: the newest is held by an open journal of j's
\* transaction.  Blocked: the newest belongs to another live transaction.
Free(j, r) ==
  versions[r] # << >> =>
    \/ Finalized(Last(versions[r]).txn)
    \/ /\ Last(versions[r]).txn = jtxn[j]
       /\ jstate[Last(versions[r]).jnl] # "open"
Conflicting(j, r) ==
  /\ ~Free(j, r)
  /\ Last(versions[r]).txn = jtxn[j]
Blocked(j, r) ==
  /\ ~Free(j, r)
  /\ Last(versions[r]).txn # jtxn[j]

\* Installs j's new version on r and adds r to j's Annals.
Install(j, r) ==
  /\ versions' = [versions EXCEPT ![r] = Append(@, [txn |-> jtxn[j], jnl |-> j])]
  /\ jlocks' = [jlocks EXCEPT ![j] = @ \cup {r}]

\* Dropping the Annals of uncommitted journals J discards their versions.
Revert(J) ==
  versions' = [r \in Rec |-> SelectSeq(versions[r], LAMBDA v : v.jnl \notin J)]

\* Snapshot visibility (spec 4.2, rule 1) for a Storage snapshot taken at
\* sequencer clock c: the versions of finalized transactions whose commit
\* snapshot is at most c.
VisibleAt(c) ==
  UNION { { <<r, v>> : v \in { w \in Range(versions[r]) :
                                 /\ Finalized(w.txn)
                                 /\ commitSnap[w.txn] <= c } } : r \in Rec }

\* Transaction::clock: the number of submitted journals (Acquire load).
TxnClock(t) == clock[t]

\* Snapshot visibility (spec 4.2, rule 2) of t's own versions for a snapshot
\* scoped to t with journal clock c: versions of journals of t submitted at a
\* clock of at most c.
OwnVisibleAt(t, c) ==
  UNION { { <<r, v>> : v \in { w \in Range(versions[r]) :
                                 /\ w.txn = t
                                 /\ jstate[w.jnl] = "submitted"
                                 /\ jclock[w.jnl] <= c } } : r \in Rec }

-----------------------------------------------------------------------------
(* The steps of transaction.rs that change state, each preceded by a       *)
(* variant of it that a plausible bug in that code would produce.          *)

\* Fault: the length is read before the push; the Annals get the old one.
RecordStaleLength(t, j) ==
  /\ record' = [record EXCEPT ![t] = Append(@, j)]
  /\ jclock' = [jclock EXCEPT ![j] = Len(record[t])]
  /\ clock' = [clock EXCEPT ![t] = Len(record[t])]

\* Transaction::record: under the mutex, push the Annals, assign the new
\* length as their clock, and store it.
RecordAnnals(t, j) ==
  /\ record' = [record EXCEPT ![t] = Append(@, j)]
  /\ jclock' = [jclock EXCEPT ![j] = Len(record[t]) + 1]
  /\ clock' = [clock EXCEPT ![t] = Len(record[t]) + 1]

\* Faults: the loop runs while len >= clock (one Annals too many), or the
\* new clock is never stored.
PopOneTooMany(t, k) ==
  /\ record' = [record EXCEPT ![t] = SubSeq(@, 1, k - 1)]
  /\ Revert(Range(SubSeq(record[t], k, Len(record[t]))))
  /\ clock' = [clock EXCEPT ![t] = k - 1]
PopKeepsClock(t, k) ==
  /\ record' = [record EXCEPT ![t] = SubSeq(@, 1, k)]
  /\ Revert(Range(SubSeq(record[t], k + 1, Len(record[t]))))
  /\ UNCHANGED clock

\* rewind: pop (and so revert) the Annals above k, then store the length.
PopTo(t, k) ==
  /\ record' = [record EXCEPT ![t] = SubSeq(@, 1, k)]
  /\ Revert(Range(SubSeq(record[t], k + 1, Len(record[t]))))
  /\ clock' = [clock EXCEPT ![t] = k]

\* Fault: the sequencer value is written into commit_snapshot.
PreliminaryIntoCommitSnapshot(t) ==
  /\ commitSnap' = [commitSnap EXCEPT ![t] = seq]
  /\ UNCHANGED prelim

\* commit: preliminary_snapshot := sequencer.get(Relaxed).
StorePreliminary(t) ==
  /\ prelim' = [prelim EXCEPT ![t] = seq]
  /\ UNCHANGED commitSnap

\* Fault: the Annals are popped but their versions are not reverted.
PopAllKeepsVersions(t) ==
  /\ record' = [record EXCEPT ![t] = << >>]
  /\ UNCHANGED versions

\* rollback: pop every Annals from the back, reverting its versions.
PopAll(t) ==
  /\ record' = [record EXCEPT ![t] = << >>]
  /\ Revert(Range(record[t]))

\* post_process: commit_snapshot := sequencer.advance(Release), a local.
Advance(t) ==
  /\ seq' = seq + 1
  /\ pending' = [pending EXCEPT ![t] = seq + 1]

\* Fault: the store into the anchor is missing.
SkipStore(t) == UNCHANGED commitSnap

\* post_process: anchor_mut_ref.commit_snapshot = commit_snapshot.
StoreCommitSnapshot(t) == commitSnap' = [commitSnap EXCEPT ![t] = pending[t]]

-----------------------------------------------------------------------------
(* Actions                                                                 *)

Init ==
  /\ seq = 0
  /\ tstate = [t \in Txn |-> "none"]
  /\ record = [t \in Txn |-> << >>]
  /\ clock = [t \in Txn |-> 0]
  /\ prelim = [t \in Txn |-> 0]
  /\ commitSnap = [t \in Txn |-> 0]
  /\ pending = [t \in Txn |-> 0]
  /\ jstate = [j \in Journal |-> "idle"]
  /\ jtxn = [j \in Journal |-> NoTxn]
  /\ jlocks = [j \in Journal |-> {}]
  /\ jclock = [j \in Journal |-> 0]
  /\ waiting = [j \in Journal |-> NoRecord]
  /\ timed = [j \in Journal |-> FALSE]
  /\ jresult = [j \in Journal |-> "none"]
  /\ versions = [r \in Rec |-> << >>]
  /\ lastRewind = [t \in Txn |-> [target |-> 0, from |-> 0, ok |-> TRUE]]
  /\ held = [t \in Txn |-> NoSnap]

\* Transaction::new with Anchor::new: empty record, clock 0, default anchor.
NewTransaction(t) ==
  /\ tstate[t] = "none"
  /\ tstate' = [tstate EXCEPT ![t] = "active"]
  /\ UNCHANGED << seq, record, clock, anchorVars, jnlVars, waitVars, versions,
                  lastRewind, held >>

\* Transaction::start: a new Journal sharing the transaction's anchor.
Start(t, j) ==
  /\ tstate[t] = "active"
  /\ jstate[j] = "idle"
  /\ jstate' = [jstate EXCEPT ![j] = "open"]
  /\ jtxn' = [jtxn EXCEPT ![j] = t]
  /\ UNCHANGED << seq, tstate, record, clock, anchorVars, jlocks, jclock,
                  waitVars, versions, lastRewind, held >>

\* Transaction::snapshot: Snapshot::new(sequencer, Some(self), None), a
\* snapshot at the sequencer's value and the transaction clock (spec 4.5),
\* held by a thread of t until it is dropped.
TakeSnapshot(t) ==
  /\ t \in SnapshotTxns
  /\ tstate[t] = "active"
  /\ held[t] = NoSnap
  /\ held' = [held EXCEPT ![t] = [seq |-> seq, jc |-> TxnClock(t)]]
  /\ UNCHANGED << seq, tstate, record, clock, anchorVars, jnlVars, waitVars,
                  versions, lastRewind >>

\* The snapshot is dropped, ending its borrow of the transaction.
DropSnapshot(t) ==
  /\ held[t] # NoSnap
  /\ held' = [held EXCEPT ![t] = NoSnap]
  /\ UNCHANGED << seq, tstate, record, clock, anchorVars, jnlVars, waitVars,
                  versions, lastRewind >>

\* Journal::create (spec 4.3/4.4): acquire a free lock, fail at once on a
\* lock held by an open journal of the same transaction, or block on a lock
\* of another transaction with deadline Some(d) (tm) or None.
Create(j, r, tm) ==
  /\ jstate[j] = "open"
  /\ waiting[j] = NoRecord
  /\ r \notin jlocks[j]
  /\ \/ /\ Free(j, r)
        /\ Install(j, r)
        /\ jresult' = [jresult EXCEPT ![j] = "ok"]
        /\ UNCHANGED << waiting, timed >>
     \/ /\ Conflicting(j, r)
        /\ jresult' = [jresult EXCEPT ![j] = "conflict"]
        /\ UNCHANGED << versions, jlocks, waiting, timed >>
     \/ /\ Blocked(j, r)
        /\ waiting' = [waiting EXCEPT ![j] = r]
        /\ timed' = [timed EXCEPT ![j] = tm]
        /\ UNCHANGED << versions, jlocks, jresult >>
  /\ UNCHANGED << seq, tstate, record, clock, anchorVars, jstate, jtxn,
                  jclock, lastRewind, held >>

\* A blocked create() is woken and re-checks the lock: it acquires it or,
\* when an open journal of its own transaction took it meanwhile, fails.
Wake(j) ==
  /\ waiting[j] # NoRecord
  /\ ~Blocked(j, waiting[j])
  /\ waiting' = [waiting EXCEPT ![j] = NoRecord]
  /\ \/ /\ Free(j, waiting[j])
        /\ Install(j, waiting[j])
        /\ jresult' = [jresult EXCEPT ![j] = "ok"]
     \/ /\ Conflicting(j, waiting[j])
        /\ jresult' = [jresult EXCEPT ![j] = "conflict"]
        /\ UNCHANGED << versions, jlocks >>
  /\ UNCHANGED << seq, tstate, record, clock, anchorVars, jstate, jtxn,
                  jclock, timed, lastRewind, held >>

\* The deadline of a timed create() expires: Err(Timeout), nothing installed.
\* The deadline is not modelled as time, so it may expire at any moment,
\* also after the lock became free but before the waiter was woken.
Timeout(j) ==
  /\ waiting[j] # NoRecord
  /\ timed[j]
  /\ waiting' = [waiting EXCEPT ![j] = NoRecord]
  /\ jresult' = [jresult EXCEPT ![j] = "timeout"]
  /\ UNCHANGED << seq, tstate, record, clock, anchorVars, jnlVars, timed,
                  versions, lastRewind, held >>

\* Journal::submit calling Transaction::record; the journal's locks pass
\* from open to submitted.
Submit(j) ==
  /\ jstate[j] = "open"
  /\ waiting[j] = NoRecord
  /\ RecordAnnals(jtxn[j], j)
  /\ jstate' = [jstate EXCEPT ![j] = "submitted"]
  /\ UNCHANGED << seq, tstate, anchorVars, jtxn, jlocks, waitVars, versions,
                  lastRewind, held >>

\* A journal dropped without submit releases its locks and discards its
\* versions; the transaction clock is untouched.
DropJournal(j) ==
  /\ jstate[j] = "open"
  /\ waiting[j] = NoRecord
  /\ jstate' = [jstate EXCEPT ![j] = "dropped"]
  /\ Revert({j})
  /\ UNCHANGED << seq, tstate, record, clock, anchorVars, jtxn, jlocks,
                  jclock, waitVars, lastRewind, held >>

\* Transaction::rewind(clock): if the record is longer than the target,
\* pop the Annals above it and return the new length; otherwise Err(Fail).
Rewind(t, k) ==
  /\ tstate[t] = "active"
  /\ Exclusive(t)
  /\ lastRewind' = [lastRewind EXCEPT ![t] =
                       [target |-> k, from |-> clock[t], ok |-> Len(record[t]) > k]]
  /\ IF Len(record[t]) > k THEN PopTo(t, k)
                           ELSE UNCHANGED << record, versions, clock >>
  /\ UNCHANGED << seq, tstate, anchorVars, jnlVars, waitVars, held >>

\* Transaction::commit: the preliminary snapshot is read and the transaction
\* moves into a Rubicon.
Commit(t) ==
  /\ tstate[t] = "active"
  /\ Exclusive(t)
  /\ StorePreliminary(t)
  /\ tstate' = [tstate EXCEPT ![t] = "rubicon"]
  /\ UNCHANGED << seq, record, clock, pending, jnlVars, waitVars, versions,
                  lastRewind, held >>

\* The body of Transaction::rollback: pop every Annals and drop the
\* transaction.
RollbackBody(t) ==
  /\ PopAll(t)
  /\ tstate' = [tstate EXCEPT ![t] = "rolledback"]
  /\ UNCHANGED << seq, clock, anchorVars, jnlVars, waitVars, lastRewind, held >>

\* Transaction::rollback, called by the owner of an active transaction.
Rollback(t) ==
  /\ tstate[t] = "active"
  /\ Exclusive(t)
  /\ RollbackBody(t)

\* Rubicon::rollback: takes the transaction out and rolls it back.
RubiconRollback(t) ==
  /\ tstate[t] = "rubicon"
  /\ RollbackBody(t)

\* An active Transaction going out of scope: its fields are dropped, the
\* Vec<Annals> front to back, reverting every Annals as rollback does.
DropTransaction(t) ==
  /\ tstate[t] = "active"
  /\ Exclusive(t)
  /\ RollbackBody(t)

\* Rubicon::commit or Rubicon::drop, first half of Rubicon::post_process.
PostProcessAdvance(t) ==
  /\ tstate[t] = "rubicon"
  /\ Advance(t)
  /\ tstate' = [tstate EXCEPT ![t] = "finalizing"]
  /\ UNCHANGED << record, clock, prelim, commitSnap, jnlVars, waitVars,
                  versions, lastRewind, held >>

\* Second half of Rubicon::post_process: the plain store into the anchor,
\* then Transaction::post_process drops the transaction; its Annals release
\* their locks and the versions stay.
PostProcessStore(t) ==
  /\ tstate[t] = "finalizing"
  /\ StoreCommitSnapshot(t)
  /\ tstate' = [tstate EXCEPT ![t] = "committed"]
  /\ record' = [record EXCEPT ![t] = << >>]
  /\ UNCHANGED << seq, clock, prelim, pending, jnlVars, waitVars, versions,
                  lastRewind, held >>

\* Every transaction has ended: the program may exit.
Terminated ==
  /\ \A t \in Txn : tstate[t] \in {"committed", "rolledback"}
  /\ UNCHANGED vars

Next ==
  \/ \E t \in Txn : NewTransaction(t)
  \/ \E t \in Txn, j \in Journal : Start(t, j)
  \/ \E j \in Journal, r \in Rec, tm \in Timeouts : Create(j, r, tm)
  \/ \E j \in Journal : Wake(j) \/ Timeout(j) \/ Submit(j) \/ DropJournal(j)
  \/ \E t \in Txn, k \in 0..MaxRewind : Rewind(t, k)
  \/ \E t \in Txn : TakeSnapshot(t) \/ DropSnapshot(t)
  \/ \E t \in Txn : \/ Commit(t) \/ Rollback(t) \/ RubiconRollback(t)
                    \/ DropTransaction(t)
                    \/ PostProcessAdvance(t) \/ PostProcessStore(t)
  \/ Terminated

Spec == Init /\ [][Next]_vars

-----------------------------------------------------------------------------
(* Properties                                                              *)

TypeOK ==
  /\ seq \in Nat
  /\ tstate \in [Txn -> TxnState]
  /\ record \in [Txn -> Seq(Journal)]
  /\ clock \in [Txn -> Nat]
  /\ prelim \in [Txn -> Nat]
  /\ commitSnap \in [Txn -> Nat]
  /\ pending \in [Txn -> Nat]
  /\ jstate \in [Journal -> JState]
  /\ jtxn \in [Journal -> Txn \cup {NoTxn}]
  /\ jlocks \in [Journal -> SUBSET Rec]
  /\ jclock \in [Journal -> Nat]
  /\ waiting \in [Journal -> Rec \cup {NoRecord}]
  /\ timed \in [Journal -> BOOLEAN]
  /\ jresult \in [Journal -> Result]
  /\ versions \in [Rec -> Seq(Version)]
  /\ lastRewind \in [Txn -> RewindCall]
  /\ held \in [Txn -> Snap \cup {NoSnap}]

\* Version v was installed before w in a serial order of the locks: within
\* one transaction v's journal was submitted before w's (lower clock, or w
\* still open); across transactions v's transaction committed first.
Precedes(v, w) ==
  IF v.txn = w.txn
  THEN /\ jstate[v.jnl] = "submitted"
       /\ jstate[w.jnl] = "open" \/ jclock[v.jnl] < jclock[w.jnl]
  ELSE /\ Finalized(v.txn)
       /\ Finalized(w.txn) => commitSnap[v.txn] < commitSnap[w.txn]

\* Write locks serialize writers (create, submit, post_process): on every
\* record each version precedes every newer one, so no two open journals
\* and no two live transactions hold the same record, and commit snapshots
\* grow along the version list.  Breaking it takes a lock granted too early
\* by create, a journal clock reused by record(), or a commit snapshot
\* stored out of order by Rubicon::post_process.
SerialVersions ==
  \A r \in Rec : \A i, k \in 1..Len(versions[r]) :
    i < k => Precedes(versions[r][i], versions[r][k])

\* Every uncommitted version belongs to an open journal that created it, or
\* to a submitted journal whose Annals still sit in its transaction's record
\* at the journal's clock: dropping a journal, Transaction::rewind and
\* Transaction::rollback leave no version behind whose Annals are gone.
VersionsMatchAnnals ==
  \A r \in Rec : \A v \in Range(versions[r]) :
    ~Finalized(v.txn) =>
      \/ jstate[v.jnl] = "open" /\ r \in jlocks[v.jnl]
      \/ /\ jstate[v.jnl] = "submitted"
         /\ jclock[v.jnl] \in 1..Len(record[v.txn])
         /\ record[v.txn][jclock[v.jnl]] = v.jnl

\* Spec 4.5: rewind(target) returns the new clock and fails only if target
\* is above the current clock.  Checks every Transaction::rewind call.
RewindContract ==
  [][\A t \in Txn :
       lastRewind'[t] # lastRewind[t] =>
         (lastRewind'[t].ok <=> lastRewind'[t].target <= lastRewind'[t].from)]_vars

\* Spec 2 and 4.2: a snapshot is an immutable visibility token; every
\* snapshot clock the sequencer has already handed out sees the same set of
\* committed versions at every later moment, across Rubicon::post_process
\* (advance, then the store into the anchor).
RepeatableSnapshots ==
  [][\A c \in 0..seq : VisibleAt(c)' = VisibleAt(c)]_vars

\* Refinement mapping onto LockTable: a record is held by the transaction
\* of its newest version until that transaction is finalized; a Rubicon
\* is still live until post_process stores its commit snapshot.
LockHolder(r) ==
  IF versions[r] # << >> /\ ~Finalized(Last(versions[r]).txn)
  THEN Last(versions[r]).txn ELSE NoTxn
AbstractStatus == [none |-> "idle", active |-> "live", rubicon |-> "live",
                   finalizing |-> "live", committed |-> "committed",
                   rolledback |-> "aborted"]

LT == INSTANCE LockTable WITH
        None <- NoTxn,
        holder <- [r \in Rec |-> LockHolder(r)],
        status <- [t \in Txn |-> AbstractStatus[tstate[t]]]

\* The locks implement LockTable (spec 4.3, 4.5): create, Wake, submit,
\* journal drop, rewind, rollback and Rubicon::post_process only ever take a
\* free record, release records of a live transaction, or end a
\* transaction releasing all its records in the same step.
ImplementsLockTable == LT!Spec

\* Spec 4.2 and 4.5: a Transaction::snapshot held by a thread keeps seeing
\* the same own versions of its transaction while other journals of the
\* transaction create, submit (record() hands out clocks above the
\* snapshot's) or are dropped; rewind, rollback and commit wait for it.
TxnSnapshotStable ==
  [][\A t \in Txn :
       held[t] # NoSnap /\ held'[t] = held[t] =>
         OwnVisibleAt(t, held[t].jc)' = OwnVisibleAt(t, held[t].jc)]_vars

\* Spec 8, rewind inverse: after Transaction::rewind pops Annals, a snapshot
\* at the new clock sees exactly the own versions that a snapshot at that
\* clock saw before, as if the popped journals had never been submitted.
RewindInverse ==
  [][\A t \in Txn :
       tstate'[t] = "active" /\ Len(record'[t]) < Len(record[t]) =>
         \A c \in {TxnClock(t)'} : OwnVisibleAt(t, c)' = OwnVisibleAt(t, c)]_vars

=============================================================================
