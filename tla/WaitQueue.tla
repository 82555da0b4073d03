------------------------------ MODULE WaitQueue ------------------------------
(***************************************************************************)
(* The per-record wait queue behind a blocking RecordVersion::create       *)
(* (spec 4.3, 5 and 9; its code is not in this repository).  A journal     *)
(* asks for the write lock of one record: it takes it when it is free, or  *)
(* enqueues itself with a deadline (or none).  When the holder lets go     *)
(* (its journal dropped, its transaction rolled back, or Rubicon's          *)
(* post_process dropping the committed transaction, transaction.rs) the    *)
(* head of the queue is woken; a woken waiter re-checks and takes the lock *)
(* or enqueues again.  An expired deadline removes the waiter's entry.     *)
(* Transaction.tla abstracts all of this into Wake: any waiter on a lock   *)
(* that is no longer blocked may wake.                                     *)
(***************************************************************************)
EXTENDS Sequences, SequencesExt

CONSTANTS
  Waiter,   \* journals calling create() on the record
  Timeouts, \* deadlines create() may be given: TRUE = Some(d), FALSE = None
  None      \* holder of a free lock

VARIABLES
  holder,   \* the journal holding the write lock, or None
  queue,    \* waiters in FIFO order
  notified, \* waiters woken by a release and not yet running
  status,   \* "idle", "waiting", "holding", "done" or "timeout"
  timed     \* timed[w]: w's create() has a deadline

wqvars == << holder, queue, notified, status, timed >>

\* The queue without w.
Dequeue(w) == SelectSeq(queue, LAMBDA x : x # w)

Init ==
  /\ holder = None
  /\ queue = << >>
  /\ notified = {}
  /\ status = [w \in Waiter |-> "idle"]
  /\ timed = [w \in Waiter |-> FALSE]

\* create(): take a free lock at once, without looking at the queue, or
\* enqueue at the tail with deadline tm.
Create(w, tm) ==
  /\ status[w] = "idle"
  /\ timed' = [timed EXCEPT ![w] = tm]
  /\ \/ /\ holder = None
        /\ holder' = w
        /\ status' = [status EXCEPT ![w] = "holding"]
        /\ UNCHANGED queue
     \/ /\ holder # None
        /\ queue' = Append(queue, w)
        /\ status' = [status EXCEPT ![w] = "waiting"]
        /\ UNCHANGED holder
  /\ UNCHANGED notified

\* Fault: the release forgets to notify the queue.
ReleaseNoWake(w) ==
  /\ holder = w
  /\ holder' = None
  /\ status' = [status EXCEPT ![w] = "done"]
  /\ UNCHANGED << queue, notified, timed >>

\* The holder lets go of the lock; the head waiter, if any, is woken.
Release(w) ==
  /\ holder = w
  /\ holder' = None
  /\ status' = [status EXCEPT ![w] = "done"]
  /\ notified' = IF queue = << >> THEN notified ELSE notified \cup {Head(queue)}
  /\ UNCHANGED << queue, timed >>

\* A woken waiter runs and retries: it takes the lock if it is still free,
\* or enqueues again at the tail when another create() took it meanwhile.
Recheck(w) ==
  /\ w \in notified
  /\ notified' = notified \ {w}
  /\ \/ /\ holder = None
        /\ holder' = w
        /\ queue' = Dequeue(w)
        /\ status' = [status EXCEPT ![w] = "holding"]
     \/ /\ holder # None
        /\ queue' = Append(Dequeue(w), w)
        /\ UNCHANGED << holder, status >>
  /\ UNCHANGED timed

\* Fault: the expired waiter returns but its entry stays in the queue.
ExpireKeepsEntry(w) ==
  /\ status[w] = "waiting"
  /\ timed[w]
  /\ notified' = notified \ {w}
  /\ status' = [status EXCEPT ![w] = "timeout"]
  /\ UNCHANGED << holder, queue, timed >>

\* The deadline of a timed waiter expires: its entry is removed and
\* create() returns Err(Timeout), whether or not it was woken.
Expire(w) ==
  /\ status[w] = "waiting"
  /\ timed[w]
  /\ queue' = Dequeue(w)
  /\ notified' = notified \ {w}
  /\ status' = [status EXCEPT ![w] = "timeout"]
  /\ UNCHANGED << holder, timed >>

\* Every create() has returned and the lock is free: the test may end.
Finished ==
  /\ \A w \in Waiter : status[w] \in {"done", "timeout"}
  /\ UNCHANGED wqvars

Next ==
  \/ \E w \in Waiter, tm \in Timeouts : Create(w, tm)
  \/ \E w \in Waiter : Release(w) \/ Recheck(w) \/ Expire(w)
  \/ Finished

\* A woken thread is eventually scheduled, and a deadline eventually passes.
\* Nothing forces a holder to let go: that is up to the caller's transaction.
Spec == Init /\ [][Next]_wqvars
          /\ \A w \in Waiter : WF_wqvars(Recheck(w)) /\ WF_wqvars(Expire(w))

-----------------------------------------------------------------------------
(* Properties                                                              *)

\* The queue holds exactly the waiting create() calls, each once: an
\* expired deadline or a successful retry leaves no stale entry that a
\* later release would wake in place of a live waiter.
QueueMatchesWaiters ==
  /\ IsInjective(queue)
  /\ Range(queue) = {w \in Waiter : status[w] = "waiting"}

\* Spec 4.3 and 8.3: a create() waiting on a lock that has been let go
\* does not wait forever; it runs again, or another create() holds the lock
\* and will wake the queue when it lets go.
WaiterWakes ==
  \A w \in Waiter :
    (status[w] = "waiting" /\ holder = None) ~> (status[w] # "waiting" \/ holder # None)

=============================================================================
