------------------------------ MODULE LockTable ------------------------------
(***************************************************************************)
(* What the record locks of the storage engine promise (spec 4.3, 4.5),   *)
(* without journals, clocks or version lists: each record is held by at    *)
(* most one live transaction; a transaction takes free records one at a    *)
(* time, may give some back early (a dropped journal, a rewind), and on    *)
(* commit or rollback releases everything it holds in the same step that   *)
(* ends it.  A transaction that has ended never takes a record again.      *)
(***************************************************************************)
CONSTANTS
  Txn,   \* transactions
  Rec,   \* records
  None   \* holder of a free record

VARIABLES
  holder, \* the transaction holding each record, or None
  status  \* "idle", "live", "committed" or "aborted"

ltvars == << holder, status >>

Status == {"idle", "live", "committed", "aborted"}

HeldBy(t) == {r \in Rec : holder[r] = t}

\* holder after t lets go of the records in R.
Without(R) == [r \in Rec |-> IF r \in R THEN None ELSE holder[r]]

Init ==
  /\ holder = [r \in Rec |-> None]
  /\ status = [t \in Txn |-> "idle"]

Begin(t) ==
  /\ status[t] = "idle"
  /\ status' = [status EXCEPT ![t] = "live"]
  /\ UNCHANGED holder

Acquire(t, r) ==
  /\ status[t] = "live"
  /\ holder[r] = None
  /\ holder' = [holder EXCEPT ![r] = t]
  /\ UNCHANGED status

Release(t) ==
  /\ status[t] = "live"
  /\ \E R \in SUBSET HeldBy(t) \ {{}} : holder' = Without(R)
  /\ UNCHANGED status

\* Commit and abort end t and release all its records atomically.
End(t, s) ==
  /\ status[t] = "live"
  /\ status' = [status EXCEPT ![t] = s]
  /\ holder' = Without(HeldBy(t))

Next ==
  \E t \in Txn :
    \/ Begin(t)
    \/ \E r \in Rec : Acquire(t, r)
    \/ Release(t)
    \/ End(t, "committed")
    \/ End(t, "aborted")

Spec == Init /\ [][Next]_ltvars

=============================================================================
