--------------------------- MODULE MCTransaction ---------------------------
(* Model-checking instance of Transaction: small sets of model values.    *)
EXTENDS Transaction, TLC

CONSTANTS t1, t2, j1, j2, j3, r1, r2

MCTxn == {t1, t2}
MCJournal == {j1, j2, j3}
MCRec == {r1, r2}
MCOneRec == {r1}
MCOneTxn == {t1}
MCOneJournal == {j1}
MCTwoJournals == {j1, j2}

\* Journals and records are interchangeable; transactions are not, since
\* commit snapshots are compared across them only through their values.
Symm == Permutations(MCJournal) \cup Permutations(MCRec)
=============================================================================
