------------------------------ MODULE LedgerScan ------------------------------
(***************************************************************************)
(* How create_transactions finds the subscription in force, as it does it: *)
(* it asks for the history of the user and the fund, sorts it by timestamp *)
(* and goes through it once (app/routers/funds.py).  Ledger states the     *)
(* result in closed form, for the modules that build on it; here both are  *)
(* evaluated on every log that FundTransactions can produce.               *)
(***************************************************************************)
EXTENDS FundTransactions, SequencesExt

\* Mutant: the history in insertion order, never sorted.
UnsortedHistory(log, s, f) == SetToSortSeq(History(log, s, f), LAMBDA i, j : i < j)

\* list.sort(key=lambda t: t.timestamp), which is stable, of what find() returned.
SortedHistory(log, s, f) ==
    CHOOSE h \in SetToSeqs(History(log, s, f)) :
        \A i, j \in DOMAIN h : i < j => NotAfter(log, h[i], h[j])

\* The loop keeps the last subscription and forgets it at a cancellation; 0 is None.
Scan(log, s, f) ==
    FoldLeft(LAMBDA active, i : IF log[i].transaction_type = "subscribe" THEN i ELSE 0,
                  0, SortedHistory(log, s, f))

-----------------------------------------------------------------------------
\* The loop ends with the subscription that is in force according to Ledger: the
\* latest transaction of the history decides, whatever came before it and whatever the
\* clocks of the processes that stamped it (funds.py:111-121).
ScanFindsActiveSubscription ==
    \A s \in Subs, f \in FundIds :
        Scan(transactions, s, f) = ActiveSubscription(transactions, s, f)

=============================================================================
