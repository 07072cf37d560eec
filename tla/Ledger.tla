-------------------------------- MODULE Ledger --------------------------------
(***************************************************************************)
(* The collection db.transactions, as a sequence in insertion order, and   *)
(* how create_transactions (app/routers/funds.py) reads from it which      *)
(* subscription of a user is in force.  There is no such record: it is     *)
(* recomputed from the whole history on every request.                     *)
(***************************************************************************)
EXTENDS Integers, Sequences

\* get_transactions_by_user_and_fund, as the set of positions in the log.
History(log, s, f) ==
    {i \in DOMAIN log : log[i].user_id = s /\ log[i].fund_id = f}

\* j is not after i once the history is sorted by timestamp.  The sort is stable, so
\* insertion order, the order find() returns, decides between equal timestamps.
NotAfter(log, j, i) ==
    \/ log[j].timestamp < log[i].timestamp
    \/ log[j].timestamp = log[i].timestamp /\ j <= i

LatestOf(log, I) == CHOOSE i \in I : \A j \in I : NotAfter(log, j, i)

\* Mutant: the loop has no branch for "cancel".
ActiveNeverCleared(log, s, f) ==
    LET I == {i \in History(log, s, f) : log[i].transaction_type = "subscribe"}
    IN  IF I # {} THEN LatestOf(log, I) ELSE 0

\* The loop over the sorted history sets active_subscription at a "subscribe" and
\* clears it at a "cancel": the latest transaction decides.  0 stands for None.
ActiveSubscription(log, s, f) ==
    LET I == History(log, s, f)
    IN  IF I # {} /\ log[LatestOf(log, I)].transaction_type = "subscribe"
        THEN LatestOf(log, I) ELSE 0

\* What the user has in the fund, according to the log.
Holding(log, s, f) ==
    LET active == ActiveSubscription(log, s, f)
    IN  IF active = 0 THEN 0 ELSE log[active].amount

\* The transactions at i and j are of one user under one fund_id.
SameKey(log, i, j) ==
    /\ log[i].user_id = log[j].user_id
    /\ log[i].fund_id = log[j].fund_id

\* j is the transaction recorded next after i for the same user and fund_id.
Follows(log, i, j) ==
    /\ i < j
    /\ SameKey(log, i, j)
    /\ \A k \in DOMAIN log : SameKey(log, k, j) => k <= i \/ j <= k

=============================================================================
