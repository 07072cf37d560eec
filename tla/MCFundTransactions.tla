-------------------------- MODULE MCFundTransactions --------------------------
(* Constants for model checking FundTransactions.  Amounts are in units of     *)
(* 100 000 pesos: the balance of a new user is 5, as in users.py.              *)
EXTENDS LedgerScan, TLC

CONSTANTS fundA, fundB

\* "a" and "A" are two spellings of the hexadecimal _id of one fund.
MCFundOf == [f \in FundIds \ {"malformed"} |->
                CASE f \in {"a", "A"} -> fundA
                  [] f = "b" -> fundB
                  [] f = "gone" -> None]

MCMinAmount == [x \in {fundA, fundB} |-> IF x = fundA THEN 2 ELSE 1]

Subscription(f, a) == [fund_id |-> f, transaction_type |-> "subscribe", amount |-> a]

Cancellation(f) == [fund_id |-> f, transaction_type |-> "cancel", amount |-> None]

\* Two funds: together their subscriptions cost more than a user has.
TwoFunds == {Subscription("a", 3), Subscription("b", 4),
             Cancellation("a"), Cancellation("b")}

\* One fund, every reason to refuse a subscription, and every unusable fund_id.
EveryRefusal == {Subscription("a", n) : n \in {None, 1, 2, 6}} \cup
                {Subscription(f, 2) : f \in {"gone", "malformed"}} \cup
                {Cancellation("a")}

OneFund == {Subscription("a", 3), Subscription("a", 2), Cancellation("a")}

TwoSpellings == {Subscription(f, 2) : f \in {"a", "A"}}

Symmetry == Permutations(Requests)

=============================================================================
