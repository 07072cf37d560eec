------------------------------- MODULE Portfolio -------------------------------
(***************************************************************************)
(* What the fund service promises its users: each has some cash, and holds *)
(* at most one subscription for each fund_id.  A subscription moves cash   *)
(* into the holding, a cancellation moves the whole holding back, each in  *)
(* one step.                                                               *)
(*                                                                         *)
(* The service does not use database transactions, so that an operation    *)
(* that fails halfway moves the cash and not the holding: the promise that *)
(* survives failures is LossySpec, which adds exactly that step.           *)
(***************************************************************************)
EXTENDS Integers

CONSTANTS
    Subs,
    FundIds,
    Floor,          \* the minimum amount, for each fund_id that names a fund
    InitialBalance

VARIABLES
    cash,           \* of each user
    holding         \* the amount subscribed, of each user and fund_id; 0 is none

vars == <<cash, holding>>

Init ==
    /\ cash \in [Subs -> {0, InitialBalance}]
    /\ holding = [s \in Subs |-> [f \in FundIds |-> 0]]

\* An amount that a user can put into a fund: enough for the fund, not already
\* subscribed, and not more than there is.
Affordable(s, f) == IF holding[s][f] = 0 THEN Floor[f] .. cash[s] ELSE {}

Subscribe(s, f) ==
    \E a \in Affordable(s, f) :
        /\ cash' = [cash EXCEPT ![s] = @ - a]
        /\ holding' = [holding EXCEPT ![s][f] = a]

Cancel(s, f) ==
    /\ holding[s][f] # 0
    /\ cash' = [cash EXCEPT ![s] = @ + holding[s][f]]
    /\ holding' = [holding EXCEPT ![s][f] = 0]

\* The first half of one of the two, and never the other half.
Interrupted(s, f) ==
    /\ \/ \E a \in Affordable(s, f) : cash' = [cash EXCEPT ![s] = @ - a]
       \/ /\ holding[s][f] # 0
          /\ cash' = [cash EXCEPT ![s] = @ + holding[s][f]]
    /\ UNCHANGED holding

Next == \E s \in Subs, f \in DOMAIN Floor : Subscribe(s, f) \/ Cancel(s, f)

Spec == Init /\ [][Next]_vars

LossyNext == Next \/ \E s \in Subs, f \in DOMAIN Floor : Interrupted(s, f)

LossySpec == Init /\ [][LossyNext]_vars

=============================================================================
