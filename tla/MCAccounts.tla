------------------------------ MODULE MCAccounts -------------------------------
(* Values of the constants of Accounts that a configuration cannot state.      *)
EXTENDS Accounts, TLC

AllFaults == FaultKinds

AllEndpoints == Endpoints

\* What login asks for.
PasswordFlow == {"USER_PASSWORD_AUTH"}

RequestSymmetry == Permutations(Requests)

=============================================================================
