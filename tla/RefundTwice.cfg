SPECIFICATION Spec
CONSTANTS
    Processes = {p1}
    Requests = {r1, r2, r3}
    Subs = {s1}
    FundIds = {"a"}
    fundA = fundA
    fundB = fundB
    FundOf <- MCFundOf
    MinAmount <- MCMinAmount
    Bodies <- OneFund
    NotifOptions = {"email"}
    DEFAULT_INITIAL_BALANCE = 5
    Faults = {"database"}
    MaxClock = 1
    None = None
INVARIANT RefundsAtMostWhatWasPaid
CHECK_DEADLOCK FALSE
