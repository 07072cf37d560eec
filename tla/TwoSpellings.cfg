SPECIFICATION Spec
CONSTANTS
    Processes = {p1}
    Requests = {r1, r2}
    Subs = {s1}
    FundIds = {"a", "A"}
    fundA = fundA
    fundB = fundB
    FundOf <- MCFundOf
    MinAmount <- MCMinAmount
    Bodies <- TwoSpellings
    NotifOptions = {"email"}
    DEFAULT_INITIAL_BALANCE = 5
    Faults = {}
    MaxClock = 1
    None = None
INVARIANT OneSubscriptionPerFund
CHECK_DEADLOCK FALSE
