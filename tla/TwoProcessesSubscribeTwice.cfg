SPECIFICATION Spec
CONSTANTS
    Processes = {p1, p2}
    Requests = {r1, r2}
    Subs = {s1}
    FundIds = {"a"}
    fundA = fundA
    fundB = fundB
    FundOf <- MCFundOf
    MinAmount <- MCMinAmount
    Bodies <- OneFund
    NotifOptions = {"email"}
    DEFAULT_INITIAL_BALANCE = 5
    Faults = {}
    MaxClock = 1
    None = None
INVARIANT OneSubscriptionAtATime
CHECK_DEADLOCK FALSE
