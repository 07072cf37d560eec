SPECIFICATION Spec
CONSTANTS
    Processes = {p1}
    Requests = {r1, r2, r3, r4}
    Subs = {s1}
    FundIds = {"a"}
    fundA = fundA
    fundB = fundB
    FundOf <- MCFundOf
    MinAmount <- MCMinAmount
    Bodies <- OneFund
    NotifOptions = {"email", "sms"}
    DEFAULT_INITIAL_BALANCE = 5
    Faults = {"database", "reply", "crash", "notifier"}
    MaxClock = 1
    None = None
SYMMETRY Symmetry
INVARIANT OneSubscriptionAtATime
INVARIANT CancelsRefundTheirSubscription
INVARIANT FailuresExplainTheBooks
PROPERTY ImplementsLossyPortfolio
CHECK_DEADLOCK FALSE
