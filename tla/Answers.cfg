SPECIFICATION FairSpec
CONSTANTS
    Processes = {p1}
    Requests = {r1, r2}
    Subs = {s1, s2}
    FundIds = {"a", "A", "b", "gone", "malformed"}
    fundA = fundA
    fundB = fundB
    FundOf <- MCFundOf
    MinAmount <- MCMinAmount
    Bodies <- EveryRefusal
    NotifOptions = {"email"}
    DEFAULT_INITIAL_BALANCE = 5
    Faults = {"database", "reply", "crash", "notifier", "clock"}
    MaxClock = 1
    None = None
PROPERTY NotifierFailuresAreHarmless
PROPERTY EveryRequestAnswered
CHECK_DEADLOCK FALSE
