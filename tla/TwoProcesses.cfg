SPECIFICATION Spec
CONSTANTS
    Processes = {p1, p2}
    Requests = {r1, r2, r3}
    Subs = {s1}
    FundIds = {"a"}
    fundA = fundA
    fundB = fundB
    FundOf <- MCFundOf
    MinAmount <- MCMinAmount
    Bodies <- OneFund
    NotifOptions = {"email"}
    DEFAULT_INITIAL_BALANCE = 5
    Faults = {"database", "reply", "crash", "notifier", "clock"}
    MaxClock = 1
    None = None
SYMMETRY Symmetry
INVARIANT BalanceNonNegative
INVARIANT AcknowledgedAreRecorded
INVARIANT RefundsWerePaid
INVARIANT ScanFindsActiveSubscription
CHECK_DEADLOCK FALSE
