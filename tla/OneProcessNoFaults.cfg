SPECIFICATION Spec
CONSTANTS
    Processes = {p1}
    Requests = {r1, r2, r3, r4}
    Subs = {s1, s2}
    FundIds = {"a", "b"}
    fundA = fundA
    fundB = fundB
    FundOf <- MCFundOf
    MinAmount <- MCMinAmount
    Bodies <- TwoFunds
    NotifOptions = {"email"}
    DEFAULT_INITIAL_BALANCE = 5
    Faults = {}
    MaxClock = 1
    None = None
SYMMETRY Symmetry
INVARIANT TypeOK
INVARIANT BooksBalance
PROPERTY ImplementsPortfolio
CHECK_DEADLOCK FALSE
