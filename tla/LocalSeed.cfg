SPECIFICATION Spec
CONSTANTS
    Lambdas = {l1, l2}
    Scripts = {s1}
    FundCount = 2
    Categories = {"FPV", "FIC"}
    CategoryOf <- MCCategoryOf
    None = None
CHECK_DEADLOCK FALSE
INVARIANT SeededFundsAreListed
