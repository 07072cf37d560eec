SPECIFICATION Spec
CONSTANTS
    Processes = {p1, p2}
    Requests = {r1, r2, r3, r4}
    Emails = {e1}
    Passwords = {good}
    StrongPasswords = {good}
    AuthFlows <- PasswordFlow
    Kinds <- AllEndpoints
    Faults <- AllFaults
    None = None
SYMMETRY RequestSymmetry
CHECK_DEADLOCK FALSE
INVARIANTS TypeOK DocumentsMatchAccounts EmailsAreFree
PROPERTIES SignedUpAreFound OrphansStay
