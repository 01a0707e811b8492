SPECIFICATION Spec
CONSTANTS
    r1 = r1
    r2 = r2
    q1 = q1
    q2 = q2
    Requests <- MCOneRequest
    Recoverers <- MCOneRecoverer
    Cli = Cli
    Nobody = Nobody
    Reserve = 2
    Ceilings <- MCCeilings
    CallBudgets <- MCCallBudgets
    CallCap = 2
    CorrectionLimit = 1
    OperationLimit = 1
    WarningLimit = 1
    NewWarnings = 0
INVARIANTS
    SpendCoversBills
    SpendWithinCeiling
    LostReplyIsRemembered
PROPERTIES
    CallsAreGated
    LedgerSpec
CHECK_DEADLOCK FALSE
