SPECIFICATION Spec
CONSTANTS
    r1 = r1
    r2 = r2
    q1 = q1
    q2 = q2
    Requests <- MCRequests
    Recoverers <- MCOneRecoverer
    Cli = Cli
    Nobody = Nobody
    Reserve = 1
    Ceilings <- MCOneCeiling
    CallBudgets <- MCOneBudget
    CallCap = 2
    CorrectionLimit = 1
    OperationLimit = 2
    WarningLimit = 1
    NewWarnings = 1
SYMMETRY MCSymmetry
INVARIANTS
    TypeOK
    OneRunningCall
    OutcomesAreTruthful
    QueuedPlanHolds
PROPERTIES
    ActiveEndsWithItsCall
    SettledIsFinal
CHECK_DEADLOCK FALSE
