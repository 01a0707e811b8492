SPECIFICATION FairSpec
CONSTANTS
    r1 = r1
    r2 = r2
    q1 = q1
    q2 = q2
    Requests <- MCRequests
    Recoverers <- MCNone
    Cli = Cli
    Nobody = Nobody
    Reserve = 1
    Ceilings <- MCNone
    CallBudgets <- MCSingleCall
    CallCap = 1
    CorrectionLimit = 1
    OperationLimit = 2
    WarningLimit = 0
    NewWarnings = 0
PROPERTIES
    ExpertRequestsSettle
CHECK_DEADLOCK FALSE
