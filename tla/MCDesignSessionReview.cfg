SPECIFICATION Spec
CONSTANTS
    a = a
    b = b
    q = q
    None = None
    Paths <- MCChangePaths
    Area <- MCArea
    ModelTests <- MCModelTests
    Texts <- MCTexts
    Specs <- MCChangeSpecs
    Workloads <- MCWorkloads
    Scopes <- MCScopes
    Importable <- MCImportable
    Requests <- MCRequests
    Grants <- MCNone
    RepairBudgets <- MCOneRepair
    RepairCap = 1
INVARIANTS
    AcceptanceIsReviewable
CHECK_DEADLOCK FALSE
