SPECIFICATION FairSpec
CONSTANTS
    a = a
    b = b
    q = q
    None = None
    Paths <- MCPaths
    Area <- MCArea
    ModelTests <- MCModelTests
    Texts <- MCTexts
    Specs <- MCBatchSpecs
    Workloads <- MCWorkloads
    Scopes <- MCNone
    Importable <- MCNone
    Requests <- MCNone
    Grants <- MCGrants
    RepairBudgets <- MCRepairBudgets
    RepairCap = 1
INVARIANTS
    DelegationBinding
PROPERTIES
    RepairsBounded
    BatchEnds
CHECK_DEADLOCK FALSE
