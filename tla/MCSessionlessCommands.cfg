SPECIFICATION CommandSpec
CONSTANTS
    Depth = 2
    Words = {0, 1}
    Zero = 0
    MaxLevel = 3
    MaxPointer = 1
    c1 = c1
    c2 = c2
    Commands = {c1, c2}
    Releases <- MCReleases
    Depends <- MCDepends
    Ports <- MCPorts
    Requirements <- MCRequirements
    MaxTrouble = 1
SYMMETRY Symmetry
INVARIANTS
    NoFalseFinding
    CleanTraceConforms
    ReceiptsHold
    WorkspaceIsClosed
CHECK_DEADLOCK FALSE
