SPECIFICATION Spec
CONSTANTS
    c1 = c1
    c2 = c2
    Commands = {c1, c2}
    Drafts <- MCDrafts
    Asked <- MCAsked
    Fixing = {"fix", "by hand"}
    ByHand = "by hand"
    Absent = Absent
    Torn = Torn
    MaxRuns = 2
    MaxTrouble = 1
SYMMETRY Symmetry
INVARIANTS
    TypeOK
    PromotedIsVerified
    PromotedIsReviewed
    QualifiedIsOneRun
    ReceiptIsTrue
CHECK_DEADLOCK FALSE
