------------------------- MODULE MCDesignWorkspace -------------------------
\* Small instances of DesignWorkspace for TLC.
EXTENDS DesignWorkspace, TLC

CONSTANTS r1, r2, q1, q2

MCRequests == {r1, r2}
MCOneRequest == {r1}
MCRecoverers == {q1, q2}
MCOneRecoverer == {q1}
MCCeilings == {3, 4}
MCNone == {}
MCOneCeiling == {1}
MCCallBudgets == {1, 2}
MCOneBudget == {2}
MCSingleCall == {1}

\* Requests are interchangeable, and so are recovery calls.
MCSymmetry == Permutations(MCRequests) \union Permutations(MCRecoverers)
=============================================================================
