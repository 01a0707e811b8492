------------------------ MODULE MCSimulationRuntime ------------------------
\* Small instances of SimulationRuntime for TLC.
EXTENDS SimulationRuntime

CONSTANTS o1, o2, p1, p2, w, g

MCTwo == {o1, o2}
MCOneProfile == {p1}
MCProfiles == {p1, p2}
MCExplicit == {w}
MCGuests == {g}

\* An operation identifier is drawn at random and means nothing, and the two
\* profiles differ in nothing the program looks at: o1 begins first, and p2 is
\* selected once something names p1.  What this cuts off is the mirror image of
\* something it keeps, but for self-tests that were never started: these leave
\* nothing except a receipt, which the next self-test overwrites.
Named(p) ==
    \/ receipt # None /\ receipt.profile = p
    \/ \E o \in Operations : run[o] # None /\ run[o].profile = p
InOrder ==
    /\ phase[o2] # "new" => phase[o1] # "new"
    /\ selection = p2 => Named(p1)
=============================================================================
