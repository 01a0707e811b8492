---------------------------- MODULE MCRepairChain ----------------------------
\* Small instances of RepairChain for TLC.
EXTENDS RepairChain, TLC

CONSTANTS c1, c2

Edit(id, at) == [id |-> id, change |-> "level", at |-> at]

\* One edit that repairs the design, one that does not, and two edits of one
\* change that are not in the order of their place.
MCDrafts == {<<Edit("fix", 1)>>, <<Edit("slip", 2)>>, <<Edit("fix", 2), Edit("slip", 1)>>}
MCAsked == <<"level">>
Symmetry == Permutations({c1, c2})
=============================================================================
