--------------------------- MODULE MCManagedBackend ---------------------------
(* Two processes, so that a retirement meets a life cycle call; two operation  *)
(* identifiers, so that a settled one is repeated or replaced.                 *)
EXTENDS ManagedBackend, TLC

Symmetry == Permutations(Calls) \cup Permutations(Ops)

\* A late command that nothing lets Lima carry out any more is as good as none.
LateMatters ==
    /\ "prepare" \in late => vm = "absent"
    /\ "start" \in late => issued < MaxForwards
    /\ "stop" \in late => vm = "running" \/ issued < MaxForwards
=============================================================================
