-------------------------- MODULE MCDesignSession --------------------------
\* Small instances of DesignSession for TLC.
EXTENDS DesignSession

CONSTANTS a, b, q

Draft(scope, questions, assumptions, readiness) ==
    [scope |-> scope, questions |-> questions, assumptions |-> assumptions,
     ports |-> TRUE, readiness |-> readiness]

Writes(v, m, r, d) ==
    [x \in StageNames |->
        CASE x \in {"architecture", "assertions"} -> {}
          [] x = "verification_plan"              -> v
          [] x = "reference_model"                -> m
          [] x = "rtl"                            -> r
          [] x = "dv"                             -> d]

Grant(assumptions, proposals, acceptance, maxRepairs, steps) ==
    [assumptions |-> assumptions, proposals |-> proposals, acceptance |-> acceptance,
     maxRepairs |-> maxRepairs, maxSteps |-> steps]

\* One path for every stage.
MCPaths == {"docs_a", "docs_v", "model_t", "rtl_r", "rtl_s", "dv_t"}
MCArea == [p \in MCPaths |->
    CASE p \in {"docs_a", "docs_v"} -> "docs"
      [] p = "model_t"              -> "model"
      [] p \in {"rtl_r", "rtl_s"}   -> "rtl"
      [] p = "dv_t"                 -> "dv"]
MCModelTests == {"model_t"}
MCTexts == [p \in MCPaths |-> IF p = "rtl_r" THEN {a, b} ELSE {a}]
MCWorkloads == {a}
MCOneRepair == {1}

\* For adoption and changes: a specification that is not ready and one that is.
\* A design can be imported whole or as RTL only; a change (or a completion)
\* writes the verification, or only RTL, or RTL with its tests.
MCChangeSpecs == {Draft("old", {}, {}, "unresolved"), Draft("new", {}, {}, "resolved")}
MCRequests == Intents \union {Advice}
MCChangePaths == MCPaths \ {"docs_a", "rtl_s"}
MCImportable == {"model_t", "rtl_r", "dv_t"}
MCScopes == {Writes({"docs_v"}, {"model_t"}, {}, {"dv_t"}),
             Writes({}, {}, {"rtl_r"}, {}),
             Writes({}, {"model_t"}, {"rtl_r"}, {"dv_t"})}

\* For batches: the seed, without readiness, asks a question; it becomes an
\* assumption, or is dropped together with a change of the requirements.  The
\* policy "assumptions" has two steps and no repairs; "explore" has three steps,
\* final acceptance and one repair.  A person may do by hand what the steps do
\* not reach.
MCBatchSpecs == {Draft("old", {q}, {}, "absent"), Draft("old", {}, {q}, "resolved"),
                 Draft("new", {}, {}, "resolved")}
MCGrants == {Grant(TRUE, FALSE, FALSE, 0, 2), Grant(TRUE, TRUE, TRUE, 1, 3)}

MCRepairBudgets == {0, 1}

MCNone == {}
=============================================================================
