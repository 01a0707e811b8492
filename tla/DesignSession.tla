---------------------------- MODULE DesignSession ----------------------------
(***************************************************************************)
(* The engineering state machine behind DesignWorkspace's status: how a    *)
(* specification is proposed and approved, how six stages write artifacts, *)
(* how a simulation, a repair, a signoff and an acceptance follow, how a   *)
(* finished design is changed or an imported one adopted, and how a batch  *)
(* does all of it within a delegation.                                     *)
(*                                                                         *)
(* A digest is the thing it is a digest of.  A card is what a person was   *)
(* shown; it is gone after a save, because an approval compares the digest *)
(* of the whole state and every save changes the revision in it.  Calls    *)
(* and spending are DesignWorkspace's subject.  Save validates the whole   *)
(* state before it commits; no action here is guarded by that except where *)
(* a handler relies on it (ApproveBaseline), so that the invariants say    *)
(* what the handlers themselves preserve.                                  *)
(*                                                                         *)
(* Just before some operators stands a faulty variant that no action uses; *)
(* README.md names the property each one breaks.                           *)
(***************************************************************************)
EXTENDS Integers, FiniteSets, Sequences

CONSTANTS
    None,           \* nothing recorded
    Paths,          \* artifact paths
    Area,           \* the directory of a path
    ModelTests,     \* paths of independent model tests, model/test_*
    Texts,          \* the texts that may be written at a path
    Specs,          \* specifications
    Workloads,      \* expected tests and seed of a simulation manifest
    Scopes,         \* per-stage write scopes a change plan may name
    Importable,     \* paths a person selects for import
    Requests,       \* what a person asks for beside the stages: proposals, advice
    Grants,         \* batch authorizations a person may give
    RepairBudgets,  \* values of max_repairs a process may be started with
    RepairCap       \* the largest max_repairs (5)

Areas == {"docs", "model", "rtl", "dv"}
STAGES == <<"architecture", "verification_plan", "reference_model", "rtl",
            "assertions", "dv">>
StageCount == 6
StageNames == {"architecture", "verification_plan", "reference_model", "rtl",
               "assertions", "dv"}

\* The directory a role may write.
AreaOf(role) ==
    CASE role \in {"architecture", "verification_plan"}   -> "docs"
      [] role = "reference_model"                         -> "model"
      [] role \in {"rtl", "assertions", "diagnosis"}      -> "rtl"
      [] role = "dv"                                      -> "dv"

PathsIn(area) == {p \in Paths : Area[p] = area}
RtlPaths == PathsIn("rtl")

AllTexts == UNION {Texts[p] : p \in Paths}
FileMaps == [Paths -> AllTexts \union {None}]
NoFiles == [p \in Paths |-> None]
Present(f) == {p \in Paths : f[p] # None}

\* What a specification says that the program tells apart: the requirements
\* and other scope, open questions, assumptions, whether it has ports, and the
\* readiness decisions ("absent" in a legacy specification).
Readiness == {"absent", "unresolved", "resolved"}
Complete(s) == s.questions = {} /\ s.ports
Approvable(s) == Complete(s) /\ s.readiness # "unresolved"
Ready(s) == Complete(s) /\ s.readiness = "resolved"

\* A simulation manifest: the requirements it links, the compiled sources, the
\* test modules and the rest of the workload.
Manifests == [scope : {s.scope : s \in Specs}, sources : SUBSET RtlPaths,
              tests : SUBSET PathsIn("dv"), workload : Workloads]
ValidManifest(m, present, s) ==
    /\ m.scope = s.scope
    /\ m.sources # {} /\ m.sources = RtlPaths \intersect present
    /\ m.tests # {} /\ m.tests \subseteq present

Inputs == [spec : Specs \union {None}, files : FileMaps,
           manifest : Manifests \union {None}]
Reports == [input : Inputs, passed : BOOLEAN]

\* A reviewed plan: a change of a finished design, the completion of an
\* imported one, or (with nothing to write) the adoption of an imported one.
Plans == [base : Inputs, baseFiles : FileMaps, spec : Specs,
          writes : [StageNames -> SUBSET Paths], manifest : Manifests]
NoWrites == [s \in StageNames |-> {}]
Written(plan) == UNION {plan.writes[s] : s \in StageNames}
ValidPlan(plan) ==
    /\ Complete(plan.spec)
    /\ Present(plan.baseFiles) # {}
    /\ ValidManifest(plan.manifest, Written(plan) \union Present(plan.baseFiles), plan.spec)
    /\ \A s \in StageNames : plan.writes[s] \subseteq PathsIn(AreaOf(s))
    /\ \A s, t \in StageNames :
          s # t => plan.writes[s] \intersect plan.writes[t] = {}
    /\ Written(plan) # {}

Intents == {"feature", "propose_dv", "optimization"}
\* An explanation, an analysis or the planning of an import changes nothing.
Advice == "advice"
Proposals == [intent : Intents, plan : Plans]

Delegations == [seed : Specs, grant : Grants, steps : Nat]

CardKinds == {"specification", "change", "acceptance", "baseline", "completion",
              "local_change"}
Payloads == [spec : Specs \union {None}, plan : Plans \union {None},
             input : Inputs \union {None}]
NoPayload == [spec |-> None, plan |-> None, input |-> None]
Cards == [kind : CardKinds, payload : Payloads]

ASSUME SessionAssumption ==
    /\ \A p \in Paths : Area[p] \in Areas
    /\ \A s \in Specs : /\ s.readiness \in Readiness
                        /\ s.ports \in BOOLEAN
    /\ \A g \in Grants : /\ g.assumptions \in BOOLEAN
                         /\ g.proposals \in BOOLEAN
                         /\ g.acceptance \in BOOLEAN
                         /\ g.maxRepairs \in 0..RepairCap
                         /\ g.maxSteps \in Nat \ {0}
    /\ Requests \subseteq Intents \union {Advice}
    /\ Scopes \subseteq [StageNames -> SUBSET Paths]
    /\ Importable \subseteq Paths
    /\ ModelTests \subseteq PathsIn("model")
    /\ RepairCap \in Nat
    /\ RepairBudgets \subseteq 0..RepairCap
    /\ None \notin AllTexts \union Specs
    /\ None \notin Manifests
    /\ None \notin Inputs
    /\ None \notin Reports
    /\ None \notin Plans
    /\ None \notin Proposals
    /\ None \notin Delegations
    /\ None \notin Cards

Statuses == {"discovery", "building", "needs_repair", "needs_signoff",
             "review_blocked", "awaiting_acceptance", "accepted"}
Simulated == {"needs_repair", "needs_signoff", "review_blocked",
              "awaiting_acceptance", "accepted"}
Passed == Simulated \ {"needs_repair"}

\* What the operation in flight is for.
Purposes == {"discovery", "diagnosis", "signoff"} \union StageNames \union Requests

VARIABLES
    status,
    stage,          \* how many stages have been done
    spec,
    approvedSpec,
    files,
    imports,
    manifest,
    simulation,     \* the last report, with what was simulated
    review,         \* the signoff verdict
    baseline,       \* the adopted import
    changePlan,     \* the approved scope that the stages keep
    proposal,       \* a proposed change, not approved
    approvalMode,
    acceptanceMode,
    repairs,
    repairLimit,    \* limits.max_repairs; RepairCap until first bound
    delegation,
    active,         \* purpose of the operation in flight
    \* of the running process, and the clock
    caller,         \* of this process, for the operation in flight: "waits" for
                    \* its reply, or "gone" and does not; "none" did not start it
    repairBudget,   \* policy.max_repairs
    batch,          \* "off", "loop" between two steps, "step" inside one
    contracts,      \* the batch was started by a policy
    late,           \* the deadline of the delegation has passed
    shown,          \* the card a person looks at
    \* history
    sanction,       \* what a person saw when giving the last approvals
    derived         \* artifacts whose author saw RTL text or a simulation report

designVars == <<status, stage, spec, approvedSpec, files, manifest>>
evidenceVars == <<simulation, review>>
planVars == <<baseline, changePlan, proposal>>
modeVars == <<approvalMode, acceptanceMode>>
repairVars == <<repairs, repairLimit>>
callVars == <<active, caller>>
batchVars == <<delegation, batch, contracts, late>>
processVars == <<repairBudget, batch, contracts, late>>
historyVars == <<sanction, derived>>
vars == <<designVars, imports, evidenceVars, planVars, modeVars, repairVars,
          callVars, repairBudget, batchVars, shown, historyVars>>

Input == [spec |-> approvedSpec, files |-> files, manifest |-> manifest]

-----------------------------------------------------------------------------
(* Conditions *)

Idle == active = "none"
Interactive == batch = "off"

\* Limits that were saved once never widen again.
Smaller(a, b) == IF a < b THEN a ELSE b
RepairAllowanceOfPolicyOnly == repairBudget
RepairAllowance == Smaller(repairBudget, repairLimit)

NextStage == STAGES[stage + 1]
\* A stage outside the reviewed scope keeps its artifacts.
Reused(s) == changePlan # None /\ changePlan.writes[s] = {}

RepairsLeftUnlimited == TRUE
RepairsLeft == repairs < RepairAllowance

Advancing == {"diagnosis", "signoff"} \union StageNames

\* What each call of the expert requires.
CallReady(purpose) ==
    /\ purpose = "discovery" => status = "discovery"
    /\ purpose = "diagnosis" => status = "needs_repair" /\ RepairsLeft
    /\ purpose = "signoff" => status = "needs_signoff"
    /\ purpose \in StageNames => /\ status = "building"
                                 /\ stage < StageCount
                                 /\ NextStage = purpose
                                 /\ ~Reused(purpose)
    /\ purpose \in Advancing => approvedSpec = spec
    /\ purpose \in Intents => stage = StageCount /\ manifest # None

\* A batch step discusses only to resolve open questions, and otherwise
\* advances; a person may ask for anything.
MayStart(purpose) ==
    \/ Interactive
    \/ /\ batch = "step"
       /\ \/ purpose = "discovery" /\ spec.questions # {}
          \/ purpose \in Advancing \union {"simulation"}

\* The artifacts and imported references that the context of a call holds.
VisiblePaths(purpose) ==
    CASE purpose \in {"architecture", "verification_plan", "reference_model"} -> PathsIn("docs")
      [] purpose = "dv" -> Paths \ RtlPaths
      [] OTHER -> Paths

\* The context shows the implementation: RTL text, an artifact derived from
\* it, or a simulation report.
SeesImplementation(purpose) ==
    \/ simulation # None
    \/ VisiblePaths(purpose) \intersect (Present(files) \union Present(imports))
          \intersect (RtlPaths \union derived) # {}

DerivedAfter(purpose, written) ==
    IF SeesImplementation(purpose) THEN derived \union written ELSE derived \ written

\* Proposals that keep the requirements may write only where their intent says.
AllowedStages(intent) ==
    CASE intent = "feature"      -> StageNames
      [] intent = "propose_dv"   -> {"verification_plan", "dv"}
      [] intent = "optimization" -> {"rtl"}
IntentKept(plan, intent) ==
    /\ \A s \in StageNames : plan.writes[s] # {} => s \in AllowedStages(intent)
    /\ intent # "feature" => plan.spec = spec
    /\ intent = "optimization" => plan.manifest = manifest

\* A specification that the delegation covers.
DelegatedSpec(d, s) ==
    /\ Complete(s)
    /\ d.grant.assumptions \/ s.assumptions = {}
    /\ d.seed.questions \subseteq s.assumptions
    /\ d.grant.proposals \/ (s.scope = d.seed.scope /\ s.ports = d.seed.ports
                               /\ d.seed.readiness \in {"absent", s.readiness})

\* The plans that may be offered in this state.
PlansOver(present, scopes) ==
    {[base |-> Input, baseFiles |-> present, spec |-> s, writes |-> w, manifest |-> m] :
        s \in Specs, w \in scopes, m \in Manifests}
ChangePlans ==
    IF stage = StageCount /\ manifest # None
    THEN {plan \in PlansOver(files, Scopes) : ValidPlan(plan)} ELSE {}
BaselinePlans ==
    IF status = "discovery" /\ Present(imports) \intersect ModelTests # {}
    THEN {plan \in PlansOver(imports, {NoWrites}) :
            /\ plan.spec = spec /\ Complete(spec)
            /\ ValidManifest(plan.manifest, Present(imports), spec)}
    ELSE {}
CompletionPlans ==
    IF status = "discovery" /\ Present(imports) \intersect RtlPaths # {}
    THEN {plan \in PlansOver(imports, Scopes) :
            /\ plan.spec = spec /\ Ready(spec)
            /\ ValidPlan(plan)
            /\ plan.writes["rtl"] = {} /\ plan.writes["assertions"] = {}
            /\ Written(plan) \intersect Present(imports) = {}
            /\ (Present(imports) \union Written(plan)) \intersect ModelTests # {}}
    ELSE {}

-----------------------------------------------------------------------------
(* Cards *)

\* A save outdates whatever is displayed.
Saves == shown' = None

\* What is displayed for approval in this state.
Offered(kind) ==
    CASE kind = "specification" -> status = "discovery" /\ spec # None
      [] kind = "change"        -> proposal # None
      [] kind = "acceptance"    -> status = "awaiting_acceptance"
      [] OTHER                  -> FALSE
Payload(kind) ==
    CASE kind = "specification" -> [spec |-> spec, plan |-> None, input |-> None]
      [] kind = "change"        -> [spec |-> proposal.plan.spec, plan |-> proposal.plan,
                                    input |-> None]
      [] kind = "acceptance"    -> [spec |-> spec, plan |-> None, input |-> Input]

\* The review that the conversation chooses when a person says "review".
ReviewKind ==
    IF proposal # None THEN "change"
    ELSE IF status = "discovery" THEN "specification" ELSE "acceptance"

\* An approval in the conversation or the browser: the card is for this kind,
\* shows what would be approved, and the specification is ready.
Confirmed(kind) ==
    /\ shown # None /\ shown.kind = kind /\ Offered(kind)
    /\ shown.payload = Payload(kind)
    /\ kind # "acceptance" => Ready(shown.payload.spec)

\* An approval of a local plan: the card is for this kind.
ConfirmedLocally(kind) == shown # None /\ shown.kind = kind

-----------------------------------------------------------------------------
(* Initial state, processes, preferences *)

Init ==
    /\ status = "discovery" /\ stage = 0
    /\ spec = None /\ approvedSpec = None
    /\ files = NoFiles /\ imports = NoFiles /\ manifest = None
    /\ simulation = None /\ review = "none"
    /\ baseline = None /\ changePlan = None /\ proposal = None
    /\ approvalMode = "none" /\ acceptanceMode = "none"
    /\ repairs = 0 /\ repairLimit = RepairCap
    /\ delegation = None /\ active = "none"
    /\ caller = "none" /\ repairBudget \in RepairBudgets
    /\ batch = "off" /\ contracts = FALSE /\ late = FALSE
    /\ shown = None
    /\ sanction = NoPayload
    /\ derived = {}

\* The process dies or ends, and another one opens the session.
Restart(limit) ==
    /\ repairBudget' = limit
    /\ caller' = "none" /\ batch' = "off" /\ contracts' = FALSE /\ shown' = None
    /\ UNCHANGED <<designVars, imports, evidenceVars, planVars, modeVars,
                   repairVars, active, delegation, late, historyVars>>

\* Detail, pace, a warning acknowledged, provider settings.
SavePreference ==
    /\ Interactive /\ Idle
    /\ Saves
    /\ UNCHANGED <<designVars, imports, evidenceVars, planVars, modeVars,
                   repairVars, callVars, repairBudget, batchVars, historyVars>>

\* A person is shown a review, or a local plan that this state allows.
Show(kind) ==
    /\ Interactive /\ Idle /\ Offered(kind)
    /\ shown' = [kind |-> kind, payload |-> Payload(kind)]
    /\ UNCHANGED <<designVars, imports, evidenceVars, planVars, modeVars,
                   repairVars, callVars, repairBudget, batchVars, historyVars>>

ShowLocal(kind, plans) ==
    /\ Interactive /\ Idle
    /\ \E plan \in plans :
          /\ Ready(plan.spec)
          /\ shown' = [kind |-> kind,
                       payload |-> [spec |-> plan.spec, plan |-> plan, input |-> None]]
    /\ UNCHANGED <<designVars, imports, evidenceVars, planVars, modeVars,
                   repairVars, callVars, repairBudget, batchVars, historyVars>>

-----------------------------------------------------------------------------
(* Calls of the expert *)

\* The limits in force are saved before the call, which may then be refused.
BindLimits ==
    /\ Idle /\ (Interactive \/ batch = "step")
    /\ repairLimit # RepairAllowance
    /\ repairLimit' = RepairAllowance
    /\ Saves
    /\ UNCHANGED <<designVars, imports, evidenceVars, planVars, modeVars,
                   repairs, callVars, repairBudget, batchVars, historyVars>>

StartExpert(purpose) ==
    /\ Idle /\ MayStart(purpose) /\ CallReady(purpose)
    /\ repairLimit = RepairAllowance
    /\ active' = purpose /\ caller' = "waits"
    /\ Saves
    /\ UNCHANGED <<designVars, imports, evidenceVars, planVars, modeVars,
                   repairVars, repairBudget, batchVars, historyVars>>

\* The running process gets the result of its call and saves the end of it.
EndsCall(purpose) ==
    /\ active = purpose /\ caller = "waits"
    /\ active' = "none" /\ caller' = "none"
    /\ Saves

NextInBatch == batch' = IF batch = "step" THEN "loop" ELSE batch

\* No reply, or an output that no correction made valid.  A batch stops.
FailExpert ==
    /\ \E purpose \in Purposes : EndsCall(purpose)
    /\ batch' = "off" /\ contracts' = FALSE
    /\ UNCHANGED <<designVars, imports, evidenceVars, planVars, modeVars, repairVars,
                   repairBudget, delegation, late, historyVars>>

AcceptAdvice ==
    /\ EndsCall(Advice)
    /\ UNCHANGED <<designVars, imports, evidenceVars, planVars, modeVars,
                   repairVars, repairBudget, batchVars, historyVars>>

\* A reply of the discovery dialogue may bring a new draft.  An unattended
\* step must resolve every question.
AcceptDiscovery(s) ==
    /\ EndsCall("discovery")
    /\ spec' = s
    /\ IF batch = "step" /\ s.questions # {}
       THEN batch' = "off" /\ contracts' = FALSE
       ELSE NextInBatch /\ UNCHANGED contracts
    /\ UNCHANGED <<status, stage, approvedSpec, files, manifest, imports, evidenceVars,
                   planVars, modeVars, repairVars, repairBudget, delegation, late, historyVars>>

Contributions(role) ==
    {c \in [PathsIn(AreaOf(role)) -> AllTexts \union {None}] :
        \A p \in PathsIn(AreaOf(role)) : c[p] \in Texts[p] \union {None}}
PathsOf(c) == {p \in DOMAIN c : c[p] # None}
FilesWith(c) == [p \in Paths |-> IF p \in PathsOf(c) THEN c[p] ELSE files[p]]

\* Only the reviewed paths of the stage; without a change, only new paths.
InWriteScope(role, written) ==
    /\ written # {}
    /\ IF changePlan # None THEN written = changePlan.writes[role]
                            ELSE written \intersect Present(files) = {}

AcceptStage(role, c, m) ==
    /\ EndsCall(role)
    /\ InWriteScope(role, PathsOf(c))
    /\ files' = FilesWith(c)
    /\ IF role = "dv"
       THEN /\ Present(files') \intersect ModelTests # {}
            /\ m # None /\ ValidManifest(m, Present(files'), spec)
            /\ changePlan # None => m = changePlan.manifest
            /\ manifest' = m
       ELSE m = None /\ UNCHANGED manifest
    /\ stage' = stage + 1
    /\ derived' = DerivedAfter(role, PathsOf(c))
    /\ NextInBatch
    /\ UNCHANGED <<status, spec, approvedSpec, imports, evidenceVars, planVars, modeVars,
                   repairVars, repairBudget, delegation, contracts, late, sanction>>

\* A repair rewrites RTL that is there, inside the reviewed scope.
InRepairScopeOfDirectory(written) == written # {} /\ written \subseteq Present(files)
InRepairScope(written) ==
    /\ written # {} /\ written \subseteq RtlPaths \intersect Present(files)
    /\ changePlan # None =>
          written \subseteq changePlan.writes["rtl"] \union changePlan.writes["assertions"]

AcceptRepair(c) ==
    /\ EndsCall("diagnosis")
    /\ InRepairScope(PathsOf(c))
    /\ FilesWith(c) # files
    /\ files' = FilesWith(c)
    /\ repairs' = repairs + 1
    /\ status' = "building" /\ review' = "none"
    /\ derived' = DerivedAfter("diagnosis", PathsOf(c))
    /\ NextInBatch
    /\ UNCHANGED <<stage, spec, approvedSpec, manifest, simulation, imports, planVars, modeVars,
                   repairLimit, repairBudget, delegation, contracts, late, sanction>>

AcceptSignoff(verdict) ==
    /\ EndsCall("signoff")
    /\ review' = verdict
    /\ status' = IF verdict = "accept" THEN "awaiting_acceptance" ELSE "review_blocked"
    /\ NextInBatch
    /\ UNCHANGED <<stage, spec, approvedSpec, files, manifest, simulation, imports, planVars,
                   modeVars, repairVars, repairBudget, delegation, contracts, late, historyVars>>

AcceptProposal(intent) ==
    /\ EndsCall(intent)
    /\ \E plan \in ChangePlans :
          /\ IntentKept(plan, intent)
          /\ proposal' = [intent |-> intent, plan |-> plan]
    /\ UNCHANGED <<designVars, imports, evidenceVars, baseline, changePlan, modeVars,
                   repairVars, repairBudget, batchVars, historyVars>>

\* The stage is outside the scope of the change: no call, the artifacts stay.
ManifestAfterReuseKept == manifest
ManifestAfterReuse == IF NextStage = "dv" THEN changePlan.manifest ELSE manifest

ReuseStage ==
    /\ Idle /\ (Interactive \/ batch = "step")
    /\ status = "building" /\ stage < StageCount /\ Reused(NextStage)
    /\ approvedSpec = spec
    /\ NextStage = "dv" => ValidManifest(changePlan.manifest, Present(files), spec)
    /\ stage' = stage + 1
    /\ manifest' = ManifestAfterReuse
    /\ Saves /\ NextInBatch
    /\ UNCHANGED <<status, spec, approvedSpec, files, imports, evidenceVars, planVars, modeVars,
                   repairVars, callVars, repairBudget, delegation, contracts, late, historyVars>>

-----------------------------------------------------------------------------
(* Simulation and recovery *)

StartSimulation ==
    /\ Idle /\ MayStart("simulation")
    /\ status = "building" /\ stage = StageCount
    /\ approvedSpec = spec
    /\ manifest # None /\ ValidManifest(manifest, Present(files), spec)
    /\ active' = "simulation" /\ caller' = "waits"
    /\ Saves
    /\ UNCHANGED <<designVars, imports, evidenceVars, planVars, modeVars,
                   repairVars, repairBudget, batchVars, historyVars>>

StatusAfterAnyRun(passed) == "needs_signoff"
StatusAfterRun(passed) == IF passed THEN "needs_signoff" ELSE "needs_repair"

CompleteSimulation(passed) ==
    /\ EndsCall("simulation")
    /\ simulation' = [input |-> Input, passed |-> passed]
    /\ review' = "none"
    /\ status' = StatusAfterRun(passed)
    /\ NextInBatch
    /\ UNCHANGED <<stage, spec, approvedSpec, files, manifest, imports, planVars, modeVars,
                   repairVars, repairBudget, delegation, contracts, late, historyVars>>

\* Any trouble with the runtime keeps the intent: a daemon may still run it.
FailSimulation ==
    /\ active = "simulation" /\ caller = "waits"
    /\ caller' = "gone"
    /\ Saves /\ batch' = "off" /\ contracts' = FALSE
    /\ UNCHANGED <<designVars, imports, evidenceVars, planVars, modeVars, repairVars, active,
                   repairBudget, delegation, late, historyVars>>

\* The wait is cancelled (interrupt, timeout, cancellation in the browser): the
\* intent stays, and no reply is taken any more.
CancelWait ==
    /\ Interactive /\ caller = "waits"
    /\ caller' = "gone"
    /\ UNCHANGED <<designVars, imports, evidenceVars, planVars, modeVars, repairVars,
                   active, repairBudget, batchVars, shown, historyVars>>

\* A person gives up what another process left; its result is never evidence.
Abandon ==
    /\ Interactive /\ ~Idle /\ caller = "none"
    /\ active' = "none"
    /\ Saves
    /\ UNCHANGED <<designVars, imports, evidenceVars, planVars, modeVars,
                   repairVars, caller, repairBudget, batchVars, historyVars>>

-----------------------------------------------------------------------------
(* Approvals, revision, import *)

\* New inputs: what was simulated and reviewed before says nothing about them.
InvalidatedReviewOnly == review' = "none" /\ UNCHANGED simulation
Invalidated == simulation' = None /\ review' = "none"

\* What approve does to a draft, whoever approves.
ApproveSpec(authority) ==
    /\ Idle /\ status = "discovery"
    /\ spec # None /\ Approvable(spec)
    /\ status' = "building"
    /\ approvedSpec' = spec
    /\ approvalMode' = authority
    /\ Saves
    /\ UNCHANGED <<stage, spec, files, manifest, imports, evidenceVars, planVars,
                   acceptanceMode, repairVars, callVars, repairBudget, delegation,
                   contracts, late, derived>>

\* What approve does to a finished design.
AcceptDesign(authority) ==
    /\ Idle /\ status = "awaiting_acceptance"
    /\ simulation.input = Input
    /\ status' = "accepted"
    /\ acceptanceMode' = authority
    /\ Saves
    /\ UNCHANGED <<stage, spec, approvedSpec, files, manifest, imports, evidenceVars, planVars,
                   approvalMode, repairVars, callVars, repairBudget, delegation,
                   contracts, late, derived>>

ApproveSpecification ==
    /\ Interactive /\ Confirmed("specification")
    /\ ApproveSpec("user")
    /\ sanction' = shown.payload
    /\ UNCHANGED batch

ApproveAcceptance ==
    /\ Interactive /\ Confirmed("acceptance")
    /\ AcceptDesign("user")
    /\ sanction' = [sanction EXCEPT !.input = shown.payload.input]
    /\ UNCHANGED batch

\* The same with a typed digest, of a draft or of a finished design.
ApproveSpecByDigest ==
    /\ Interactive
    /\ ApproveSpec("user")
    /\ sanction' = [NoPayload EXCEPT !.spec = spec]
    /\ UNCHANGED batch

ApproveAcceptanceByDigest ==
    /\ Interactive
    /\ AcceptDesign("user")
    /\ sanction' = [sanction EXCEPT !.input = Input]
    /\ UNCHANGED batch

\* A change starts the stages again over the files of the finished design.
ChangeFits(plan) ==
    /\ ValidPlan(plan) /\ Approvable(plan.spec)
    /\ stage = StageCount /\ manifest # None
    /\ plan.base = Input /\ plan.baseFiles = files

ApproveChange(plan) ==
    /\ Interactive /\ Idle
    /\ ChangeFits(plan)
    /\ spec' = plan.spec /\ approvedSpec' = plan.spec
    /\ approvalMode' = "user" /\ acceptanceMode' = "none"
    /\ delegation' = None /\ late' = FALSE /\ changePlan' = plan
    /\ status' = "building" /\ stage' = 0 /\ manifest' = None
    /\ Invalidated
    /\ proposal' = None
    /\ Saves
    /\ UNCHANGED <<files, imports, baseline, repairVars, callVars, repairBudget,
                   batch, contracts, derived>>

ApproveProposal ==
    /\ Confirmed("change")
    /\ IntentKept(proposal.plan, proposal.intent)
    /\ ApproveChange(proposal.plan)
    /\ sanction' = shown.payload

ApproveProposalByDigest ==
    /\ proposal # None
    /\ IntentKept(proposal.plan, proposal.intent)
    /\ ApproveChange(proposal.plan)
    /\ sanction' = Payload("change")

ApproveLocalChange ==
    /\ ConfirmedLocally("local_change")
    /\ ApproveChange(shown.payload.plan)
    /\ sanction' = shown.payload

\* A plan file with its typed digest, written in this or in an earlier state.
ApproveChangeByDigest ==
    \E plan \in ChangePlans :
       /\ ApproveChange(plan)
       /\ sanction' = [spec |-> plan.spec, plan |-> plan, input |-> None]

\* An imported design is adopted as it is, with everything still to simulate;
\* save refuses a specification whose readiness is unresolved.
AdoptBaseline(plan) ==
    /\ Interactive /\ Idle
    /\ plan \in BaselinePlans /\ Approvable(spec)
    /\ baseline' = plan
    /\ approvedSpec' = spec
    /\ approvalMode' = "user" /\ acceptanceMode' = "none"
    /\ delegation' = None /\ late' = FALSE
    /\ status' = "building" /\ stage' = StageCount
    /\ manifest' = plan.manifest
    /\ files' = [p \in Paths |-> IF imports[p] # None THEN imports[p] ELSE files[p]]
    /\ Invalidated
    /\ proposal' = None
    /\ Saves
    /\ UNCHANGED <<spec, imports, changePlan, repairVars, callVars, repairBudget,
                   batch, contracts, derived>>

ApproveBaseline ==
    /\ ConfirmedLocally("baseline")
    /\ AdoptBaseline(shown.payload.plan)
    /\ sanction' = shown.payload

ApproveBaselineByDigest ==
    \E plan \in BaselinePlans :
       /\ AdoptBaseline(plan)
       /\ sanction' = [spec |-> spec, plan |-> plan, input |-> None]

\* An imported design is completed: the stages write what is missing.
ApproveCompletion ==
    /\ Interactive /\ Idle /\ ConfirmedLocally("completion")
    /\ shown.payload.plan \in CompletionPlans
    /\ approvedSpec' = spec
    /\ approvalMode' = "user" /\ acceptanceMode' = "none"
    /\ delegation' = None /\ late' = FALSE
    /\ status' = "building" /\ stage' = 0
    /\ changePlan' = shown.payload.plan /\ baseline' = None
    /\ manifest' = None
    /\ files' = [p \in Paths |-> IF imports[p] # None THEN imports[p] ELSE files[p]]
    /\ Invalidated
    /\ proposal' = None
    /\ Saves
    /\ sanction' = shown.payload
    /\ UNCHANGED <<spec, imports, repairVars, callVars, repairBudget,
                   batch, contracts, derived>>

\* A structured draft without a call.
Propose(s) ==
    /\ Interactive /\ Idle /\ status = "discovery"
    /\ spec' = s
    /\ Saves
    /\ UNCHANGED <<status, stage, approvedSpec, files, manifest, imports, evidenceVars,
                   planVars, modeVars, repairVars, callVars, repairBudget, batchVars,
                   historyVars>>

\* Back to discovery: nothing that was approved or made stays in force.
PlansAfterRevisionKeepingChange == baseline' = None /\ proposal' = None /\ UNCHANGED changePlan
PlansAfterRevision == baseline' = None /\ changePlan' = None /\ proposal' = None

Revise ==
    /\ Interactive /\ Idle
    /\ status' = "discovery" /\ stage' = 0 /\ approvedSpec' = None
    /\ files' = NoFiles /\ manifest' = None
    /\ Invalidated
    /\ delegation' = None /\ late' = FALSE
    /\ approvalMode' = "none" /\ acceptanceMode' = "none"
    /\ PlansAfterRevision
    /\ Saves
    /\ derived' = {} /\ sanction' = NoPayload
    /\ UNCHANGED <<spec, imports, repairVars, callVars, repairBudget, batch,
                   contracts>>

\* Selected files are copied in one save; a path is imported once.
ImportFiles(selected) ==
    /\ Interactive /\ Idle /\ status = "discovery"
    /\ DOMAIN selected # {} /\ DOMAIN selected \intersect Present(imports) = {}
    /\ imports' = [p \in Paths |-> IF p \in DOMAIN selected THEN selected[p] ELSE imports[p]]
    /\ Saves
    /\ UNCHANGED <<designVars, evidenceVars, planVars, modeVars, repairVars, callVars,
                   repairBudget, batchVars, historyVars>>

-----------------------------------------------------------------------------
(* Batch *)

\* A delegation is bound to the draft it was reviewed with, and only once.
BindDelegation(grant) ==
    /\ Interactive /\ Idle
    /\ delegation = None /\ status = "discovery" /\ spec # None
    /\ delegation' = [seed |-> spec, grant |-> grant, steps |-> 0]
    /\ repairLimit' = Smaller(RepairAllowance, grant.maxRepairs)
    /\ late' = FALSE
    /\ Saves
    /\ UNCHANGED <<designVars, imports, evidenceVars, planVars, modeVars, repairs,
                   callVars, repairBudget, batch, contracts, historyVars>>

\* The batch command, with a policy or with an authorization file.
StartBatch(policy) ==
    /\ Interactive /\ delegation # None
    /\ policy => /\ spec.readiness # "absent"
                 /\ spec.questions = {} => Ready(spec)
    /\ batch' = "loop" /\ contracts' = policy
    /\ UNCHANGED <<designVars, imports, evidenceVars, planVars, modeVars, repairVars, callVars,
                   repairBudget, delegation, late, shown, historyVars>>

\* The loop stops for a person, at the end, or when the budget is used up.
StepsLeft == delegation.steps < delegation.grant.maxSteps
BatchStops ==
    \/ ~Idle
    \/ status \in {"accepted", "review_blocked"}
    \/ status = "awaiting_acceptance" /\ ~delegation.grant.acceptance
    \/ status = "discovery" /\ spec.questions # {} /\ ~delegation.grant.assumptions
    \/ late \/ ~StepsLeft

EndBatch ==
    /\ batch = "loop" /\ BatchStops
    /\ batch' = "off" /\ contracts' = FALSE
    /\ UNCHANGED <<designVars, imports, evidenceVars, planVars, modeVars, repairVars, callVars,
                   repairBudget, delegation, late, shown, historyVars>>

\* A step is counted before it is executed.
BatchStep ==
    /\ batch = "loop" /\ ~BatchStops
    /\ batch' = "step"
    /\ delegation' = [delegation EXCEPT !.steps = @ + 1]
    /\ Saves
    /\ UNCHANGED <<designVars, imports, evidenceVars, planVars, modeVars, repairVars, callVars,
                   repairBudget, contracts, late, historyVars>>

DelegationCoversIgnoringSeed == ~late /\ Complete(spec)
DelegationCovers == ~late /\ DelegatedSpec(delegation, spec)

BatchApproves ==
    /\ batch = "step" /\ (contracts => Ready(spec))
    /\ DelegationCovers
    /\ ApproveSpec("delegated")
    /\ batch' = "loop"
    /\ UNCHANGED sanction

FinalAcceptanceDelegated == ~late /\ delegation.grant.acceptance

BatchAccepts ==
    /\ batch = "step" /\ FinalAcceptanceDelegated
    /\ AcceptDesign("delegated")
    /\ batch' = "loop"
    /\ UNCHANGED sanction

\* A step that may not start its work (no capability, a refused check) raises.
BatchRefused ==
    /\ batch = "step" /\ Idle
    /\ batch' = "off" /\ contracts' = FALSE
    /\ UNCHANGED <<designVars, imports, evidenceVars, planVars, modeVars, repairVars, callVars,
                   repairBudget, delegation, late, shown, historyVars>>

\* The deadline cuts a step short; what is in flight stays recorded.
WaitIsBoundedForRunsOnly == late /\ active = "simulation"
WaitIsBounded == late /\ ~Idle
BatchTimeout ==
    /\ batch = "step" /\ WaitIsBounded
    /\ caller' = "gone"
    /\ batch' = "off" /\ contracts' = FALSE
    /\ UNCHANGED <<designVars, imports, evidenceVars, planVars, modeVars, repairVars, active,
                   repairBudget, delegation, late, shown, historyVars>>

\* The deadline is wall-clock time, whether or not a process runs.
DeadlinePasses ==
    /\ delegation # None /\ ~late
    /\ late' = TRUE
    /\ UNCHANGED <<designVars, imports, evidenceVars, planVars, modeVars, repairVars, callVars,
                   repairBudget, delegation, batch, contracts, shown, historyVars>>

-----------------------------------------------------------------------------
Expert ==
    \/ BindLimits
    \/ \E purpose \in Purposes : StartExpert(purpose)
    \/ FailExpert
    \/ AcceptAdvice
    \/ \E s \in Specs \union {spec} : AcceptDiscovery(s)
    \/ \E role \in StageNames, m \in Manifests \union {None} :
          \E c \in Contributions(role) : AcceptStage(role, c, m)
    \/ \E c \in Contributions("diagnosis") : AcceptRepair(c)
    \/ \E verdict \in {"accept", "revise"} : AcceptSignoff(verdict)
    \/ \E intent \in Intents \intersect Requests : AcceptProposal(intent)
    \/ ReuseStage

Simulator ==
    \/ StartSimulation
    \/ \E passed \in BOOLEAN : CompleteSimulation(passed)
    \/ FailSimulation

Person ==
    \/ SavePreference
    \/ \E kind \in CardKinds : Show(kind)
    \/ ShowLocal("baseline", BaselinePlans)
    \/ ShowLocal("completion", CompletionPlans)
    \/ ShowLocal("local_change", ChangePlans)
    \/ ApproveSpecification
    \/ ApproveAcceptance
    \/ ApproveSpecByDigest
    \/ ApproveAcceptanceByDigest
    \/ ApproveProposal
    \/ ApproveProposalByDigest
    \/ ApproveLocalChange
    \/ ApproveChangeByDigest
    \/ ApproveBaseline
    \/ ApproveBaselineByDigest
    \/ ApproveCompletion
    \/ \E s \in Specs : Propose(s)
    \/ Revise
    \/ \E selection \in SUBSET Importable :
          \E texts \in [selection -> AllTexts] :
             /\ \A p \in selection : texts[p] \in Texts[p]
             /\ ImportFiles(texts)
    \/ CancelWait
    \/ Abandon
    \/ \E grant \in Grants : BindDelegation(grant)
    \/ \E policy \in BOOLEAN : StartBatch(policy)

Batch ==
    \/ EndBatch
    \/ BatchStep
    \/ BatchApproves
    \/ BatchAccepts
    \/ BatchRefused
    \/ BatchTimeout

Environment ==
    \/ \E limit \in RepairBudgets : Restart(limit)
    \/ DeadlinePasses

Next == Expert \/ Simulator \/ Person \/ Batch \/ Environment

Spec == Init /\ [][Next]_vars

\* What a batch step does before it waits for anything.
BatchWork ==
    \/ BatchRefused
    \/ BatchApproves
    \/ BatchAccepts
    \/ /\ batch = "step"
       /\ BindLimits \/ ReuseStage \/ StartSimulation
            \/ \E purpose \in Purposes : StartExpert(purpose)

\* The clock runs, the batch loop takes its next step, a step runs until it
\* waits for a reply, and the deadline interrupts that wait.  No reply is
\* promised.
FairSpec ==
    /\ Spec
    /\ WF_vars(DeadlinePasses)
    /\ WF_vars(EndBatch \/ BatchStep)
    /\ WF_vars(BatchWork)
    /\ WF_vars(BatchTimeout)

-----------------------------------------------------------------------------
(* Properties *)

\* Every variable has its type: what validate_state demands of each field.
TypeOK ==
    /\ status \in Statuses
    /\ stage \in 0..StageCount
    /\ spec \in Specs \union {None}
    /\ approvedSpec \in Specs \union {None}
    /\ files \in FileMaps
    /\ imports \in FileMaps
    /\ manifest \in Manifests \union {None}
    /\ simulation \in Reports \union {None}
    /\ review \in {"none", "accept", "revise"}
    /\ baseline \in Plans \union {None}
    /\ changePlan \in Plans \union {None}
    /\ proposal \in Proposals \union {None}
    /\ approvalMode \in {"none", "user", "delegated"}
    /\ acceptanceMode \in {"none", "user", "delegated"}
    /\ repairs \in 0..RepairCap
    /\ repairLimit \in 0..RepairCap
    /\ delegation \in Delegations \union {None}
    /\ active \in Purposes \union {"none", "simulation"}
    /\ caller \in {"none", "waits", "gone"}
    /\ repairBudget \in RepairBudgets
    /\ batch \in {"off", "loop", "step"}
    /\ contracts \in BOOLEAN
    /\ late \in BOOLEAN
    /\ shown \in Cards \union {None}
    /\ sanction \in Payloads
    /\ derived \in SUBSET Paths

\* Outside discovery the saved specification is the approved one and may be
\* approved; in discovery nothing is approved or made.
ApprovalBinding ==
    IF status = "discovery"
    THEN approvedSpec = None /\ stage = 0 /\ Present(files) = {}
    ELSE spec # None /\ approvedSpec = spec /\ Approvable(spec)

\* A saved manifest is one of the files and the specification at hand, and a
\* design with all stages done has one.
ManifestBinding ==
    /\ manifest # None => spec # None /\ ValidManifest(manifest, Present(files), spec)
    /\ stage = StageCount => manifest # None

\* An adopted baseline is still what the imports say it is.
BaselineBinding ==
    baseline # None =>
        /\ baseline.baseFiles = imports
        /\ Present(imports) \intersect ModelTests # {}
        /\ ValidManifest(baseline.manifest, Present(imports), baseline.spec)

\* Every sequence of handlers leaves a state that the validation in save
\* accepts, although no handler is modelled as being refused by it
\* (validate_state, validate_import_state): a session never becomes unreadable.
SessionConsistent == ApprovalBinding /\ ManifestBinding /\ BaselineBinding

\* Signoff, acceptance and what follows rest on a passing report about exactly
\* the approved specification, files and manifest of this state: no repair,
\* change, adoption or revision in between keeps an old report in force
\* (validate_state, DesignAgent.approve).
EvidenceCurrent ==
    /\ status \in Simulated => /\ stage = StageCount
                               /\ simulation # None
                               /\ simulation.input = Input
    /\ status \in Passed => simulation.passed
    /\ status = "needs_repair" => ~simulation.passed
    /\ status \in {"awaiting_acceptance", "accepted"} => review = "accept"

\* Under an approved change every file outside its write scope is the one the
\* person reviewed it with, through stages, reuse and repairs, and no file
\* outside base and scope appears (validate_import_state).
ChangeScopeKept ==
    changePlan # None =>
        /\ approvedSpec = changePlan.spec
        /\ Present(files) \subseteq Present(changePlan.baseFiles) \union Written(changePlan)
        /\ \A p \in Present(changePlan.baseFiles) \ Written(changePlan) :
              files[p] = changePlan.baseFiles[p]

\* A model test, a testbench or a document is never written from a context that
\* showed RTL text, a simulation report, or an artifact written from such a
\* context: verification stays independent of the implementation it judges,
\* also in later changes of a simulated design (DesignAgent.context).
VerificationIsIndependent == derived \subseteq RtlPaths

\* What stands as approved or accepted by a person is exactly what that person
\* was shown: the specification, the change or import plan in force, and at
\* acceptance the files and the manifest (approve, approve_shown,
\* approve_local, approve_change).
ApprovedWasReviewed ==
    /\ approvalMode = "user" =>
          /\ sanction.spec = approvedSpec
          /\ changePlan # None => sanction.plan = changePlan
          /\ changePlan = None /\ baseline # None => sanction.plan = baseline
    /\ acceptanceMode = "user" => sanction.input = Input

\* Unattended approval stays inside the delegation the person gave: the seed's
\* questions all became recorded assumptions, requirements changed only if
\* that was delegated, final acceptance only if that was, steps and repairs
\* within what was granted (validate_session_extensions).
DelegationBinding ==
    /\ approvalMode = "delegated" => delegation # None /\ DelegatedSpec(delegation, spec)
    /\ acceptanceMode = "delegated" => delegation # None /\ delegation.grant.acceptance
    /\ delegation # None => /\ delegation.steps <= delegation.grant.maxSteps
                            /\ repairLimit <= delegation.grant.maxRepairs

\* No run of the program widens a repair limit that was saved, and every repair
\* made is within the limit in force; revising, changing or restarting with
\* a larger policy refunds none (DesignAgent._limits, docs of the batch).
RepairsBounded ==
    [][/\ repairLimit' <= repairLimit
       /\ repairs' >= repairs
       /\ repairs' > repairs => repairs' <= repairLimit']_vars

\* A batch ends, whatever the provider and the simulator do (run_batch).
BatchEnds == batch # "off" ~> batch = "off"

\* After simulation and signoff, "review" shows the acceptance, or at least a
\* change of this design and not one of a design that is gone (show_review).
AcceptanceIsReviewable ==
    status = "awaiting_acceptance" /\ Idle =>
        \/ ReviewKind = "acceptance"
        \/ proposal.plan.base = Input
=============================================================================
