------------------------- MODULE DesignSession_proofs -------------------------
(***************************************************************************)
(* For every set of paths, specifications, plans and grants: the types     *)
(* hold, every handler leaves what the validation of a save accepts,       *)
(* evidence is of the inputs at hand, a change keeps its scope, what is    *)
(* verified does not shape its verification, an approval is of what was    *)
(* shown, and an unattended one is within its delegation.                  *)
(***************************************************************************)
EXTENDS DesignSession, TLAPS

LocalKinds == {"baseline", "completion", "local_change"}

\* Why nothing of an earlier design survives in discovery, and why a report or an
\* acceptance is of a design whose stages are done.
LifeInv ==
    /\ status = "discovery" =>
         /\ baseline = None /\ changePlan = None
         /\ approvalMode = "none"
    /\ stage < StageCount => manifest = None /\ simulation = None
    /\ stage < StageCount => status \in {"discovery", "building"}
    /\ acceptanceMode # "none" => status = "accepted"

\* Why the answer of a call still fits the state it comes back to: what its start
\* required cannot change while it is in flight.
CallInv ==
    /\ active = "discovery" => status = "discovery"
    /\ active \in StageNames =>
         status = "building" /\ stage < StageCount /\ active = NextStage
    /\ active = "simulation" => status = "building" /\ stage = StageCount
    /\ active = "diagnosis" => status = "needs_repair" /\ repairs < repairLimit
    /\ active = "signoff" => status = "needs_signoff"

\* Why a local approval is of one plan: its card shows the specification of the
\* plan it shows.
CardInv ==
    shown # None /\ shown.kind \in LocalKinds =>
        shown.payload.plan \in Plans /\ shown.payload.spec = shown.payload.plan.spec

\* Why a batch step has a delegation to count in: no save of a running batch
\* takes the delegation away.
BatchInv == batch # "off" => delegation # None

\* What the properties of the design need of each other.
DesignInv ==
    /\ SessionConsistent /\ EvidenceCurrent /\ ChangeScopeKept
    /\ VerificationIsIndependent /\ ApprovedWasReviewed /\ LifeInv

SessionInv ==
    /\ TypeOK /\ DesignInv /\ CallInv /\ CardInv /\ BatchInv /\ DelegationBinding

-----------------------------------------------------------------------------
(* Helpers *)

\* The six stages have six names, and the last one is the testbench.
LEMMA StageFacts ==
    ASSUME NEW n \in 0..5
    PROVE  /\ STAGES[n + 1] \in StageNames
           /\ STAGES[n + 1] = "dv" <=> n = 5
<1>1. n = 0 \/ n = 1 \/ n = 2 \/ n = 3 \/ n = 4 \/ n = 5
  OBVIOUS
<1>2. CASE n = 0  BY <1>2 DEF STAGES, StageNames
<1>3. CASE n = 1  BY <1>3 DEF STAGES, StageNames
<1>4. CASE n = 2  BY <1>4 DEF STAGES, StageNames
<1>5. CASE n = 3  BY <1>5 DEF STAGES, StageNames
<1>6. CASE n = 4  BY <1>6 DEF STAGES, StageNames
<1>7. CASE n = 5  BY <1>7 DEF STAGES, StageNames
<1> QED  BY <1>1, <1>2, <1>3, <1>4, <1>5, <1>6, <1>7

\* The fields of a plan, none of which is missing.
LEMMA PlanParts ==
    ASSUME NEW plan \in Plans
    PROVE  /\ plan.base \in Inputs /\ plan.baseFiles \in FileMaps
           /\ plan.spec \in Specs /\ plan.spec # None
           /\ plan.writes \in [StageNames -> SUBSET Paths]
           /\ plan.manifest \in Manifests /\ plan.manifest # None
           /\ plan # None
BY SessionAssumption DEF Plans

\* What is offered is a plan of the current inputs over the files at hand.
LEMMA PlansOverTypes ==
    ASSUME NEW present \in FileMaps, NEW scopes \in SUBSET [StageNames -> SUBSET Paths],
           Input \in Inputs, NEW plan \in PlansOver(present, scopes)
    PROVE  /\ plan \in Plans /\ plan.baseFiles = present
           /\ plan.base = Input /\ plan.writes \in scopes
BY DEF PlansOver, Plans

LEMMA InputType == TypeOK => Input \in Inputs
BY DEF TypeOK, Inputs, Input

LEMMA NoWritesType == NoWrites \in [StageNames -> SUBSET Paths]
BY DEF NoWrites

LEMMA ChangePlanFacts ==
    ASSUME TypeOK, NEW plan \in ChangePlans
    PROVE  /\ plan \in Plans /\ plan.baseFiles = files /\ plan.base = Input
           /\ ValidPlan(plan)
<1>1. files \in FileMaps /\ Scopes \in SUBSET [StageNames -> SUBSET Paths]
  BY SessionAssumption DEF TypeOK
<1>2. plan \in PlansOver(files, Scopes) /\ ValidPlan(plan)
  BY DEF ChangePlans
<1> QED  BY <1>1, <1>2, InputType, PlansOverTypes

LEMMA BaselinePlanFacts ==
    ASSUME TypeOK, NEW plan \in BaselinePlans
    PROVE  /\ plan \in Plans /\ plan.baseFiles = imports
           /\ status = "discovery" /\ Present(imports) \intersect ModelTests # {}
           /\ plan.spec = spec /\ Complete(spec)
           /\ ValidManifest(plan.manifest, Present(imports), spec)
<1>1. imports \in FileMaps
  BY DEF TypeOK
<1>2. /\ plan \in PlansOver(imports, {NoWrites})
      /\ status = "discovery" /\ Present(imports) \intersect ModelTests # {}
      /\ plan.spec = spec /\ Complete(spec)
      /\ ValidManifest(plan.manifest, Present(imports), spec)
  BY DEF BaselinePlans
<1> QED  BY <1>1, <1>2, InputType, PlansOverTypes, NoWritesType

LEMMA CompletionPlanFacts ==
    ASSUME TypeOK, NEW plan \in CompletionPlans
    PROVE  /\ plan \in Plans /\ plan.baseFiles = imports
           /\ status = "discovery" /\ plan.spec = spec /\ Ready(spec)
<1>1. imports \in FileMaps /\ Scopes \in SUBSET [StageNames -> SUBSET Paths]
  BY SessionAssumption DEF TypeOK
<1>2. /\ plan \in PlansOver(imports, Scopes)
      /\ status = "discovery" /\ plan.spec = spec /\ Ready(spec)
  BY DEF CompletionPlans
<1> QED  BY <1>1, <1>2, InputType, PlansOverTypes

\* What a contribution writes is in the directory of its role.
LEMMA ContributionInArea ==
    ASSUME NEW role, NEW c \in Contributions(role)
    PROVE  /\ PathsOf(c) \subseteq PathsIn(AreaOf(role)) /\ PathsOf(c) \subseteq Paths
           /\ \A p \in PathsOf(c) : c[p] \in AllTexts
BY DEF Contributions, PathsOf, PathsIn, AllTexts

\* The files after a contribution: what it writes, over what was there.
LEMMA FilesAfter ==
    ASSUME files \in FileMaps, NEW role, NEW c \in Contributions(role)
    PROVE  /\ FilesWith(c) \in FileMaps
           /\ Present(FilesWith(c)) = Present(files) \union PathsOf(c)
           /\ \A p \in Paths \ PathsOf(c) : FilesWith(c)[p] = files[p]
<1>1. PathsOf(c) \subseteq Paths /\ \A p \in PathsOf(c) : c[p] \in AllTexts /\ c[p] # None
  BY ContributionInArea, SessionAssumption DEF PathsOf
<1>2. \A p \in Paths : files[p] \in AllTexts \union {None}
  BY DEF FileMaps
<1> QED  BY <1>1, <1>2 DEF FilesWith, FileMaps, Present

\* Without files, the imports are what an import plan leaves as files.
LEMMA ImportsOverNothing ==
    ASSUME files \in FileMaps, imports \in FileMaps, Present(files) = {}
    PROVE  [p \in Paths |-> IF imports[p] # None THEN imports[p] ELSE files[p]] = imports
BY DEF FileMaps, Present

\* What a role writes, and what its context shows: RTL is written by three roles
\* only, and is not shown to the others.
LEMMA RolesAndRtl ==
    /\ \A role \in {"rtl", "assertions", "diagnosis"} : PathsIn(AreaOf(role)) = RtlPaths
    /\ \A role \in {"architecture", "verification_plan", "reference_model", "dv"} :
         VisiblePaths(role) \intersect RtlPaths = {}
    /\ RtlPaths \subseteq Paths
<1>1. PathsIn("docs") \intersect RtlPaths = {} /\ RtlPaths \subseteq Paths
  BY DEF PathsIn, RtlPaths
<1>2. \A role \in {"rtl", "assertions", "diagnosis"} : PathsIn(AreaOf(role)) = RtlPaths
  BY DEF AreaOf, RtlPaths
<1>3. \A role \in {"architecture", "verification_plan", "reference_model"} :
         VisiblePaths(role) = PathsIn("docs")
  BY DEF VisiblePaths
<1>4. VisiblePaths("dv") = Paths \ RtlPaths
  BY DEF VisiblePaths
<1> QED  BY <1>1, <1>2, <1>3, <1>4

\* While there is no report, what a role writes is derived from RTL only if it is
\* RTL.
LEMMA DerivedStaysRtl ==
    ASSUME derived \subseteq RtlPaths, NEW role \in StageNames \union {"diagnosis"},
           NEW written \in SUBSET PathsIn(AreaOf(role)),
           role \in {"rtl", "assertions", "diagnosis"} \/ simulation = None
    PROVE  DerivedAfter(role, written) \subseteq RtlPaths
<1>1. CASE role \in {"rtl", "assertions", "diagnosis"}
  <2>1. written \subseteq RtlPaths
    BY <1>1, RolesAndRtl
  <2> QED  BY <2>1 DEF DerivedAfter
<1>2. CASE role \notin {"rtl", "assertions", "diagnosis"}
  <2>1. role \in {"architecture", "verification_plan", "reference_model", "dv"}
    BY <1>2 DEF StageNames
  <2>2. VisiblePaths(role) \intersect RtlPaths = {}
    BY <2>1, RolesAndRtl
  <2>3. ~SeesImplementation(role)
    BY <1>2, <2>2 DEF SeesImplementation
  <2> QED  BY <2>3 DEF DerivedAfter
<1> QED  BY <1>1, <1>2

-----------------------------------------------------------------------------
(* The design, step by step *)

designState == <<designVars, imports, evidenceVars, planVars, modeVars, historyVars>>

\* Calls, cards, limits, the clock and the batch loop are not the design.
LEMMA QuietStep == DesignInv /\ UNCHANGED designState => DesignInv'
<1> SUFFICES ASSUME DesignInv, UNCHANGED designState
             PROVE  DesignInv'
  OBVIOUS
<1> USE DEF designState, designVars, evidenceVars, planVars, modeVars, historyVars
<1>1. SessionConsistent'
  BY DEF DesignInv, SessionConsistent, ApprovalBinding, ManifestBinding, BaselineBinding
<1>2. EvidenceCurrent' /\ ChangeScopeKept' /\ VerificationIsIndependent'
  BY DEF DesignInv, EvidenceCurrent, ChangeScopeKept, VerificationIsIndependent, Input
<1>3. ApprovedWasReviewed' /\ LifeInv'
  BY DEF DesignInv, ApprovedWasReviewed, LifeInv, Input
<1> QED  BY <1>1, <1>2, <1>3 DEF DesignInv

\* The actions that leave the design alone.
QuietAction ==
    \/ BindLimits
    \/ \E purpose \in Purposes : StartExpert(purpose)
    \/ FailExpert \/ AcceptAdvice
    \/ StartSimulation \/ FailSimulation
    \/ SavePreference
    \/ \E kind \in CardKinds : Show(kind)
    \/ ShowLocal("baseline", BaselinePlans)
    \/ ShowLocal("completion", CompletionPlans)
    \/ ShowLocal("local_change", ChangePlans)
    \/ CancelWait \/ Abandon
    \/ \E grant \in Grants : BindDelegation(grant)
    \/ \E policy \in BOOLEAN : StartBatch(policy)
    \/ EndBatch \/ BatchStep \/ BatchRefused \/ BatchTimeout
    \/ Environment

LEMMA QuietActions == QuietAction => UNCHANGED designState
BY DEF QuietAction, designState, designVars, evidenceVars, planVars, modeVars, historyVars,
       BindLimits, StartExpert, FailExpert, AcceptAdvice, StartSimulation, FailSimulation,
       SavePreference, Show, ShowLocal, CancelWait, Abandon, BindDelegation, StartBatch,
       EndBatch, BatchStep, BatchRefused, BatchTimeout, Environment, Restart, DeadlinePasses

\* A draft changes only while nothing is approved or made.
LEMMA DraftStep ==
    ASSUME TypeOK, DesignInv, status = "discovery",
           UNCHANGED <<status, stage, approvedSpec, files, manifest, imports, evidenceVars,
                       planVars, modeVars, historyVars>>
    PROVE  DesignInv'
<1> USE DEF evidenceVars, planVars, modeVars, historyVars
<1>1. /\ approvedSpec = None /\ stage = 0 /\ manifest = None /\ simulation = None
      /\ baseline = None /\ changePlan = None
  BY DEF DesignInv, SessionConsistent, ApprovalBinding, LifeInv, StageCount
<1>2. SessionConsistent'
  BY <1>1 DEF DesignInv, SessionConsistent, ApprovalBinding, ManifestBinding,
              BaselineBinding, StageCount
<1>3. EvidenceCurrent' /\ ChangeScopeKept' /\ VerificationIsIndependent'
  BY <1>1 DEF DesignInv, EvidenceCurrent, ChangeScopeKept, VerificationIsIndependent, Input
<1>4. ApprovedWasReviewed' /\ LifeInv'
  BY <1>1 DEF DesignInv, ApprovedWasReviewed, LifeInv, Input
<1> QED  BY <1>2, <1>3, <1>4 DEF DesignInv

LEMMA AcceptDiscoveryStep ==
    ASSUME TypeOK, DesignInv, CallInv, NEW s, AcceptDiscovery(s)
    PROVE  DesignInv'
<1>1. status = "discovery"
  BY DEF AcceptDiscovery, EndsCall, CallInv
<1>2. UNCHANGED <<status, stage, approvedSpec, files, manifest, imports, evidenceVars,
                  planVars, modeVars, historyVars>>
  BY DEF AcceptDiscovery
<1> QED  BY <1>1, <1>2, DraftStep

LEMMA ProposeStep ==
    ASSUME TypeOK, DesignInv, NEW s, Propose(s)
    PROVE  DesignInv'
<1>1. UNCHANGED <<status, stage, approvedSpec, files, manifest, imports, evidenceVars,
                  planVars, modeVars, historyVars>>
  BY DEF Propose
<1>2. status = "discovery"
  BY DEF Propose
<1> QED  BY <1>1, <1>2, DraftStep

\* Imports change only while no baseline rests on them.
LEMMA ImportFilesStep ==
    ASSUME TypeOK, DesignInv, NEW selected, ImportFiles(selected)
    PROVE  DesignInv'
<1> USE DEF designVars, evidenceVars, planVars, modeVars, historyVars
<1>1. UNCHANGED <<designVars, evidenceVars, planVars, modeVars, historyVars>>
  BY DEF ImportFiles
<1>2. status = "discovery" /\ baseline = None
  BY DEF ImportFiles, DesignInv, LifeInv
<1>3. SessionConsistent'
  BY <1>1, <1>2 DEF DesignInv, SessionConsistent, ApprovalBinding, ManifestBinding,
                    BaselineBinding
<1>4. EvidenceCurrent' /\ ChangeScopeKept' /\ VerificationIsIndependent'
  BY <1>1 DEF DesignInv, EvidenceCurrent, ChangeScopeKept, VerificationIsIndependent, Input
<1>5. ApprovedWasReviewed' /\ LifeInv'
  BY <1>1 DEF DesignInv, ApprovedWasReviewed, LifeInv, Input
<1> QED  BY <1>3, <1>4, <1>5 DEF DesignInv

\* A proposal is in force only when it is approved.
LEMMA AcceptProposalStep ==
    ASSUME DesignInv, NEW intent, AcceptProposal(intent)
    PROVE  DesignInv'
<1> USE DEF designVars, evidenceVars, modeVars, historyVars
<1>1. UNCHANGED <<designVars, imports, evidenceVars, baseline, changePlan, modeVars,
                  historyVars>>
  BY DEF AcceptProposal
<1>2. SessionConsistent'
  BY <1>1 DEF DesignInv, SessionConsistent, ApprovalBinding, ManifestBinding, BaselineBinding
<1>3. EvidenceCurrent' /\ ChangeScopeKept' /\ VerificationIsIndependent'
  BY <1>1 DEF DesignInv, EvidenceCurrent, ChangeScopeKept, VerificationIsIndependent, Input
<1>4. ApprovedWasReviewed' /\ LifeInv'
  BY <1>1 DEF DesignInv, ApprovedWasReviewed, LifeInv, Input
<1> QED  BY <1>2, <1>3, <1>4 DEF DesignInv

\* The stage in flight is the next one, and nothing has been simulated yet.
LEMMA StageInFlight ==
    ASSUME TypeOK, DesignInv, CallInv, NEW role \in StageNames, active = role
    PROVE  /\ status = "building" /\ stage \in 0..5 /\ (role = "dv" <=> stage = 5)
           /\ manifest = None /\ simulation = None
           /\ spec # None /\ approvedSpec = spec /\ Approvable(spec)
<1>1. status = "building" /\ stage < StageCount /\ role = NextStage
  BY DEF CallInv
<1>2. stage \in 0..5
  BY <1>1 DEF TypeOK, StageCount
<1>3. role = "dv" <=> stage = 5
  BY <1>1, <1>2, StageFacts DEF NextStage
<1>4. manifest = None /\ simulation = None
  BY <1>1 DEF DesignInv, LifeInv
<1>5. spec # None /\ approvedSpec = spec /\ Approvable(spec)
  BY <1>1 DEF DesignInv, SessionConsistent, ApprovalBinding
<1> QED  BY <1>1, <1>2, <1>3, <1>4, <1>5

LEMMA AcceptStageStep ==
    ASSUME TypeOK, DesignInv, CallInv,
           NEW role \in StageNames, NEW c \in Contributions(role),
           NEW m \in Manifests \union {None}, AcceptStage(role, c, m)
    PROVE  DesignInv'
<1> USE DEF evidenceVars, planVars, modeVars
<1>1. /\ UNCHANGED <<status, spec, approvedSpec, imports, evidenceVars, planVars, modeVars,
                     sanction>>
      /\ stage' = stage + 1 /\ files' = FilesWith(c)
      /\ derived' = DerivedAfter(role, PathsOf(c))
      /\ active = role /\ InWriteScope(role, PathsOf(c))
  BY DEF AcceptStage, EndsCall
<1>2. /\ role = "dv" => ValidManifest(manifest', Present(files'), spec)
                        /\ manifest' # None
      /\ role # "dv" => manifest' = manifest
  BY DEF AcceptStage
<1>3. /\ status = "building" /\ stage \in 0..5 /\ (role = "dv" <=> stage = 5)
      /\ manifest = None /\ simulation = None
      /\ spec # None /\ approvedSpec = spec /\ Approvable(spec)
  BY <1>1, StageInFlight
<1>4. /\ Present(files') = Present(files) \union PathsOf(c)
      /\ \A p \in Paths \ PathsOf(c) : files'[p] = files[p]
  BY <1>1, FilesAfter DEF TypeOK
<1>5. SessionConsistent'
  <2>1. ApprovalBinding'
    BY <1>1, <1>3 DEF ApprovalBinding
  <2>2. ManifestBinding'
    BY <1>1, <1>2, <1>3 DEF ManifestBinding, StageCount
  <2>3. BaselineBinding'
    BY <1>1 DEF DesignInv, SessionConsistent, BaselineBinding
  <2> QED  BY <2>1, <2>2, <2>3 DEF SessionConsistent
<1>6. EvidenceCurrent'
  BY <1>1, <1>3 DEF EvidenceCurrent, Simulated, Passed
<1>7. ChangeScopeKept'
  <2> SUFFICES ASSUME changePlan # None
               PROVE  ChangeScopeKept'
    BY <1>1 DEF ChangeScopeKept
  <2>1. PathsOf(c) \subseteq Written(changePlan)
    BY <1>1 DEF InWriteScope, Written
  <2>2. PathsOf(c) \subseteq Paths /\ Present(changePlan.baseFiles) \subseteq Paths
    BY ContributionInArea DEF Present
  <2> QED  BY <1>1, <1>4, <2>1, <2>2 DEF DesignInv, ChangeScopeKept
<1>8. VerificationIsIndependent'
  <2>1. PathsOf(c) \in SUBSET PathsIn(AreaOf(role))
    BY ContributionInArea
  <2>2. derived \subseteq RtlPaths
    BY DEF DesignInv, VerificationIsIndependent
  <2> QED  BY <1>1, <1>3, <2>1, <2>2, DerivedStaysRtl DEF VerificationIsIndependent
<1>9. LifeInv'
  BY <1>1, <1>2, <1>3 DEF DesignInv, LifeInv, StageCount
<1>10. ApprovedWasReviewed'
  BY <1>1, <1>3 DEF DesignInv, ApprovedWasReviewed, LifeInv
<1> QED  BY <1>5, <1>6, <1>7, <1>8, <1>9, <1>10 DEF DesignInv

\* A repair adds no file: the manifest still names the sources that are there.
LEMMA AcceptRepairStep ==
    ASSUME TypeOK, DesignInv, CallInv, NEW c \in Contributions("diagnosis"), AcceptRepair(c)
    PROVE  DesignInv'
<1> USE DEF planVars, modeVars
<1>1. /\ UNCHANGED <<stage, spec, approvedSpec, manifest, simulation, imports, planVars,
                     modeVars, sanction>>
      /\ status' = "building" /\ files' = FilesWith(c)
      /\ derived' = DerivedAfter("diagnosis", PathsOf(c))
      /\ active = "diagnosis" /\ InRepairScope(PathsOf(c))
  BY DEF AcceptRepair, EndsCall
<1>2. status = "needs_repair"
  BY <1>1 DEF CallInv
<1>3. stage = StageCount /\ spec # None /\ approvedSpec = spec /\ Approvable(spec)
  BY <1>2 DEF DesignInv, EvidenceCurrent, Simulated, SessionConsistent, ApprovalBinding
<1>4. /\ Present(files') = Present(files)
      /\ \A p \in Paths \ PathsOf(c) : files'[p] = files[p]
  <2>1. PathsOf(c) \subseteq Present(files)
    BY <1>1 DEF InRepairScope
  <2> QED  BY <1>1, <2>1, FilesAfter DEF TypeOK
<1>5. SessionConsistent'
  <2>1. ApprovalBinding'
    BY <1>1, <1>3 DEF ApprovalBinding
  <2>2. ManifestBinding'
    BY <1>1, <1>4 DEF DesignInv, SessionConsistent, ManifestBinding
  <2>3. BaselineBinding'
    BY <1>1 DEF DesignInv, SessionConsistent, BaselineBinding
  <2> QED  BY <2>1, <2>2, <2>3 DEF SessionConsistent
<1>6. EvidenceCurrent'
  BY <1>1 DEF EvidenceCurrent, Simulated, Passed
<1>7. ChangeScopeKept'
  <2> SUFFICES ASSUME changePlan # None
               PROVE  ChangeScopeKept'
    BY <1>1 DEF ChangeScopeKept
  <2>1. PathsOf(c) \subseteq Written(changePlan)
    BY <1>1 DEF InRepairScope, Written, StageNames
  <2>2. Present(changePlan.baseFiles) \subseteq Paths
    BY DEF Present
  <2> QED  BY <1>1, <1>4, <2>1, <2>2 DEF DesignInv, ChangeScopeKept
<1>8. VerificationIsIndependent'
  <2>1. PathsOf(c) \in SUBSET PathsIn(AreaOf("diagnosis"))
    BY ContributionInArea
  <2>2. derived \subseteq RtlPaths
    BY DEF DesignInv, VerificationIsIndependent
  <2> QED  BY <1>1, <2>1, <2>2, DerivedStaysRtl DEF VerificationIsIndependent
<1>9. LifeInv'
  BY <1>1, <1>2, <1>3 DEF DesignInv, LifeInv, StageCount
<1>10. ApprovedWasReviewed'
  BY <1>1, <1>2 DEF DesignInv, ApprovedWasReviewed, LifeInv
<1> QED  BY <1>5, <1>6, <1>7, <1>8, <1>9, <1>10 DEF DesignInv

\* The verdict of the signoff is on the report at hand.
LEMMA AcceptSignoffStep ==
    ASSUME DesignInv, CallInv, NEW verdict \in {"accept", "revise"}, AcceptSignoff(verdict)
    PROVE  DesignInv'
<1> USE DEF planVars, modeVars, historyVars
<1>1. /\ UNCHANGED <<stage, spec, approvedSpec, files, manifest, simulation, imports,
                     planVars, modeVars, historyVars>>
      /\ review' = verdict /\ active = "signoff"
      /\ status' \in {"awaiting_acceptance", "review_blocked"}
      /\ status' = "awaiting_acceptance" => verdict = "accept"
  BY DEF AcceptSignoff, EndsCall
<1>2. status = "needs_signoff"
  BY <1>1 DEF CallInv
<1>3. SessionConsistent'
  BY <1>1, <1>2 DEF DesignInv, SessionConsistent, ApprovalBinding, ManifestBinding,
                    BaselineBinding
<1>4. EvidenceCurrent'
  BY <1>1, <1>2 DEF DesignInv, EvidenceCurrent, Simulated, Passed, Input
<1>5. ChangeScopeKept' /\ VerificationIsIndependent'
  BY <1>1 DEF DesignInv, ChangeScopeKept, VerificationIsIndependent
<1>6. LifeInv'
  BY <1>1, <1>2 DEF DesignInv, LifeInv, EvidenceCurrent, Simulated
<1>7. ApprovedWasReviewed'
  BY <1>1, <1>2 DEF DesignInv, ApprovedWasReviewed, LifeInv
<1> QED  BY <1>3, <1>4, <1>5, <1>6, <1>7 DEF DesignInv

\* A reused stage writes nothing; the last one brings the manifest of the plan.
LEMMA ReuseStageStep ==
    ASSUME TypeOK, DesignInv, ReuseStage
    PROVE  DesignInv'
<1> USE DEF evidenceVars, planVars, modeVars, historyVars
<1>1. /\ UNCHANGED <<status, spec, approvedSpec, files, imports, evidenceVars, planVars,
                     modeVars, historyVars>>
      /\ stage' = stage + 1 /\ status = "building" /\ stage < StageCount
      /\ changePlan # None
  BY DEF ReuseStage, Reused
<1>2. stage \in 0..5 /\ (NextStage = "dv" <=> stage = 5)
  BY <1>1, StageFacts DEF TypeOK, NextStage, StageCount
<1>3. /\ NextStage = "dv" => ValidManifest(manifest', Present(files), spec)
                             /\ manifest' = changePlan.manifest
      /\ NextStage # "dv" => manifest' = manifest
  BY DEF ReuseStage, ManifestAfterReuse
<1>4. changePlan.manifest # None
  BY <1>1, PlanParts DEF TypeOK
<1>5. manifest = None /\ simulation = None
  BY <1>1 DEF DesignInv, LifeInv
<1>6. SessionConsistent'
  <2>1. ApprovalBinding'
    BY <1>1 DEF DesignInv, SessionConsistent, ApprovalBinding
  <2>2. spec # None
    BY <1>1 DEF DesignInv, SessionConsistent, ApprovalBinding
  <2>3. ManifestBinding'
    BY <1>1, <1>2, <1>3, <1>4, <1>5, <2>2 DEF ManifestBinding, StageCount
  <2>4. BaselineBinding'
    BY <1>1 DEF DesignInv, SessionConsistent, BaselineBinding
  <2> QED  BY <2>1, <2>3, <2>4 DEF SessionConsistent
<1>7. EvidenceCurrent'
  BY <1>1 DEF EvidenceCurrent, Simulated, Passed
<1>8. ChangeScopeKept' /\ VerificationIsIndependent'
  BY <1>1 DEF DesignInv, ChangeScopeKept, VerificationIsIndependent
<1>9. LifeInv'
  BY <1>1, <1>2, <1>3, <1>5 DEF DesignInv, LifeInv, StageCount
<1>10. ApprovedWasReviewed'
  BY <1>1 DEF DesignInv, ApprovedWasReviewed, LifeInv
<1> QED  BY <1>6, <1>7, <1>8, <1>9, <1>10 DEF DesignInv

\* A run reports on the inputs it was started with: nothing changed them meanwhile.
LEMMA CompleteSimulationStep ==
    ASSUME TypeOK, DesignInv, CallInv, NEW passed \in BOOLEAN, CompleteSimulation(passed)
    PROVE  DesignInv'
<1> USE DEF planVars, modeVars, historyVars
<1>1. /\ UNCHANGED <<stage, spec, approvedSpec, files, manifest, imports, planVars, modeVars,
                     historyVars>>
      /\ simulation' = [input |-> Input, passed |-> passed] /\ active = "simulation"
      /\ review' = "none"
      /\ passed => status' = "needs_signoff"
      /\ ~passed => status' = "needs_repair"
  BY DEF CompleteSimulation, EndsCall, StatusAfterRun
<1>2. status = "building" /\ stage = StageCount
  BY <1>1 DEF CallInv
<1>3. simulation' # None
  <2>1. simulation' \in Reports
    BY <1>1, InputType DEF Reports
  <2> QED  BY <2>1, SessionAssumption
<1>4. SessionConsistent'
  BY <1>1, <1>2 DEF DesignInv, SessionConsistent, ApprovalBinding, ManifestBinding,
                    BaselineBinding
<1>5. EvidenceCurrent'
  BY <1>1, <1>2, <1>3 DEF EvidenceCurrent, Simulated, Passed, Input
<1>6. ChangeScopeKept' /\ VerificationIsIndependent'
  BY <1>1 DEF DesignInv, ChangeScopeKept, VerificationIsIndependent
<1>7. LifeInv'
  BY <1>1, <1>2 DEF DesignInv, LifeInv, StageCount
<1>8. ApprovedWasReviewed'
  BY <1>1, <1>2 DEF DesignInv, ApprovedWasReviewed, LifeInv
<1> QED  BY <1>4, <1>5, <1>6, <1>7, <1>8 DEF DesignInv

-----------------------------------------------------------------------------
(* Approvals, adoption, revision *)

\* Whoever approves a draft approves it as it stands; in discovery no plan is in
\* force beside it.
LEMMA ApproveSpecStep ==
    ASSUME DesignInv, NEW authority \in {"user", "delegated"}, ApproveSpec(authority),
           authority = "user" => sanction'.spec = spec
    PROVE  DesignInv'
<1> USE DEF evidenceVars, planVars
<1>1. /\ UNCHANGED <<stage, spec, files, manifest, imports, evidenceVars, planVars,
                     acceptanceMode, derived>>
      /\ status = "discovery" /\ spec # None /\ Approvable(spec)
      /\ status' = "building" /\ approvedSpec' = spec /\ approvalMode' = authority
  BY DEF ApproveSpec
<1>2. /\ baseline = None /\ changePlan = None /\ acceptanceMode = "none"
      /\ stage = 0
  <2>1. baseline = None /\ changePlan = None
    BY <1>1 DEF DesignInv, LifeInv
  <2>2. acceptanceMode = "none"
    BY <1>1 DEF DesignInv, LifeInv
  <2>3. stage = 0
    BY <1>1 DEF DesignInv, SessionConsistent, ApprovalBinding
  <2> QED  BY <2>1, <2>2, <2>3
<1>3. SessionConsistent'
  BY <1>1, <1>2 DEF DesignInv, SessionConsistent, ApprovalBinding, ManifestBinding,
                    BaselineBinding
<1>4. EvidenceCurrent'
  BY <1>1 DEF EvidenceCurrent, Simulated, Passed
<1>5. ChangeScopeKept' /\ VerificationIsIndependent'
  BY <1>1, <1>2 DEF DesignInv, ChangeScopeKept, VerificationIsIndependent
<1>6. LifeInv'
  BY <1>1, <1>2 DEF DesignInv, LifeInv
<1>7. ApprovedWasReviewed'
  BY <1>1, <1>2 DEF ApprovedWasReviewed
<1> QED  BY <1>3, <1>4, <1>5, <1>6, <1>7 DEF DesignInv

\* Whoever accepts a design accepts what was simulated and signed off.
LEMMA AcceptDesignStep ==
    ASSUME DesignInv, NEW authority \in {"user", "delegated"}, AcceptDesign(authority),
           sanction'.spec = sanction.spec, sanction'.plan = sanction.plan,
           authority = "user" => sanction'.input = Input
    PROVE  DesignInv'
<1> USE DEF evidenceVars, planVars
<1>1. /\ UNCHANGED <<stage, spec, approvedSpec, files, manifest, imports, evidenceVars,
                     planVars, approvalMode, derived>>
      /\ status = "awaiting_acceptance" /\ status' = "accepted"
      /\ acceptanceMode' = authority
  BY DEF AcceptDesign
<1>2. SessionConsistent'
  BY <1>1 DEF DesignInv, SessionConsistent, ApprovalBinding, ManifestBinding,
              BaselineBinding
<1>3. EvidenceCurrent'
  BY <1>1 DEF DesignInv, EvidenceCurrent, Simulated, Passed, Input
<1>4. ChangeScopeKept' /\ VerificationIsIndependent'
  BY <1>1 DEF DesignInv, ChangeScopeKept, VerificationIsIndependent
<1>5. LifeInv'
  BY <1>1 DEF DesignInv, LifeInv, EvidenceCurrent, Simulated
<1>6. ApprovedWasReviewed'
  BY <1>1 DEF DesignInv, ApprovedWasReviewed, Input
<1> QED  BY <1>2, <1>3, <1>4, <1>5, <1>6 DEF DesignInv

\* A change is over the files at hand, and what is in force is its plan alone.
LEMMA ApproveChangeStep ==
    ASSUME TypeOK, DesignInv, NEW plan \in Plans, ApproveChange(plan),
           sanction'.spec = plan.spec, sanction'.plan = plan
    PROVE  DesignInv'
<1> USE DEF planVars
<1>1. /\ UNCHANGED <<files, imports, baseline, derived>>
      /\ spec' = plan.spec /\ approvedSpec' = plan.spec
      /\ approvalMode' = "user" /\ acceptanceMode' = "none" /\ changePlan' = plan
      /\ status' = "building" /\ stage' = 0 /\ manifest' = None /\ simulation' = None
      /\ plan.baseFiles = files /\ Approvable(plan.spec)
  BY DEF ApproveChange, ChangeFits, Invalidated
<1>2. plan.spec # None
  BY PlanParts
<1>3. SessionConsistent'
  <2>1. ApprovalBinding' /\ ManifestBinding'
    BY <1>1, <1>2 DEF ApprovalBinding, ManifestBinding, StageCount
  <2>2. BaselineBinding'
    BY <1>1 DEF DesignInv, SessionConsistent, BaselineBinding
  <2> QED  BY <2>1, <2>2 DEF SessionConsistent
<1>4. EvidenceCurrent'
  BY <1>1 DEF EvidenceCurrent, Simulated, Passed
<1>5. ChangeScopeKept' /\ VerificationIsIndependent'
  BY <1>1 DEF DesignInv, ChangeScopeKept, VerificationIsIndependent
<1>6. LifeInv'
  BY <1>1 DEF LifeInv
<1>7. ApprovedWasReviewed'
  <2>1. plan # None
    BY PlanParts
  <2> QED  BY <1>1, <2>1 DEF ApprovedWasReviewed
<1> QED  BY <1>3, <1>4, <1>5, <1>6, <1>7 DEF DesignInv

\* What the two kinds of import plan share: the files become the imports.
LEMMA ImportedFiles ==
    ASSUME TypeOK, DesignInv, status = "discovery"
    PROVE  [p \in Paths |-> IF imports[p] # None THEN imports[p] ELSE files[p]] = imports
<1>1. Present(files) = {}
  BY DEF DesignInv, SessionConsistent, ApprovalBinding
<1> QED  BY <1>1, ImportsOverNothing DEF TypeOK

\* An adopted baseline has all stages done, and nothing simulated.
LEMMA AdoptBaselineStep ==
    ASSUME TypeOK, DesignInv, NEW plan, AdoptBaseline(plan),
           sanction'.spec = spec, sanction'.plan = plan
    PROVE  DesignInv'
<1> USE DEF planVars
<1>1. /\ UNCHANGED <<spec, imports, changePlan, derived>>
      /\ plan \in BaselinePlans /\ Approvable(spec) /\ baseline' = plan
      /\ approvedSpec' = spec /\ approvalMode' = "user" /\ acceptanceMode' = "none"
      /\ status' = "building" /\ stage' = StageCount /\ manifest' = plan.manifest
      /\ files' = [p \in Paths |-> IF imports[p] # None THEN imports[p] ELSE files[p]]
  BY DEF AdoptBaseline
<1>2. /\ plan \in Plans /\ plan.baseFiles = imports
      /\ status = "discovery" /\ Present(imports) \intersect ModelTests # {}
      /\ plan.spec = spec
      /\ ValidManifest(plan.manifest, Present(imports), spec)
  BY <1>1, BaselinePlanFacts
<1>3. files' = imports
  BY <1>1, <1>2, ImportedFiles
<1>4. plan.spec # None /\ plan.manifest # None /\ plan # None
  BY <1>2, PlanParts
<1>5. changePlan = None
  BY <1>2 DEF DesignInv, LifeInv
<1>6. SessionConsistent'
  <2>1. ApprovalBinding' /\ ManifestBinding'
    BY <1>1, <1>2, <1>3, <1>4 DEF ApprovalBinding, ManifestBinding
  <2>2. BaselineBinding'
    BY <1>1, <1>2 DEF BaselineBinding
  <2> QED  BY <2>1, <2>2 DEF SessionConsistent
<1>7. EvidenceCurrent'
  BY <1>1 DEF EvidenceCurrent, Simulated, Passed
<1>8. ChangeScopeKept' /\ VerificationIsIndependent'
  BY <1>1, <1>5 DEF DesignInv, ChangeScopeKept, VerificationIsIndependent
<1>9. LifeInv'
  BY <1>1 DEF LifeInv, StageCount
<1>10. ApprovedWasReviewed'
  BY <1>1, <1>5 DEF ApprovedWasReviewed
<1> QED  BY <1>6, <1>7, <1>8, <1>9, <1>10 DEF DesignInv

\* A completion starts the stages over the imports, under its plan.
LEMMA ApproveCompletionStep ==
    ASSUME TypeOK, DesignInv, CardInv, ApproveCompletion
    PROVE  DesignInv'
<1> USE DEF planVars
<1> DEFINE plan == shown.payload.plan
<1>1. /\ UNCHANGED <<spec, imports, derived>>
      /\ plan \in CompletionPlans /\ baseline' = None /\ changePlan' = plan
      /\ approvedSpec' = spec /\ approvalMode' = "user" /\ acceptanceMode' = "none"
      /\ status' = "building" /\ stage' = 0 /\ manifest' = None /\ simulation' = None
      /\ files' = [p \in Paths |-> IF imports[p] # None THEN imports[p] ELSE files[p]]
      /\ sanction' = shown.payload
      /\ shown # None /\ shown.kind = "completion"
  BY DEF ApproveCompletion, ConfirmedLocally, Invalidated
<1>2. /\ plan \in Plans /\ plan.baseFiles = imports
      /\ status = "discovery" /\ plan.spec = spec /\ Ready(spec)
  BY <1>1, CompletionPlanFacts
<1>3. files' = imports
  BY <1>1, <1>2, ImportedFiles
<1>4. spec # None /\ plan # None
  BY <1>2, PlanParts
<1>5. sanction'.spec = spec /\ sanction'.plan = plan
  BY <1>1, <1>2 DEF CardInv, LocalKinds
<1> HIDE DEF plan
<1>6. SessionConsistent'
  BY <1>1, <1>2, <1>4 DEF SessionConsistent, ApprovalBinding, ManifestBinding,
                          BaselineBinding, Ready, Approvable, StageCount
<1>7. EvidenceCurrent'
  BY <1>1 DEF EvidenceCurrent, Simulated, Passed
<1>8. ChangeScopeKept' /\ VerificationIsIndependent'
  BY <1>1, <1>2, <1>3 DEF DesignInv, ChangeScopeKept, VerificationIsIndependent
<1>9. LifeInv'
  BY <1>1 DEF LifeInv
<1>10. ApprovedWasReviewed'
  BY <1>1, <1>4, <1>5 DEF ApprovedWasReviewed
<1> QED  BY <1>6, <1>7, <1>8, <1>9, <1>10 DEF DesignInv

\* Back to discovery, with nothing approved, made or derived.
LEMMA ReviseStep ==
    ASSUME DesignInv, Revise
    PROVE  DesignInv'
<1>1. /\ status' = "discovery" /\ stage' = 0 /\ approvedSpec' = None
      /\ files' = NoFiles /\ manifest' = None /\ simulation' = None
      /\ approvalMode' = "none" /\ acceptanceMode' = "none"
      /\ baseline' = None /\ changePlan' = None /\ derived' = {}
  BY DEF Revise, Invalidated, PlansAfterRevision
<1>2. Present(files') = {}
  BY <1>1 DEF NoFiles, Present
<1>3. SessionConsistent'
  BY <1>1, <1>2 DEF SessionConsistent, ApprovalBinding, ManifestBinding, BaselineBinding,
                    StageCount
<1>4. EvidenceCurrent' /\ ChangeScopeKept' /\ VerificationIsIndependent'
  BY <1>1 DEF EvidenceCurrent, Simulated, Passed, ChangeScopeKept, VerificationIsIndependent
<1>5. ApprovedWasReviewed' /\ LifeInv'
  BY <1>1 DEF ApprovedWasReviewed, LifeInv
<1> QED  BY <1>3, <1>4, <1>5 DEF DesignInv

\* A card that is confirmed shows what is approved; a typed digest is of it.
LEMMA ApproveSpecificationStep ==
    ASSUME TypeOK, DesignInv, ApproveSpecification \/ ApproveSpecByDigest
    PROVE  DesignInv'
<1>1. ApproveSpec("user")
  BY DEF ApproveSpecification, ApproveSpecByDigest
<1>2. sanction'.spec = spec
  <2>1. CASE ApproveSpecification
    <3>1. shown.payload = Payload("specification") /\ sanction' = shown.payload
      BY <2>1 DEF ApproveSpecification, Confirmed
    <3>2. Payload("specification") = [spec |-> spec, plan |-> None, input |-> None]
      BY DEF Payload
    <3> QED  BY <3>1, <3>2
  <2>2. CASE ApproveSpecByDigest
    BY <2>2 DEF ApproveSpecByDigest, NoPayload
  <2> QED  BY <2>1, <2>2
<1> QED  BY <1>1, <1>2, ApproveSpecStep

LEMMA ApproveAcceptanceStep ==
    ASSUME TypeOK, DesignInv, ApproveAcceptance \/ ApproveAcceptanceByDigest
    PROVE  DesignInv'
<1>1. AcceptDesign("user")
  BY DEF ApproveAcceptance, ApproveAcceptanceByDigest
<1>2. sanction' = [sanction EXCEPT !.input = Input]
  <2>1. CASE ApproveAcceptance
    <3>1. /\ shown.payload = Payload("acceptance")
          /\ sanction' = [sanction EXCEPT !.input = shown.payload.input]
      BY <2>1 DEF ApproveAcceptance, Confirmed
    <3>2. Payload("acceptance") = [spec |-> spec, plan |-> None, input |-> Input]
      BY DEF Payload
    <3> QED  BY <3>1, <3>2
  <2>2. CASE ApproveAcceptanceByDigest
    BY <2>2 DEF ApproveAcceptanceByDigest
  <2> QED  BY <2>1, <2>2
<1>3. /\ sanction'.spec = sanction.spec /\ sanction'.plan = sanction.plan
      /\ sanction'.input = Input
  BY <1>2 DEF TypeOK, Payloads
<1> QED  BY <1>1, <1>3, AcceptDesignStep

LEMMA ApproveProposalStep ==
    ASSUME TypeOK, DesignInv, ApproveProposal \/ ApproveProposalByDigest
    PROVE  DesignInv'
<1>1. proposal # None
  <2>1. ApproveProposal => Offered("change")
    BY DEF ApproveProposal, Confirmed
  <2>2. Offered("change") => proposal # None
    BY DEF Offered
  <2> QED  BY <2>1, <2>2 DEF ApproveProposalByDigest
<1>2. proposal.plan \in Plans
  BY <1>1 DEF TypeOK, Proposals
<1>3. ApproveChange(proposal.plan) /\ sanction' = Payload("change")
  BY DEF ApproveProposal, ApproveProposalByDigest, Confirmed
<1>4. sanction'.spec = proposal.plan.spec /\ sanction'.plan = proposal.plan
  <2>1. Payload("change") = [spec |-> proposal.plan.spec, plan |-> proposal.plan,
                             input |-> None]
    BY DEF Payload
  <2> QED  BY <1>3, <2>1
<1> QED  BY <1>2, <1>3, <1>4, ApproveChangeStep

LEMMA ApproveLocalChangeStep ==
    ASSUME TypeOK, DesignInv, CardInv, ApproveLocalChange
    PROVE  DesignInv'
<1>1. /\ shown # None /\ shown.kind = "local_change"
      /\ ApproveChange(shown.payload.plan) /\ sanction' = shown.payload
  BY DEF ApproveLocalChange, ConfirmedLocally
<1>2. shown.payload.plan \in Plans /\ shown.payload.spec = shown.payload.plan.spec
  BY <1>1 DEF CardInv, LocalKinds
<1> QED  BY <1>1, <1>2, ApproveChangeStep

LEMMA ApproveChangeByDigestStep ==
    ASSUME TypeOK, DesignInv, ApproveChangeByDigest
    PROVE  DesignInv'
<1>1. PICK plan \in ChangePlans :
         /\ ApproveChange(plan)
         /\ sanction' = [spec |-> plan.spec, plan |-> plan, input |-> None]
  BY DEF ApproveChangeByDigest
<1>2. plan \in Plans
  BY ChangePlanFacts
<1>3. sanction'.spec = plan.spec /\ sanction'.plan = plan
  BY <1>1
<1> QED  BY <1>1, <1>2, <1>3, ApproveChangeStep

LEMMA ApproveBaselineStep ==
    ASSUME TypeOK, DesignInv, CardInv, ApproveBaseline \/ ApproveBaselineByDigest
    PROVE  DesignInv'
<1>1. CASE ApproveBaseline
  <2>1. /\ shown # None /\ shown.kind = "baseline"
        /\ AdoptBaseline(shown.payload.plan) /\ sanction' = shown.payload
    BY <1>1 DEF ApproveBaseline, ConfirmedLocally
  <2>2. shown.payload.plan \in BaselinePlans
    BY <2>1 DEF AdoptBaseline
  <2>3. shown.payload.plan.spec = spec
    BY <2>2, BaselinePlanFacts
  <2>4. shown.payload.spec = spec
    BY <2>1, <2>3 DEF CardInv, LocalKinds
  <2> QED  BY <2>1, <2>4, AdoptBaselineStep
<1>2. CASE ApproveBaselineByDigest
  <2>1. PICK plan \in BaselinePlans :
           /\ AdoptBaseline(plan)
           /\ sanction' = [spec |-> spec, plan |-> plan, input |-> None]
    BY <1>2 DEF ApproveBaselineByDigest
  <2>2. sanction'.spec = spec /\ sanction'.plan = plan
    BY <2>1
  <2> QED  BY <2>1, <2>2, AdoptBaselineStep
<1> QED  BY <1>1, <1>2

\* An approval of the batch gives no sanction, and needs none.
LEMMA BatchApprovesStep ==
    ASSUME DesignInv, BatchApproves
    PROVE  DesignInv'
BY ApproveSpecStep DEF BatchApproves

LEMMA BatchAcceptsStep ==
    ASSUME DesignInv, BatchAccepts
    PROVE  DesignInv'
BY AcceptDesignStep DEF BatchAccepts

LEMMA DesignStep == TypeOK /\ DesignInv /\ CallInv /\ CardInv /\ [Next]_vars => DesignInv'
<1> SUFFICES ASSUME TypeOK, DesignInv, CallInv, CardInv, [Next]_vars
             PROVE  DesignInv'
  OBVIOUS
<1>1. CASE QuietAction
  BY <1>1, QuietActions, QuietStep
<1>2. CASE UNCHANGED vars
  <2>1. UNCHANGED designState
    BY <1>2 DEF vars, designState
  <2> QED  BY <2>1, QuietStep
<1>3. ASSUME NEW s \in Specs \union {spec}, AcceptDiscovery(s)
      PROVE  DesignInv'
  BY <1>3, AcceptDiscoveryStep
<1>4. ASSUME NEW role \in StageNames, NEW m \in Manifests \union {None},
             NEW c \in Contributions(role), AcceptStage(role, c, m)
      PROVE  DesignInv'
  BY <1>4, AcceptStageStep
<1>5. ASSUME NEW c \in Contributions("diagnosis"), AcceptRepair(c)
      PROVE  DesignInv'
  BY <1>5, AcceptRepairStep
<1>6. ASSUME NEW verdict \in {"accept", "revise"}, AcceptSignoff(verdict)
      PROVE  DesignInv'
  BY <1>6, AcceptSignoffStep
<1>7. ASSUME NEW intent \in Intents \intersect Requests, AcceptProposal(intent)
      PROVE  DesignInv'
  BY <1>7, AcceptProposalStep
<1>8. CASE ReuseStage
  BY <1>8, ReuseStageStep
<1>9. ASSUME NEW passed \in BOOLEAN, CompleteSimulation(passed)
      PROVE  DesignInv'
  BY <1>9, CompleteSimulationStep
<1>10. CASE ApproveSpecification \/ ApproveSpecByDigest
  BY <1>10, ApproveSpecificationStep
<1>11. CASE ApproveAcceptance \/ ApproveAcceptanceByDigest
  BY <1>11, ApproveAcceptanceStep
<1>12. CASE ApproveProposal \/ ApproveProposalByDigest
  BY <1>12, ApproveProposalStep
<1>13. CASE ApproveLocalChange
  BY <1>13, ApproveLocalChangeStep
<1>14. CASE ApproveChangeByDigest
  BY <1>14, ApproveChangeByDigestStep
<1>15. CASE ApproveBaseline \/ ApproveBaselineByDigest
  BY <1>15, ApproveBaselineStep
<1>16. CASE ApproveCompletion
  BY <1>16, ApproveCompletionStep
<1>17. ASSUME NEW s \in Specs, Propose(s)
       PROVE  DesignInv'
  BY <1>17, ProposeStep
<1>18. CASE Revise
  BY <1>18, ReviseStep
<1>19. ASSUME NEW selected, ImportFiles(selected)
       PROVE  DesignInv'
  BY <1>19, ImportFilesStep
<1>20. CASE BatchApproves
  BY <1>20, BatchApprovesStep
<1>21. CASE BatchAccepts
  BY <1>21, BatchAcceptsStep
<1> QED
  BY <1>1, <1>2, <1>3, <1>4, <1>5, <1>6, <1>7, <1>8, <1>9, <1>10, <1>11, <1>12, <1>13,
     <1>14, <1>15, <1>16, <1>17, <1>18, <1>19, <1>20, <1>21
     DEF Next, Expert, Simulator, Person, Batch, QuietAction

-----------------------------------------------------------------------------
(* Types *)

LEMMA TypesInit == Init => TypeOK
<1> SUFFICES ASSUME Init
             PROVE  TypeOK
  OBVIOUS
<1>1. NoFiles \in FileMaps
  BY DEF NoFiles, FileMaps
<1>2. NoPayload \in Payloads
  BY DEF NoPayload, Payloads
<1>3. RepairCap \in 0..RepairCap
  BY SessionAssumption
<1>4. contracts \in BOOLEAN /\ late \in BOOLEAN
  BY DEF Init
<1>5. delegation = None /\ sanction = NoPayload /\ files = NoFiles /\ imports = NoFiles
  BY DEF Init
<1> QED  BY <1>1, <1>2, <1>3, <1>4, <1>5 DEF Init, TypeOK, Statuses, StageCount

LEMMA AllowanceType == TypeOK => RepairAllowance \in 0..RepairCap
BY SessionAssumption DEF TypeOK, RepairAllowance, Smaller

LEMMA ImportedFilesType ==
    TypeOK => [p \in Paths |-> IF imports[p] # None THEN imports[p] ELSE files[p]] \in FileMaps
BY DEF TypeOK, FileMaps

LEMMA PayloadTypes ==
    ASSUME TypeOK, NEW kind, Offered(kind)
    PROVE  Payload(kind) \in Payloads
<1> USE DEF Payloads
<1>1. CASE kind = "specification"
  BY <1>1 DEF Payload, TypeOK
<1>2. CASE kind = "change"
  <2>1. proposal.plan \in Plans
    BY <1>2 DEF Offered, TypeOK, Proposals
  <2>2. proposal.plan.spec \in Specs
    BY <2>1, PlanParts
  <2>3. Payload(kind) = [spec |-> proposal.plan.spec, plan |-> proposal.plan,
                         input |-> None]
    BY <1>2 DEF Payload
  <2> QED  BY <2>1, <2>2, <2>3
<1>3. CASE kind = "acceptance"
  <2>1. Payload(kind) = [spec |-> spec, plan |-> None, input |-> Input]
    BY <1>3 DEF Payload
  <2> QED  BY <2>1, InputType DEF TypeOK
<1>4. kind \in {"specification", "change", "acceptance"}
  BY DEF Offered
<1> QED  BY <1>1, <1>2, <1>3, <1>4

\* The actions that touch neither files, plans nor sanction.
LEMMA CallTypes ==
    ASSUME TypeOK,
           \/ BindLimits
           \/ \E purpose \in Purposes : StartExpert(purpose)
           \/ FailExpert \/ AcceptAdvice
           \/ \E s \in Specs \union {spec} : AcceptDiscovery(s)
           \/ \E verdict \in {"accept", "revise"} : AcceptSignoff(verdict)
           \/ StartSimulation \/ FailSimulation
           \/ SavePreference \/ CancelWait \/ Abandon
           \/ \E s \in Specs : Propose(s)
    PROVE  TypeOK'
<1> USE DEF designVars, evidenceVars, planVars, modeVars, repairVars, callVars, batchVars,
            historyVars, Saves, EndsCall, NextInBatch, TypeOK
<1>1. CASE BindLimits
  BY <1>1, AllowanceType DEF BindLimits
<1>2. ASSUME NEW purpose \in Purposes, StartExpert(purpose)
      PROVE  TypeOK'
  BY <1>2 DEF StartExpert
<1>3. CASE FailExpert
  <2>1. contracts' \in BOOLEAN
    BY <1>3 DEF FailExpert
  <2> QED  BY <1>3, <2>1 DEF FailExpert
<1>4. CASE AcceptAdvice
  BY <1>4 DEF AcceptAdvice
<1>5. ASSUME NEW s \in Specs \union {spec}, AcceptDiscovery(s)
      PROVE  TypeOK'
  <2>1. contracts' \in BOOLEAN /\ batch' \in {"off", "loop", "step"}
    BY <1>5 DEF AcceptDiscovery
  <2> QED  BY <1>5, <2>1 DEF AcceptDiscovery
<1>6. ASSUME NEW verdict \in {"accept", "revise"}, AcceptSignoff(verdict)
      PROVE  TypeOK'
  BY <1>6 DEF AcceptSignoff, Statuses
<1>7. CASE StartSimulation
  BY <1>7 DEF StartSimulation
<1>8. CASE FailSimulation
  <2>1. contracts' \in BOOLEAN
    BY <1>8 DEF FailSimulation
  <2> QED  BY <1>8, <2>1 DEF FailSimulation
<1>9. CASE SavePreference
  BY <1>9 DEF SavePreference
<1>10. CASE CancelWait
  BY <1>10 DEF CancelWait
<1>11. CASE Abandon
  BY <1>11 DEF Abandon
<1>12. ASSUME NEW s \in Specs, Propose(s)
       PROVE  TypeOK'
  BY <1>12 DEF Propose
<1> QED  BY <1>1, <1>2, <1>3, <1>4, <1>5, <1>6, <1>7, <1>8, <1>9, <1>10, <1>11, <1>12

LEMMA StageTypes ==
    ASSUME TypeOK, DesignInv, CallInv,
           \/ \E role \in StageNames, m \in Manifests \union {None} :
                 \E c \in Contributions(role) : AcceptStage(role, c, m)
           \/ \E c \in Contributions("diagnosis") : AcceptRepair(c)
           \/ ReuseStage
           \/ \E passed \in BOOLEAN : CompleteSimulation(passed)
           \/ \E intent \in Intents \intersect Requests : AcceptProposal(intent)
    PROVE  TypeOK'
<1> USE DEF evidenceVars, planVars, modeVars, repairVars, batchVars, historyVars,
            Saves, EndsCall, NextInBatch
<1>1. ASSUME NEW role \in StageNames, NEW m \in Manifests \union {None},
             NEW c \in Contributions(role), AcceptStage(role, c, m)
      PROVE  TypeOK'
  <2>1. active = role
    BY <1>1 DEF AcceptStage
  <2>2. stage \in 0..5
    BY <2>1, StageInFlight
  <2>3. files' \in FileMaps
    BY <1>1, FilesAfter DEF AcceptStage, TypeOK
  <2>4. derived' \in SUBSET Paths
    <3>1. derived' = DerivedAfter(role, PathsOf(c)) /\ PathsOf(c) \subseteq Paths
      BY <1>1, ContributionInArea DEF AcceptStage
    <3> QED  BY <3>1 DEF DerivedAfter, TypeOK
  <2>5. manifest' \in Manifests \union {None}
    BY <1>1 DEF AcceptStage, TypeOK
  <2>6. batch' \in {"off", "loop", "step"} /\ stage' \in 0..StageCount
    BY <1>1, <2>2 DEF AcceptStage, TypeOK, StageCount
  <2> QED  BY <1>1, <2>3, <2>4, <2>5, <2>6 DEF AcceptStage, TypeOK
<1>2. ASSUME NEW c \in Contributions("diagnosis"), AcceptRepair(c)
      PROVE  TypeOK'
  <2>1. active = "diagnosis" /\ repairs' = repairs + 1
    BY <1>2 DEF AcceptRepair
  <2>2. repairs' \in 0..RepairCap
    BY <2>1, SessionAssumption DEF CallInv, TypeOK
  <2>3. files' \in FileMaps
    BY <1>2, FilesAfter DEF AcceptRepair, TypeOK
  <2>4. derived' \in SUBSET Paths
    <3>1. derived' = DerivedAfter("diagnosis", PathsOf(c)) /\ PathsOf(c) \subseteq Paths
      BY <1>2, ContributionInArea DEF AcceptRepair
    <3> QED  BY <3>1 DEF DerivedAfter, TypeOK
  <2>5. batch' \in {"off", "loop", "step"} /\ status' \in Statuses
    BY <1>2 DEF AcceptRepair, TypeOK, Statuses
  <2> QED  BY <1>2, <2>2, <2>3, <2>4, <2>5 DEF AcceptRepair, TypeOK
<1>3. CASE ReuseStage
  <2>1. stage' \in 0..StageCount /\ batch' \in {"off", "loop", "step"}
    BY <1>3 DEF ReuseStage, TypeOK, StageCount
  <2>2. manifest' \in Manifests \union {None}
    BY <1>3, PlanParts DEF ReuseStage, ManifestAfterReuse, Reused, TypeOK
  <2> QED  BY <1>3, <2>1, <2>2 DEF ReuseStage, TypeOK, callVars
<1>4. ASSUME NEW passed \in BOOLEAN, CompleteSimulation(passed)
      PROVE  TypeOK'
  <2>1. simulation' \in Reports
    BY <1>4, InputType DEF CompleteSimulation, Reports
  <2>2. status' \in Statuses /\ batch' \in {"off", "loop", "step"}
    BY <1>4 DEF CompleteSimulation, StatusAfterRun, Statuses, TypeOK
  <2> QED  BY <1>4, <2>1, <2>2 DEF CompleteSimulation, TypeOK
<1>5. ASSUME NEW intent \in Intents \intersect Requests, AcceptProposal(intent)
      PROVE  TypeOK'
  <2>1. PICK plan \in ChangePlans : proposal' = [intent |-> intent, plan |-> plan]
    BY <1>5 DEF AcceptProposal
  <2>2. proposal' \in Proposals
    BY <2>1, ChangePlanFacts DEF Proposals
  <2> QED  BY <1>5, <2>2 DEF AcceptProposal, TypeOK, designVars
<1> QED  BY <1>1, <1>2, <1>3, <1>4, <1>5

\* What a card shows.
LEMMA CardTypes ==
    ASSUME TypeOK,
           \/ \E kind \in CardKinds : Show(kind)
           \/ ShowLocal("baseline", BaselinePlans)
           \/ ShowLocal("completion", CompletionPlans)
           \/ ShowLocal("local_change", ChangePlans)
    PROVE  TypeOK'
<1> USE DEF designVars, evidenceVars, planVars, modeVars, repairVars, callVars, batchVars,
            historyVars
<1>1. ASSUME NEW kind \in CardKinds, Show(kind)
      PROVE  TypeOK'
  <2>1. shown' \in Cards
    BY <1>1, PayloadTypes DEF Show, Cards
  <2> QED  BY <1>1, <2>1 DEF Show, TypeOK
<1>2. ASSUME NEW kind \in CardKinds, NEW plans \in SUBSET Plans, ShowLocal(kind, plans)
      PROVE  TypeOK'
  <2>1. PICK plan \in plans :
           shown' = [kind |-> kind,
                     payload |-> [spec |-> plan.spec, plan |-> plan, input |-> None]]
    BY <1>2 DEF ShowLocal
  <2>2. shown' \in Cards
    BY <2>1, PlanParts DEF Cards, Payloads
  <2> QED  BY <1>2, <2>2 DEF ShowLocal, TypeOK
<1>3. /\ BaselinePlans \in SUBSET Plans /\ CompletionPlans \in SUBSET Plans
      /\ ChangePlans \in SUBSET Plans
  BY BaselinePlanFacts, CompletionPlanFacts, ChangePlanFacts
<1> QED  BY <1>1, <1>2, <1>3 DEF CardKinds

LEMMA SpecApprovalTypes ==
    ASSUME TypeOK,
           \/ ApproveSpecification \/ ApproveSpecByDigest \/ BatchApproves
           \/ ApproveAcceptance \/ ApproveAcceptanceByDigest \/ BatchAccepts
    PROVE  TypeOK'
<1> USE DEF evidenceVars, planVars, repairVars, callVars, Saves
<1>1. ASSUME ApproveSpec("user") \/ ApproveSpec("delegated"), sanction' \in Payloads,
             batch' \in {"off", "loop", "step"}
      PROVE  TypeOK'
  BY <1>1 DEF ApproveSpec, TypeOK, Statuses
<1>2. ASSUME AcceptDesign("user") \/ AcceptDesign("delegated"), sanction' \in Payloads,
             batch' \in {"off", "loop", "step"}
      PROVE  TypeOK'
  BY <1>2 DEF AcceptDesign, TypeOK, Statuses
<1>3. batch' \in {"off", "loop", "step"}
  BY DEF ApproveSpecification, ApproveSpecByDigest, BatchApproves, ApproveAcceptance,
         ApproveAcceptanceByDigest, BatchAccepts, TypeOK
<1>4. Input \in Inputs
  BY InputType
<1>5. sanction \in Payloads /\ spec \in Specs \union {None}
  BY DEF TypeOK
<1>6. CASE ApproveSpecification
  <2>1. shown.payload \in Payloads
    BY <1>6 DEF ApproveSpecification, Confirmed, TypeOK, Cards
  <2> QED  BY <1>1, <1>3, <1>6, <2>1 DEF ApproveSpecification
<1>7. CASE ApproveSpecByDigest
  <2>1. [NoPayload EXCEPT !.spec = spec] \in Payloads
    BY <1>5 DEF NoPayload, Payloads
  <2> QED  BY <1>1, <1>3, <1>7, <2>1 DEF ApproveSpecByDigest
<1>8. CASE BatchApproves
  BY <1>1, <1>3, <1>5, <1>8 DEF BatchApproves
<1>9. CASE ApproveAcceptance
  <2>1. shown.payload \in Payloads
    BY <1>9 DEF ApproveAcceptance, Confirmed, TypeOK, Cards
  <2>2. [sanction EXCEPT !.input = shown.payload.input] \in Payloads
    BY <1>5, <2>1 DEF Payloads
  <2> QED  BY <1>2, <1>3, <1>9, <2>2 DEF ApproveAcceptance
<1>10. CASE ApproveAcceptanceByDigest
  <2>1. [sanction EXCEPT !.input = Input] \in Payloads
    BY <1>4, <1>5 DEF Payloads
  <2> QED  BY <1>2, <1>3, <1>10, <2>1 DEF ApproveAcceptanceByDigest
<1>11. CASE BatchAccepts
  BY <1>2, <1>3, <1>5, <1>11 DEF BatchAccepts
<1> QED  BY <1>6, <1>7, <1>8, <1>9, <1>10, <1>11

LEMMA PlanApprovalTypes ==
    ASSUME TypeOK, CardInv,
           \/ ApproveProposal \/ ApproveProposalByDigest \/ ApproveLocalChange
           \/ ApproveChangeByDigest
           \/ ApproveBaseline \/ ApproveBaselineByDigest \/ ApproveCompletion
    PROVE  TypeOK'
<1> USE DEF repairVars, callVars, Saves, Invalidated
<1>1. ASSUME NEW plan \in Plans, ApproveChange(plan), sanction' \in Payloads
      PROVE  TypeOK'
  <2>1. plan.spec \in Specs
    BY PlanParts
  <2>2. late' \in BOOLEAN
    BY <1>1 DEF ApproveChange
  <2> QED  BY <1>1, <2>1, <2>2 DEF ApproveChange, TypeOK, Statuses, StageCount
<1>2. ASSUME NEW plan, AdoptBaseline(plan), sanction' \in Payloads
      PROVE  TypeOK'
  <2>1. plan \in BaselinePlans
    BY <1>2 DEF AdoptBaseline
  <2>2. plan \in Plans
    BY <2>1, BaselinePlanFacts
  <2>3. plan.manifest \in Manifests
    BY <2>2, PlanParts
  <2>4. late' \in BOOLEAN
    BY <1>2 DEF AdoptBaseline
  <2>5. files' \in FileMaps
    BY <1>2, ImportedFilesType DEF AdoptBaseline
  <2> QED  BY <1>2, <2>2, <2>3, <2>4, <2>5 DEF AdoptBaseline, TypeOK, Statuses, StageCount
<1>3. shown # None => shown.payload \in Payloads
  BY DEF TypeOK, Cards
<1>4. CASE ApproveProposal \/ ApproveProposalByDigest
  <2>1. Offered("change")
    BY <1>4 DEF ApproveProposal, Confirmed, ApproveProposalByDigest, Offered
  <2>2. proposal.plan \in Plans
    BY <2>1 DEF Offered, TypeOK, Proposals
  <2>3. Payload("change") \in Payloads
    BY <2>1, PayloadTypes
  <2>4. ApproveChange(proposal.plan) /\ sanction' = Payload("change")
    BY <1>4 DEF ApproveProposal, Confirmed, ApproveProposalByDigest
  <2> QED  BY <1>1, <2>2, <2>3, <2>4
<1>5. CASE ApproveLocalChange
  <2>1. /\ shown # None /\ shown.kind = "local_change"
        /\ ApproveChange(shown.payload.plan) /\ sanction' = shown.payload
    BY <1>5 DEF ApproveLocalChange, ConfirmedLocally
  <2>2. shown.payload.plan \in Plans
    BY <2>1 DEF CardInv, LocalKinds
  <2> QED  BY <1>1, <1>3, <2>1, <2>2
<1>6. CASE ApproveChangeByDigest
  <2>1. PICK plan \in ChangePlans :
           /\ ApproveChange(plan)
           /\ sanction' = [spec |-> plan.spec, plan |-> plan, input |-> None]
    BY <1>6 DEF ApproveChangeByDigest
  <2>2. plan \in Plans
    BY ChangePlanFacts
  <2>3. sanction' \in Payloads
    BY <2>1, <2>2, PlanParts DEF Payloads
  <2> QED  BY <1>1, <2>1, <2>2, <2>3
<1>7. CASE ApproveBaseline
  BY <1>2, <1>3, <1>7 DEF ApproveBaseline, ConfirmedLocally
<1>8. CASE ApproveBaselineByDigest
  <2>1. PICK plan \in BaselinePlans :
           /\ AdoptBaseline(plan)
           /\ sanction' = [spec |-> spec, plan |-> plan, input |-> None]
    BY <1>8 DEF ApproveBaselineByDigest
  <2>2. plan \in Plans
    BY BaselinePlanFacts
  <2>3. sanction' \in Payloads
    BY <2>1, <2>2 DEF Payloads, TypeOK
  <2> QED  BY <1>2, <2>1, <2>3
<1>9. CASE ApproveCompletion
  <2>1. /\ shown # None /\ shown.payload.plan \in CompletionPlans
        /\ sanction' = shown.payload /\ late' = FALSE
    BY <1>9 DEF ApproveCompletion, ConfirmedLocally
  <2>2. shown.payload.plan \in Plans /\ sanction' \in Payloads
    BY <1>3, <2>1, CompletionPlanFacts
  <2>3. files' \in FileMaps
    BY <1>9, ImportedFilesType DEF ApproveCompletion
  <2>4. late' \in BOOLEAN
    BY <2>1
  <2> QED  BY <1>9, <2>2, <2>3, <2>4 DEF ApproveCompletion, TypeOK, Statuses, StageCount
<1> QED  BY <1>4, <1>5, <1>6, <1>7, <1>8, <1>9

LEMMA ImportTypes ==
    ASSUME TypeOK, NEW selection \in SUBSET Importable, NEW texts \in [selection -> AllTexts],
           ImportFiles(texts)
    PROVE  TypeOK'
<1> USE DEF designVars, evidenceVars, planVars, modeVars, repairVars, callVars, batchVars,
            historyVars, Saves
<1>1. imports' \in FileMaps
  BY DEF ImportFiles, FileMaps, TypeOK
<1> QED  BY <1>1 DEF ImportFiles, TypeOK

LEMMA ReviseTypes == TypeOK /\ Revise => TypeOK'
<1> SUFFICES ASSUME TypeOK, Revise
             PROVE  TypeOK'
  OBVIOUS
<1>1. files' \in FileMaps
  BY DEF Revise, NoFiles, FileMaps
<1>2. sanction' \in Payloads
  BY DEF Revise, NoPayload, Payloads
<1>3. late' \in BOOLEAN
  BY DEF Revise
<1> QED  BY <1>1, <1>2, <1>3 DEF Revise, TypeOK, Statuses, StageCount, Saves, Invalidated,
                                PlansAfterRevision, repairVars, callVars

LEMMA BatchTypes ==
    ASSUME TypeOK, BatchInv,
           \/ \E grant \in Grants : BindDelegation(grant)
           \/ \E policy \in BOOLEAN : StartBatch(policy)
           \/ EndBatch \/ BatchStep \/ BatchRefused \/ BatchTimeout
           \/ Environment
    PROVE  TypeOK'
<1> USE DEF designVars, evidenceVars, planVars, modeVars, repairVars, callVars, historyVars,
            Saves
<1>1. ASSUME NEW grant \in Grants, BindDelegation(grant)
      PROVE  TypeOK'
  <2>1. spec \in Specs
    BY <1>1 DEF BindDelegation, TypeOK
  <2>2. delegation' \in Delegations
    BY <1>1, <2>1 DEF BindDelegation, Delegations
  <2>3. repairLimit' \in 0..RepairCap
    BY <1>1, AllowanceType, SessionAssumption DEF BindDelegation, Smaller
  <2>4. late' \in BOOLEAN
    BY <1>1 DEF BindDelegation
  <2> QED  BY <1>1, <2>2, <2>3, <2>4 DEF BindDelegation, TypeOK
<1>2. ASSUME NEW policy \in BOOLEAN, StartBatch(policy)
      PROVE  TypeOK'
  BY <1>2 DEF StartBatch, TypeOK
<1>3. CASE EndBatch \/ BatchRefused \/ BatchTimeout
  <2>1. contracts' \in BOOLEAN
    BY <1>3 DEF EndBatch, BatchRefused, BatchTimeout
  <2> QED  BY <1>3, <2>1 DEF EndBatch, BatchRefused, BatchTimeout, TypeOK
<1>4. CASE BatchStep
  <2>1. delegation \in Delegations
    BY <1>4 DEF BatchStep, BatchInv, TypeOK
  <2>2. delegation' \in Delegations
    BY <1>4, <2>1 DEF BatchStep, Delegations
  <2> QED  BY <1>4, <2>2 DEF BatchStep, TypeOK
<1>5. ASSUME NEW limit \in RepairBudgets, Restart(limit)
      PROVE  TypeOK'
  <2>1. contracts' \in BOOLEAN
    BY <1>5 DEF Restart
  <2> QED  BY <1>5, <2>1 DEF Restart, TypeOK
<1>6. CASE DeadlinePasses
  <2>1. late' \in BOOLEAN
    BY <1>6 DEF DeadlinePasses
  <2> QED  BY <1>6, <2>1 DEF DeadlinePasses, TypeOK
<1> QED  BY <1>1, <1>2, <1>3, <1>4, <1>5, <1>6 DEF Environment

LEMMA TypeStep ==
    TypeOK /\ DesignInv /\ CallInv /\ CardInv /\ BatchInv /\ [Next]_vars => TypeOK'
<1> SUFFICES ASSUME TypeOK, DesignInv, CallInv, CardInv, BatchInv, [Next]_vars
             PROVE  TypeOK'
  OBVIOUS
<1>1. CASE UNCHANGED vars
  BY <1>1 DEF vars, designVars, evidenceVars, planVars, modeVars, repairVars, callVars,
              batchVars, historyVars, TypeOK
<1>2. CASE Expert
  BY <1>2, CallTypes, StageTypes DEF Expert
<1>3. CASE Simulator
  BY <1>3, CallTypes, StageTypes DEF Simulator
<1>4. CASE Person
  BY <1>4, CallTypes, CardTypes, SpecApprovalTypes, PlanApprovalTypes, ImportTypes,
     ReviseTypes, BatchTypes DEF Person
<1>5. CASE Batch
  BY <1>5, SpecApprovalTypes, BatchTypes DEF Batch
<1>6. CASE Environment
  BY <1>6, BatchTypes
<1> QED  BY <1>1, <1>2, <1>3, <1>4, <1>5, <1>6 DEF Next

-----------------------------------------------------------------------------
(* Calls, cards, limits and the batch *)

\* A step that is not the start of a call ends the one in flight, finds none, or
\* leaves what its start required.
LEMMA CallFrame ==
    ASSUME [Next]_vars
    PROVE  \/ active' = "none"
           \/ UNCHANGED <<designVars, active, repairVars>>
           \/ \E purpose \in Purposes : StartExpert(purpose)
           \/ StartSimulation
<1> USE DEF callVars, Idle
<1>1. CASE UNCHANGED vars
  BY <1>1 DEF vars
<1>2. CASE Expert
  BY <1>2 DEF Expert, BindLimits, FailExpert, AcceptAdvice, AcceptDiscovery, AcceptStage,
              AcceptRepair, AcceptSignoff, AcceptProposal, ReuseStage, EndsCall
<1>3. CASE Simulator
  BY <1>3 DEF Simulator, CompleteSimulation, EndsCall, FailSimulation
<1>4. CASE Person
  BY <1>4 DEF Person, SavePreference, Show, ShowLocal, ApproveSpecification,
              ApproveAcceptance, ApproveSpecByDigest, ApproveAcceptanceByDigest,
              ApproveProposal, ApproveProposalByDigest, ApproveLocalChange,
              ApproveChangeByDigest, ApproveBaseline, ApproveBaselineByDigest,
              ApproveCompletion, ApproveSpec, AcceptDesign, ApproveChange, AdoptBaseline,
              Propose, Revise, ImportFiles, CancelWait, Abandon, BindDelegation, StartBatch
<1>5. CASE Batch
  BY <1>5 DEF Batch, EndBatch, BatchStep, BatchApproves, BatchAccepts, BatchRefused,
              BatchTimeout, ApproveSpec, AcceptDesign
<1>6. CASE Environment
  BY <1>6 DEF Environment, Restart, DeadlinePasses
<1> QED  BY <1>1, <1>2, <1>3, <1>4, <1>5, <1>6 DEF Next

LEMMA CallStep == TypeOK /\ CallInv /\ [Next]_vars => CallInv'
<1> SUFFICES ASSUME TypeOK, CallInv, [Next]_vars
             PROVE  CallInv'
  OBVIOUS
<1>1. CASE active' = "none"
  BY <1>1 DEF CallInv, StageNames
<1>2. CASE UNCHANGED <<designVars, active, repairVars>>
  BY <1>2 DEF CallInv, designVars, repairVars, NextStage
<1>3. ASSUME NEW purpose \in Purposes, StartExpert(purpose)
      PROVE  CallInv'
  <2>1. /\ active' = purpose /\ repairLimit = RepairAllowance /\ CallReady(purpose)
        /\ UNCHANGED <<designVars, repairVars>>
    BY <1>3 DEF StartExpert
  <2>2. purpose # "simulation"
    BY SessionAssumption DEF Purposes, StageNames, Intents, Advice
  <2> QED  BY <2>1, <2>2 DEF CallInv, CallReady, RepairsLeft, NextStage, designVars,
                             repairVars, StageNames
<1>4. CASE StartSimulation
  BY <1>4 DEF StartSimulation, CallInv, designVars, StageNames
<1> QED  BY <1>1, <1>2, <1>3, <1>4, CallFrame

\* A step saves, shows a card, or leaves the one that is shown.
LEMMA CardFrame ==
    ASSUME [Next]_vars
    PROVE  \/ shown' = None \/ shown' = shown
           \/ \E kind \in CardKinds : Show(kind)
           \/ ShowLocal("baseline", BaselinePlans)
           \/ ShowLocal("completion", CompletionPlans)
           \/ ShowLocal("local_change", ChangePlans)
<1> USE DEF Saves
<1>1. CASE UNCHANGED vars
  BY <1>1 DEF vars
<1>2. CASE Expert
  BY <1>2 DEF Expert, BindLimits, StartExpert, FailExpert, AcceptAdvice, AcceptDiscovery,
              AcceptStage, AcceptRepair, AcceptSignoff, AcceptProposal, ReuseStage, EndsCall
<1>3. CASE Simulator
  BY <1>3 DEF Simulator, StartSimulation, CompleteSimulation, EndsCall, FailSimulation
<1>4. CASE Person
  BY <1>4 DEF Person, SavePreference, ApproveSpecification,
              ApproveAcceptance, ApproveSpecByDigest, ApproveAcceptanceByDigest,
              ApproveProposal, ApproveProposalByDigest, ApproveLocalChange,
              ApproveChangeByDigest, ApproveBaseline, ApproveBaselineByDigest,
              ApproveCompletion, ApproveSpec, AcceptDesign, ApproveChange, AdoptBaseline,
              Propose, Revise, ImportFiles, CancelWait, Abandon, BindDelegation, StartBatch
<1>5. CASE Batch
  BY <1>5 DEF Batch, EndBatch, BatchStep, BatchApproves, BatchAccepts, BatchRefused,
              BatchTimeout, ApproveSpec, AcceptDesign
<1>6. CASE Environment
  BY <1>6 DEF Environment, Restart, DeadlinePasses
<1> QED  BY <1>1, <1>2, <1>3, <1>4, <1>5, <1>6 DEF Next

LEMMA CardStep == TypeOK /\ CardInv /\ [Next]_vars => CardInv'
<1> SUFFICES ASSUME TypeOK, CardInv, [Next]_vars
             PROVE  CardInv'
  OBVIOUS
<1>1. CASE shown' = None
  BY <1>1 DEF CardInv
<1>2. CASE shown' = shown
  BY <1>2 DEF CardInv
<1>3. ASSUME NEW kind \in CardKinds, Show(kind)
      PROVE  CardInv'
  <2>1. shown'.kind = kind /\ kind \notin LocalKinds
    BY <1>3 DEF Show, Offered, LocalKinds
  <2> QED  BY <2>1 DEF CardInv
<1>4. ASSUME NEW kind, NEW plans \in SUBSET Plans, ShowLocal(kind, plans)
      PROVE  CardInv'
  <2>1. PICK plan \in plans :
           shown' = [kind |-> kind,
                     payload |-> [spec |-> plan.spec, plan |-> plan, input |-> None]]
    BY <1>4 DEF ShowLocal
  <2> QED  BY <2>1 DEF CardInv
<1>5. /\ BaselinePlans \in SUBSET Plans /\ CompletionPlans \in SUBSET Plans
      /\ ChangePlans \in SUBSET Plans
  BY BaselinePlanFacts, CompletionPlanFacts, ChangePlanFacts
<1> QED  BY <1>1, <1>2, <1>3, <1>4, <1>5, CardFrame

\* A batch begins under a delegation; only a person, outside a batch, ends one.
LEMMA BatchFrame ==
    ASSUME [Next]_vars, batch' # "off"
    PROVE  \/ batch # "off" /\ delegation' = delegation
           \/ delegation # None /\ delegation' = delegation
           \/ BatchStep
<1> USE DEF batchVars, Interactive, NextInBatch
<1>1. CASE UNCHANGED vars
  BY <1>1 DEF vars
<1>2. CASE Expert
  BY <1>2 DEF Expert, BindLimits, StartExpert, FailExpert, AcceptAdvice, AcceptDiscovery,
              AcceptStage, AcceptRepair, AcceptSignoff, AcceptProposal, ReuseStage
<1>3. CASE Simulator
  BY <1>3 DEF Simulator, StartSimulation, CompleteSimulation, FailSimulation
<1>4. CASE Person
  BY <1>4 DEF Person, SavePreference, Show, ShowLocal, ApproveSpecification,
              ApproveAcceptance, ApproveSpecByDigest, ApproveAcceptanceByDigest,
              ApproveProposal, ApproveProposalByDigest, ApproveLocalChange,
              ApproveChangeByDigest, ApproveBaseline, ApproveBaselineByDigest,
              ApproveCompletion, ApproveChange, AdoptBaseline,
              Propose, Revise, ImportFiles, CancelWait, Abandon, BindDelegation, StartBatch
<1>5. CASE Batch
  BY <1>5 DEF Batch, EndBatch, BatchApproves, BatchAccepts, BatchRefused, BatchTimeout,
              ApproveSpec, AcceptDesign
<1>6. CASE Environment
  BY <1>6 DEF Environment, Restart, DeadlinePasses
<1> QED  BY <1>1, <1>2, <1>3, <1>4, <1>5, <1>6 DEF Next

LEMMA BatchInvStep == TypeOK /\ BatchInv /\ [Next]_vars => BatchInv'
<1> SUFFICES ASSUME TypeOK, BatchInv, [Next]_vars, batch' # "off"
             PROVE  delegation' # None
  BY DEF BatchInv
<1>1. CASE BatchStep
  <2>1. delegation \in Delegations
    BY <1>1 DEF BatchStep, BatchInv, TypeOK
  <2>2. delegation' \in Delegations
    BY <1>1, <2>1 DEF BatchStep, Delegations
  <2> QED  BY <2>2, SessionAssumption
<1> QED  BY <1>1, BatchFrame DEF BatchInv

\* A repair limit in force is never above the one it replaces.
LEMMA AllowanceNarrows == TypeOK => RepairAllowance <= repairLimit
BY SessionAssumption DEF TypeOK, RepairAllowance, Smaller

\* How a step touches what a delegation is about: the specification, the modes of
\* approval and the limits.
LEMMA DelegationFrame ==
    ASSUME CallInv, [Next]_vars
    PROVE  \/ UNCHANGED <<spec, modeVars, delegation, repairLimit>>
           \/ BindLimits
           \/ status = "discovery" /\ UNCHANGED <<modeVars, delegation, repairLimit>>
           \/ delegation' = None /\ approvalMode' # "delegated" /\ acceptanceMode' = "none"
           \/ /\ UNCHANGED <<spec, delegation, repairLimit>>
              /\ approvalMode' \in {"user", approvalMode}
              /\ acceptanceMode' \in {"user", acceptanceMode}
           \/ \E grant \in Grants : BindDelegation(grant)
           \/ BatchStep \/ BatchApproves \/ BatchAccepts
<1> USE DEF designVars, modeVars, repairVars, batchVars
<1>1. CASE UNCHANGED vars
  BY <1>1 DEF vars
<1>2. CASE Expert
  <2>1. ASSUME NEW s, AcceptDiscovery(s)
        PROVE  status = "discovery" /\ UNCHANGED <<modeVars, delegation, repairLimit>>
    BY <2>1 DEF AcceptDiscovery, EndsCall, CallInv
  <2> QED  BY <1>2, <2>1 DEF Expert, StartExpert, FailExpert, AcceptAdvice, AcceptStage,
              AcceptRepair, AcceptSignoff, AcceptProposal, ReuseStage
<1>3. CASE Simulator
  BY <1>3 DEF Simulator, StartSimulation, CompleteSimulation, FailSimulation
<1>4. CASE Person
  <2>1. ASSUME ApproveSpec("user") \/ AcceptDesign("user")
        PROVE  /\ UNCHANGED <<spec, delegation, repairLimit>>
               /\ approvalMode' \in {"user", approvalMode}
               /\ acceptanceMode' \in {"user", acceptanceMode}
    BY <2>1 DEF ApproveSpec, AcceptDesign
  <2>2. ASSUME NEW plan, ApproveChange(plan) \/ AdoptBaseline(plan)
        PROVE  delegation' = None /\ approvalMode' # "delegated" /\ acceptanceMode' = "none"
    BY <2>2 DEF ApproveChange, AdoptBaseline
  <2>3. ASSUME ApproveCompletion \/ Revise
        PROVE  delegation' = None /\ approvalMode' # "delegated" /\ acceptanceMode' = "none"
    BY <2>3 DEF ApproveCompletion, Revise
  <2> QED
    BY <1>4, <2>1, <2>2, <2>3
       DEF Person, SavePreference, Show, ShowLocal, ApproveSpecification,
           ApproveAcceptance, ApproveSpecByDigest, ApproveAcceptanceByDigest,
           ApproveProposal, ApproveProposalByDigest, ApproveLocalChange,
           ApproveChangeByDigest, ApproveBaseline, ApproveBaselineByDigest,
           Propose, ImportFiles, CancelWait, Abandon, StartBatch
<1>5. CASE Batch
  BY <1>5 DEF Batch, EndBatch, BatchRefused, BatchTimeout
<1>6. CASE Environment
  BY <1>6 DEF Environment, Restart, DeadlinePasses
<1> QED  BY <1>1, <1>2, <1>3, <1>4, <1>5, <1>6 DEF Next

\* In discovery nothing has been approved, by delegation or otherwise.
LEMMA NothingDelegated ==
    DesignInv /\ status = "discovery" => approvalMode = "none" /\ acceptanceMode = "none"
BY DEF DesignInv, LifeInv

LEMMA DelegationStep ==
    TypeOK /\ DesignInv /\ CallInv /\ BatchInv /\ DelegationBinding /\ [Next]_vars =>
        DelegationBinding'
<1> SUFFICES ASSUME TypeOK, DesignInv, CallInv, BatchInv, DelegationBinding, [Next]_vars
             PROVE  DelegationBinding'
  OBVIOUS
<1>1. CASE UNCHANGED <<spec, modeVars, delegation, repairLimit>>
  BY <1>1 DEF DelegationBinding, DelegatedSpec, modeVars
<1>2. CASE BindLimits
  <2>1. UNCHANGED <<spec, modeVars, delegation>> /\ repairLimit' <= repairLimit
    BY <1>2, AllowanceNarrows DEF BindLimits, designVars, batchVars
  <2>2. delegation # None =>
           repairLimit \in Int /\ repairLimit' \in Int /\ delegation.grant.maxRepairs \in Int
    BY <1>2, AllowanceType, SessionAssumption DEF BindLimits, TypeOK, Delegations
  <2> QED  BY <2>1, <2>2 DEF DelegationBinding, DelegatedSpec, modeVars
<1>3. CASE status = "discovery" /\ UNCHANGED <<modeVars, delegation, repairLimit>>
  BY <1>3, NothingDelegated DEF DelegationBinding, modeVars
<1>4. CASE delegation' = None /\ approvalMode' # "delegated" /\ acceptanceMode' = "none"
  BY <1>4 DEF DelegationBinding
<1>5. CASE /\ UNCHANGED <<spec, delegation, repairLimit>>
           /\ approvalMode' \in {"user", approvalMode}
           /\ acceptanceMode' \in {"user", acceptanceMode}
  BY <1>5 DEF DelegationBinding, DelegatedSpec
<1>6. ASSUME NEW grant \in Grants, BindDelegation(grant)
      PROVE  DelegationBinding'
  <2>1. /\ status = "discovery" /\ UNCHANGED modeVars
        /\ delegation' = [seed |-> spec, grant |-> grant, steps |-> 0]
        /\ repairLimit' = Smaller(RepairAllowance, grant.maxRepairs)
    BY <1>6 DEF BindDelegation
  <2>2. grant.maxRepairs \in Int /\ grant.maxSteps \in Nat
    BY SessionAssumption
  <2>3. repairLimit' <= grant.maxRepairs
    BY <2>1, <2>2, AllowanceType, SessionAssumption DEF Smaller
  <2> QED  BY <2>1, <2>2, <2>3, NothingDelegated DEF DelegationBinding, modeVars
<1>7. CASE BatchStep
  <2>1. /\ UNCHANGED <<spec, modeVars, repairLimit>> /\ StepsLeft
        /\ delegation' = [delegation EXCEPT !.steps = @ + 1] /\ delegation # None
    BY <1>7 DEF BatchStep, BatchStops, designVars, repairVars, BatchInv
  <2>2. delegation \in Delegations
    BY <2>1 DEF TypeOK
  <2>3. /\ delegation'.seed = delegation.seed /\ delegation'.grant = delegation.grant
        /\ delegation'.steps = delegation.steps + 1
    BY <2>1, <2>2 DEF Delegations
  <2>4. delegation.steps \in Nat /\ delegation.grant.maxSteps \in Nat
    BY <2>2, SessionAssumption DEF Delegations
  <2>5. delegation'.steps <= delegation'.grant.maxSteps
    BY <2>1, <2>3, <2>4 DEF StepsLeft
  <2>6. delegation' # None
    <3>1. delegation' \in Delegations
      BY <2>1, <2>2 DEF Delegations
    <3> QED  BY <3>1, SessionAssumption
  <2> QED  BY <2>1, <2>3, <2>5, <2>6 DEF DelegationBinding, DelegatedSpec, modeVars
<1>8. CASE BatchApproves
  BY <1>8 DEF BatchApproves, ApproveSpec, DelegationCovers, DelegationBinding,
              DelegatedSpec, BatchInv, repairVars
<1>9. CASE BatchAccepts
  BY <1>9 DEF BatchAccepts, AcceptDesign, FinalAcceptanceDelegated, DelegationBinding,
              DelegatedSpec, BatchInv, repairVars
<1> QED  BY <1>1, <1>2, <1>3, <1>4, <1>5, <1>6, <1>7, <1>8, <1>9, DelegationFrame

\* The steps that touch a repair limit or count a repair.
LEMMA RepairFrame ==
    ASSUME [Next]_vars
    PROVE  \/ UNCHANGED repairVars
           \/ BindLimits
           \/ \E grant \in Grants : BindDelegation(grant)
           \/ active = "diagnosis" /\ repairs' = repairs + 1 /\ repairLimit' = repairLimit
<1>1. CASE UNCHANGED vars
  BY <1>1 DEF vars
<1>2. CASE Expert
  BY <1>2 DEF Expert, StartExpert, FailExpert, AcceptAdvice, AcceptDiscovery,
              AcceptStage, AcceptRepair, AcceptSignoff, AcceptProposal, ReuseStage, EndsCall
<1>3. CASE Simulator
  BY <1>3 DEF Simulator, StartSimulation, CompleteSimulation, FailSimulation
<1>4. CASE Person
  BY <1>4 DEF Person, SavePreference, Show, ShowLocal, ApproveSpecification,
              ApproveAcceptance, ApproveSpecByDigest, ApproveAcceptanceByDigest,
              ApproveProposal, ApproveProposalByDigest, ApproveLocalChange,
              ApproveChangeByDigest, ApproveBaseline, ApproveBaselineByDigest,
              ApproveCompletion, ApproveSpec, AcceptDesign, ApproveChange, AdoptBaseline,
              Propose, Revise, ImportFiles, CancelWait, Abandon, StartBatch
<1>5. CASE Batch
  BY <1>5 DEF Batch, EndBatch, BatchStep, BatchApproves, BatchAccepts, BatchRefused,
              BatchTimeout, ApproveSpec, AcceptDesign
<1>6. CASE Environment
  BY <1>6 DEF Environment, Restart, DeadlinePasses
<1> QED  BY <1>1, <1>2, <1>3, <1>4, <1>5, <1>6 DEF Next

LEMMA RepairStep ==
    ASSUME TypeOK, CallInv, [Next]_vars
    PROVE  /\ repairLimit' <= repairLimit
           /\ repairs' >= repairs
           /\ repairs' > repairs => repairs' <= repairLimit'
<1>1. repairs \in Int /\ repairLimit \in Int /\ RepairAllowance \in Int
  BY AllowanceType, SessionAssumption DEF TypeOK
<1>2. CASE UNCHANGED repairVars
  BY <1>1, <1>2 DEF repairVars
<1>3. CASE BindLimits
  BY <1>1, <1>3, AllowanceNarrows DEF BindLimits
<1>4. ASSUME NEW grant \in Grants, BindDelegation(grant)
      PROVE  repairs' = repairs /\ repairLimit' <= repairLimit
  <2>1. grant.maxRepairs \in Int
    BY SessionAssumption
  <2> QED  BY <1>1, <1>4, <2>1, AllowanceNarrows DEF BindDelegation, Smaller
<1>5. CASE active = "diagnosis" /\ repairs' = repairs + 1 /\ repairLimit' = repairLimit
  BY <1>1, <1>5 DEF CallInv
<1> QED  BY <1>1, <1>2, <1>3, <1>4, <1>5, RepairFrame

-----------------------------------------------------------------------------
(* The theorems *)

LEMMA SessionInit == Init => SessionInv
<1> SUFFICES ASSUME Init
             PROVE  SessionInv
  OBVIOUS
<1>1. TypeOK
  BY TypesInit
<1>2. Present(files) = {}
  BY DEF Init, NoFiles, Present
<1>3. SessionConsistent
  BY <1>2 DEF Init, SessionConsistent, ApprovalBinding, ManifestBinding, BaselineBinding,
              StageCount
<1>4. EvidenceCurrent
  BY DEF Init, EvidenceCurrent, Simulated, Passed
<1>5. ChangeScopeKept /\ VerificationIsIndependent /\ ApprovedWasReviewed /\ LifeInv
  BY DEF Init, ChangeScopeKept, VerificationIsIndependent, ApprovedWasReviewed, LifeInv
<1>6. CallInv /\ CardInv /\ BatchInv /\ DelegationBinding
  BY DEF Init, CallInv, StageNames, CardInv, BatchInv, DelegationBinding
<1> QED  BY <1>1, <1>3, <1>4, <1>5, <1>6 DEF SessionInv, DesignInv

LEMMA SessionStep == SessionInv /\ [Next]_vars => SessionInv'
BY TypeStep, DesignStep, CallStep, CardStep, BatchInvStep, DelegationStep DEF SessionInv

LEMMA SessionInductive == Spec => []SessionInv
BY SessionInit, SessionStep, PTL DEF Spec

\* Every field of the saved state keeps its type (validate_state).
THEOREM SessionTypes == Spec => []TypeOK
<1>1. SessionInv => TypeOK
  BY DEF SessionInv
<1> QED  BY <1>1, SessionInductive, PTL

\* No sequence of handlers leaves a state that the validation of a save refuses: a
\* session stays readable (validate_state, validate_import_state).
THEOREM SessionStaysConsistent == Spec => []SessionConsistent
<1>1. SessionInv => SessionConsistent
  BY DEF SessionInv, DesignInv
<1> QED  BY <1>1, SessionInductive, PTL

\* Signoff and acceptance rest on a passing report about the inputs at hand
\* (validate_state, DesignAgent.approve).
THEOREM EvidenceStaysCurrent == Spec => []EvidenceCurrent
<1>1. SessionInv => EvidenceCurrent
  BY DEF SessionInv, DesignInv
<1> QED  BY <1>1, SessionInductive, PTL

\* Under an approved change, what is outside its scope stays as it was reviewed
\* (validate_import_state).
THEOREM ChangesKeepScope == Spec => []ChangeScopeKept
<1>1. SessionInv => ChangeScopeKept
  BY DEF SessionInv, DesignInv
<1> QED  BY <1>1, SessionInductive, PTL

\* Only RTL is written from a context that showed the implementation
\* (DesignAgent.context).
THEOREM VerificationStaysIndependent == Spec => []VerificationIsIndependent
<1>1. SessionInv => VerificationIsIndependent
  BY DEF SessionInv, DesignInv
<1> QED  BY <1>1, SessionInductive, PTL

\* What a person approved or accepted is what that person was shown (approve_shown,
\* approve_local, approve_change).
THEOREM ApprovalsAreReviewed == Spec => []ApprovedWasReviewed
<1>1. SessionInv => ApprovedWasReviewed
  BY DEF SessionInv, DesignInv
<1> QED  BY <1>1, SessionInductive, PTL

\* Unattended approvals are within the delegation in force
\* (validate_session_extensions).
THEOREM DelegationsBind == Spec => []DelegationBinding
<1>1. SessionInv => DelegationBinding
  BY DEF SessionInv
<1> QED  BY <1>1, SessionInductive, PTL

\* A saved repair limit never widens, and no repair exceeds the one in force
\* (DesignAgent._limits).
THEOREM RepairsStayBounded == Spec => RepairsBounded
<1>1. SessionInv /\ [Next]_vars =>
        [/\ repairLimit' <= repairLimit
         /\ repairs' >= repairs
         /\ repairs' > repairs => repairs' <= repairLimit']_vars
  BY RepairStep DEF SessionInv
<1> QED  BY <1>1, SessionInductive, PTL DEF Spec, RepairsBounded

=============================================================================
