--------------------------- MODULE DesignWorkspace ---------------------------
(***************************************************************************)
(* The one-writer design session as the web workspace and the command line *)
(* drive it: client requests and their saved phases, the one provider or   *)
(* simulator operation in flight, the provider spend record, cancellation, *)
(* process death at any point, restart, and abandonment of what a dead     *)
(* process left.                                                           *)
(*                                                                         *)
(* A process is a web workspace (one event-loop thread) or one command of  *)
(* the command line; the exclusive file lock admits one at a time.  Code   *)
(* between two awaits runs without another handler in between, but every   *)
(* save is a transaction of its own, so a crash may fall between two.      *)
(* Handlers of the loop are therefore enabled only while LoopFree, and     *)
(* Stop always.                                                            *)
(*                                                                         *)
(* Just before some operators stands a faulty variant that no action uses  *)
(* (a dropped guard, a lost bit): put in the place of the operator, it     *)
(* breaks the property that README.md names for it.                        *)
(***************************************************************************)
EXTENDS Integers, FiniteSets

CONSTANTS
    Requests,         \* client operation identifiers of the web interface
    Cli,              \* the command line, a caller without a saved request
    Recoverers,       \* recovery calls that may be outstanding together
    Nobody,           \* no operation is active
    Reserve,          \* price reserved for one request to a priced provider
    Ceilings,         \* spend limits a person may select
    CallBudgets,      \* values of max_calls a process may be started with
    CallCap,          \* the largest max_calls a policy or a state admits (200)
    CorrectionLimit,  \* corrections of an invalid output inside one call
    OperationLimit,   \* saved client operations a session may hold (128)
    WarningLimit,     \* saved warnings a session may hold (256)
    NewWarnings       \* most warnings one accepted specification adds

ASSUME WorkspaceAssumption ==
    /\ Reserve \in Nat \ {0}
    /\ Ceilings \subseteq Nat \ {0}
    /\ CallCap \in Nat \ {0}
    /\ CallBudgets \subseteq 1..CallCap
    /\ CorrectionLimit \in Nat
    /\ OperationLimit \in Nat
    /\ WarningLimit \in Nat
    /\ NewWarnings \in Nat
    /\ Cli \notin Requests
    /\ Nobody \notin Requests \union {Cli}

Callers == Requests \union {Cli}

ExpertKinds == {"discussion", "question", "generation"}
Kinds == ExpertKinds \union {"simulation"}

OpenPhases == {"queued", "active", "cancellation_requested"}
SettledPhases == {"completed", "failed", "cancelled", "reconciliation_needed"}
Phases == {"absent"} \union OpenPhases \union SettledPhases

\* "closed" stands for review_blocked, awaiting_acceptance and accepted;
\* "building" for every status that the generation plan accepts; "built" for
\* building with all stages complete.
Statuses == {"discovery", "building", "built", "closed"}

\* A priced provider, a local one without a price, or none selected.
Models == {"none", "openai", "ollama"}
NoCeiling == 0

\* Synchronous sections of a caller's coroutine, and where it may wait.
LoopSteps == {"calling", "replied", "returned", "raised"}
TaskStates == {"none", "scheduled", "awaiting", "cancelling"} \union LoopSteps

VARIABLES
    \* saved in the session database
    phase,        \* of every request; "absent" before it is submitted
    kind,         \* what the request asks for, the content of its digest
    active,       \* caller of the operation in flight, or Nobody
    activeKind,   \* "expert" or "simulation"; "none" with Nobody
    status,
    calls,
    callLimit,    \* limits.max_calls; CallCap until first bound
    warnings,     \* how many are saved
    model,
    ceiling,
    spent,
    pending,      \* reservation of the operation in flight
    uncertain,
    \* of the running process
    process,      \* "down", "web" or "cli"
    budget,       \* policy.max_calls
    expert,       \* an expert is configured
    task,         \* of every caller
    cliKind,      \* what the command line was asked for
    attempt,      \* corrections made by the running call
    owned,        \* the active operation was started by this process
    recovery,     \* outstanding recovery calls: idle, or the state they read is fresh or stale
    \* outside the program, and history
    billed,       \* charged by the provider
    exposed,      \* still chargeable for requests already sent
    lost,         \* a priced reply was lost since spend was last reconciled
    dispatched    \* requests whose operation reached the provider or simulator

requestVars == <<phase, kind>>
sessionVars == <<active, activeKind, status, calls, callLimit, warnings>>
settingVars == <<model, ceiling>>
spendVars == <<spent, pending, uncertain>>
processVars == <<process, budget, expert>>
taskVars == <<task, cliKind, attempt>>
historyVars == <<billed, exposed, lost, dispatched>>
vars == <<requestVars, sessionVars, settingVars, spendVars, processVars,
          taskVars, owned, recovery, historyVars>>

-----------------------------------------------------------------------------
(* Conditions *)

KindOf(c) == IF c = Cli THEN cliKind ELSE kind[c]

OpenRequests == {r \in Requests : phase[r] \in OpenPhases}

\* No caller is inside a synchronous section of its coroutine.
LoopFree == \A c \in Callers : task[c] \notin LoopSteps

\* A command of the command line does one thing at a time.
CommandFree ==
    /\ process = "cli"
    /\ task[Cli] = "none"
    /\ \A q \in Recoverers : recovery[q] = "idle"

\* No operation is active and no request is open.
WriterIdleIgnoringRequests == active = Nobody
WriterIdle == active = Nobody /\ OpenRequests = {}

Smaller(a, b) == IF a < b THEN a ELSE b

\* The call limit in force: the saved limit never widens again.
CallAllowanceOfPolicyOnly == budget
CallAllowance == Smaller(budget, callLimit)

\* A request to the priced provider must fit below the spend limit.
AffordableWithoutReserve == ceiling # NoCeiling /\ spent < ceiling
Affordable == ceiling # NoCeiling /\ spent + Reserve <= ceiling

ProviderReadyWhenUncertain ==
    /\ model # "none"
    /\ pending = 0
    /\ model = "openai" => Affordable
ProviderReady ==
    /\ model # "none"
    /\ ~uncertain
    /\ pending = 0
    /\ model = "openai" => Affordable

\* The reviewed plan of a generation request can be carried out.
GenerationReady ==
    /\ status = "building"
    /\ expert
    /\ ProviderReady
    /\ calls < CallAllowance

\* The status in which each kind of work is possible.
StatusAllows(work) ==
    /\ work = "discussion" => status = "discovery"
    /\ work = "generation" => status = "building"
    /\ work = "simulation" => status = "built"

ExpertCallReady(c) ==
    /\ KindOf(c) \in ExpertKinds
    /\ active = Nobody
    /\ StatusAllows(KindOf(c))
    /\ expert
    /\ calls < CallAllowance
    /\ ProviderReady

SimulationReady(c) ==
    /\ KindOf(c) = "simulation"
    /\ active = Nobody
    /\ StatusAllows("simulation")

\* What configure_provider accepts as settings.
SettingsOf(newModel, limit) ==
    \/ newModel = "openai" /\ limit \in Ceilings
    \/ newModel = "ollama" /\ limit = NoCeiling

\* When it lets them take effect.
SettingsAdmissibleBelowUse(limit) == WriterIdle /\ ~uncertain
SettingsAdmissibleWhileOpen(limit) ==
    /\ active = Nobody
    /\ ~uncertain
    /\ limit # NoCeiling => limit >= spent
SettingsAdmissible(limit) ==
    /\ WriterIdle
    /\ ~uncertain
    /\ limit # NoCeiling => limit >= spent

\* The work of this process's call is still wanted: it was not cancelled.
Awaiting(c, what) ==
    /\ LoopFree
    /\ task[c] = "awaiting"
    /\ active = c
    /\ activeKind = what

-----------------------------------------------------------------------------
(* Effects *)

\* What a coroutine knew of its call ends with it.
CallForgotten == cliKind' = "none" /\ attempt' = 0

\* One more warning fits.
WarningFitsOffByOne == warnings <= WarningLimit
WarningFits == warnings < WarningLimit

\* Every save advances the revision: a state read before it is stale.
Saved == recovery' = [q \in Recoverers |-> IF recovery[q] = "fresh" THEN "stale" ELSE recovery[q]]

NothingActive ==
    /\ active' = Nobody
    /\ activeKind' = "none"
    /\ owned' = FALSE

\* A reservation whose reply will never be accepted stays spent and is in doubt.
ReleaseReservation ==
    /\ pending' = 0
    /\ spent' = spent - pending
    /\ uncertain' = uncertain
ForgetReservation ==
    /\ pending' = 0
    /\ UNCHANGED <<spent, uncertain>>
KeepReservation ==
    /\ pending' = 0
    /\ uncertain' = (uncertain \/ pending > 0)
    /\ UNCHANGED spent

\* The reply of a priced request is lost: from now on it may be billed unseen.
ReplyLost == lost' = (lost \/ pending > 0)

\* _finish: a settled request keeps its outcome, and nothing is saved.
FinishOverwriting(r, outcome) ==
    /\ phase' = [phase EXCEPT ![r] = outcome]
    /\ Saved
Finish(r, outcome) ==
    IF phase[r] \in SettledPhases
    THEN UNCHANGED <<phase, recovery>>
    ELSE phase' = [phase EXCEPT ![r] = outcome] /\ Saved

\* The outcome of a run whose agent call raised an error.
FailurePhase(r) ==
    IF kind[r] \in {"generation", "simulation"} /\ active # Nobody
    THEN "reconciliation_needed"
    ELSE "failed"

\* A failed simulation whose operation is still active records an error code that
\* validate_workspace_operations does not admit: that save is refused.
RefusedFailure(r) == kind[r] = "simulation" /\ active # Nobody

\* What a restart records for a request the last process left open.
ReconciledAsCancelled(p) == IF p \in OpenPhases THEN "cancelled" ELSE p
ReconciledQueuedOnly(p) == IF p = "queued" THEN "cancelled" ELSE p
Reconciled(p) ==
    CASE p = "queued" -> "cancelled"
      [] p \in OpenPhases \ {"queued"} -> "reconciliation_needed"
      [] OTHER -> p

-----------------------------------------------------------------------------
(* Processes *)

Init ==
    /\ phase = [r \in Requests |-> "absent"]
    /\ kind = [r \in Requests |-> "none"]
    /\ active = Nobody
    /\ activeKind = "none"
    /\ status = "discovery"
    /\ calls = 0
    /\ callLimit = CallCap
    /\ warnings = 0
    /\ model = "none"
    /\ ceiling = NoCeiling
    /\ spent = 0
    /\ pending = 0
    /\ uncertain = FALSE
    /\ process = "down"
    /\ budget = CallCap
    /\ expert = FALSE
    /\ task = [c \in Callers |-> "none"]
    /\ cliKind = "none"
    /\ attempt = 0
    /\ owned = FALSE
    /\ recovery = [q \in Recoverers |-> "idle"]
    /\ billed = 0
    /\ exposed = 0
    /\ lost = FALSE
    /\ dispatched = {}

\* A process opens the session, with or without a provider.  The web workspace
\* configures a provider only when the settings differ from the saved ones, and
\* does so before it reconciles the requests its predecessor left open; the
\* command line always configures, and never reconciles.
Start(mode, newBudget) ==
    /\ process = "down"
    /\ process' = mode
    /\ budget' = newBudget
    /\ phase' = IF mode = "web" THEN [r \in Requests |-> Reconciled(phase[r])] ELSE phase
    /\ UNCHANGED <<kind, sessionVars, spendVars, taskVars, owned, recovery, historyVars>>

StartWithoutProvider(mode, newBudget) ==
    /\ Start(mode, newBudget)
    /\ expert' = FALSE
    /\ UNCHANGED settingVars

StartWithProvider(mode, newBudget, newModel, limit) ==
    /\ SettingsOf(newModel, limit)
    /\ \/ SettingsAdmissible(limit)
       \/ mode = "web" /\ model = newModel /\ ceiling = limit
    /\ Start(mode, newBudget)
    /\ expert' = TRUE
    /\ model' = newModel
    /\ ceiling' = limit

\* The process ends: killed at any point, shut down, or its command is over.
\* Only what was saved remains.  A reply in flight is lost with the process.
Stop ==
    /\ process # "down"
    /\ process' = "down"
    /\ budget' = CallCap
    /\ expert' = FALSE
    /\ task' = [c \in Callers |-> "none"]
    /\ cliKind' = "none"
    /\ attempt' = 0
    /\ owned' = FALSE
    /\ recovery' = [q \in Recoverers |-> "idle"]
    /\ ReplyLost
    /\ UNCHANGED <<requestVars, sessionVars, settingVars, spendVars, billed, exposed, dispatched>>

-----------------------------------------------------------------------------
(* Client requests and their tasks *)

\* A request is saved as queued before its task exists.  A retry with the same
\* identifier returns the saved state and changes nothing.
Submit(r, work) ==
    /\ process = "web"
    /\ LoopFree
    /\ phase[r] = "absent"
    /\ WriterIdle
    /\ Cardinality({s \in Requests : phase[s] # "absent"}) < OperationLimit
    /\ StatusAllows(work)
    /\ work \in ExpertKinds => expert
    /\ work = "generation" => GenerationReady
    /\ phase' = [phase EXCEPT ![r] = "queued"]
    /\ kind' = [kind EXCEPT ![r] = work]
    /\ task' = [task EXCEPT ![r] = "scheduled"]
    /\ Saved
    /\ UNCHANGED <<sessionVars, settingVars, spendVars, processVars, cliKind, attempt, owned, historyVars>>

\* The task begins: it saves the request as active and calls the agent.  A
\* generation first checks that its reviewed plan still holds.
BeginTask(r) ==
    /\ LoopFree
    /\ task[r] = "scheduled"
    /\ phase[r] = "queued"
    /\ LET current == kind[r] = "generation" => active = Nobody /\ GenerationReady
       IN  /\ phase' = [phase EXCEPT ![r] = IF current THEN "active" ELSE "queued"]
           /\ task' = [task EXCEPT ![r] = IF current THEN "calling" ELSE "raised"]
    /\ attempt' = 0
    /\ Saved
    /\ UNCHANGED <<kind, sessionVars, settingVars, spendVars, processVars, cliKind, owned, historyVars>>

\* A command of the command line calls the agent, which saves no request.
InvokeCli(work) ==
    /\ CommandFree
    /\ StatusAllows(work)
    /\ task' = [task EXCEPT ![Cli] = "calling"]
    /\ cliKind' = work
    /\ attempt' = 0
    /\ UNCHANGED <<requestVars, sessionVars, settingVars, spendVars, processVars, owned, recovery, historyVars>>

\* The agent's call returned: the request is complete.
FinishTask(c) ==
    /\ task[c] = "returned"
    /\ task' = [task EXCEPT ![c] = "none"]
    /\ CallForgotten
    /\ IF c = Cli
       THEN UNCHANGED <<phase, recovery>>
       ELSE Finish(c, "completed")
    /\ UNCHANGED <<kind, sessionVars, settingVars, spendVars, processVars, owned, historyVars>>

\* The agent's call raised an error.
FailTask(c) ==
    /\ task[c] = "raised"
    /\ task' = [task EXCEPT ![c] = "none"]
    /\ CallForgotten
    /\ IF c = Cli
       THEN UNCHANGED <<phase, recovery>>
       ELSE IF RefusedFailure(c) THEN UNCHANGED <<phase, recovery>> ELSE Finish(c, FailurePhase(c))
    /\ UNCHANGED <<kind, sessionVars, settingVars, spendVars, processVars, owned, historyVars>>

-----------------------------------------------------------------------------
(* Cancellation *)

\* A request without a task in this process can only be recorded as unknown.
CancelOrphan(r) ==
    /\ process = "web"
    /\ LoopFree
    /\ phase[r] \in OpenPhases
    /\ task[r] = "none"
    /\ Finish(r, "reconciliation_needed")
    /\ UNCHANGED <<kind, sessionVars, settingVars, spendVars, processVars, taskVars, owned, historyVars>>

\* A queued request is cancelled for certain: its task will never begin.
CancelQueued(r) ==
    /\ process = "web"
    /\ LoopFree
    /\ phase[r] = "queued"
    /\ task[r] = "scheduled"
    /\ Finish(r, "cancelled")
    /\ task' = [task EXCEPT ![r] = "cancelling"]
    /\ UNCHANGED <<kind, sessionVars, settingVars, spendVars, processVars, cliKind, attempt, owned, historyVars>>

\* An active request is only asked to stop.  The reply of its call is lost; the
\* operation stays active.
CancelActive(r) ==
    /\ process = "web"
    /\ LoopFree
    /\ phase[r] = "active"
    /\ task[r] = "awaiting"
    /\ phase' = [phase EXCEPT ![r] = "cancellation_requested"]
    /\ task' = [task EXCEPT ![r] = "cancelling"]
    /\ ReplyLost
    /\ Saved
    /\ UNCHANGED <<kind, sessionVars, settingVars, spendVars, processVars, cliKind, attempt, owned,
                   billed, exposed, dispatched>>

\* The cancelled coroutine ends, after its own cleanup.
EndCancelledTask(r) ==
    /\ LoopFree
    /\ task[r] = "cancelling"
    /\ task' = [task EXCEPT ![r] = "none"]
    /\ CallForgotten
    /\ Finish(r, "reconciliation_needed")
    /\ UNCHANGED <<kind, sessionVars, settingVars, spendVars, processVars, owned, historyVars>>

-----------------------------------------------------------------------------
(* Provider operations *)

\* The call is counted, its price reserved and its operation saved as active
\* before the request leaves the computer.
StartExpertCall(c) ==
    /\ task[c] = "calling"
    /\ ExpertCallReady(c)
    /\ LET reserved == IF model = "openai" THEN Reserve ELSE 0
       IN  /\ spent' = spent + reserved
           /\ pending' = reserved
           /\ exposed' = exposed + reserved
    /\ callLimit' = CallAllowance
    /\ calls' = calls + 1
    /\ active' = c
    /\ activeKind' = "expert"
    /\ owned' = TRUE
    /\ task' = [task EXCEPT ![c] = "awaiting"]
    /\ dispatched' = dispatched \union ({c} \ {Cli})
    /\ Saved
    /\ UNCHANGED <<requestVars, status, warnings, settingVars, uncertain, processVars, cliKind, attempt, billed, lost>>

\* The call is refused before anything is sent: a limit, the provider, the status,
\* or a context or manifest outside its bounds.  An expert call binds the limits
\* before most of these checks.
RefuseCall(c) ==
    /\ task[c] = "calling"
    /\ task' = [task EXCEPT ![c] = "raised"]
    /\ \/ UNCHANGED <<callLimit, recovery>>
       \/ KindOf(c) \in ExpertKinds /\ active = Nobody /\ expert /\ callLimit' = CallAllowance /\ Saved
    /\ UNCHANGED <<requestVars, active, activeKind, status, calls, warnings, settingVars, spendVars, processVars,
                   cliKind, attempt, owned, historyVars>>

\* A stage that the reviewed change leaves alone is taken over without a call.
ReuseStage(c, newStatus) ==
    /\ task[c] = "calling"
    /\ KindOf(c) = "generation"
    /\ active = Nobody
    /\ StatusAllows("generation")
    /\ newStatus \in {"building", "built"}
    /\ status' = newStatus
    /\ task' = [task EXCEPT ![c] = "returned"]
    /\ Saved
    /\ UNCHANGED <<requestVars, active, activeKind, calls, callLimit, warnings, settingVars, spendVars, processVars,
                   cliKind, attempt, owned, historyVars>>

\* A usable reply arrives and its price is recorded before its content is judged.
ReceiveReply(c, unused) ==
    /\ Awaiting(c, "expert")
    /\ spent' = spent - unused
    /\ pending' = 0
    /\ billed' = billed + (pending - unused)
    /\ exposed' = exposed - pending
    /\ task' = [task EXCEPT ![c] = "replied"]
    /\ Saved
    /\ UNCHANGED <<requestVars, sessionVars, settingVars, uncertain, processVars, cliKind, attempt, owned,
                   lost, dispatched>>

\* Timeout, transport failure, or a reply that cannot be identified or priced.
FailExpertCall(c) ==
    /\ Awaiting(c, "expert")
    /\ NothingActive
    /\ KeepReservation
    /\ ReplyLost
    /\ task' = [task EXCEPT ![c] = "raised"]
    /\ Saved
    /\ UNCHANGED <<requestVars, status, calls, callLimit, warnings, settingVars, processVars, cliKind, attempt,
                   billed, exposed, dispatched>>

\* The content is accepted.  An accepted specification adds its warnings; an
\* accepted stage may be the last one, or a signoff that closes the work.
AcceptOutput(c, added, newStatus) ==
    /\ task[c] = "replied"
    /\ added > 0 => KindOf(c) = "discussion"
    /\ warnings + added <= WarningLimit
    /\ newStatus # status => KindOf(c) = "generation" /\ newStatus \in {"built", "closed"}
    /\ NothingActive
    /\ warnings' = warnings + added
    /\ status' = newStatus
    /\ task' = [task EXCEPT ![c] = "returned"]
    /\ Saved
    /\ UNCHANGED <<requestVars, calls, callLimit, settingVars, spendVars, processVars, cliKind, attempt, historyVars>>

\* An accepted specification does not fit below the warning limit.  Its save is
\* refused outside the section that records failures: the operation stays active.
RefuseOutput(c) ==
    /\ task[c] = "replied"
    /\ KindOf(c) = "discussion"
    /\ warnings + NewWarnings > WarningLimit
    /\ task' = [task EXCEPT ![c] = "raised"]
    /\ UNCHANGED <<requestVars, sessionVars, settingVars, spendVars, processVars, cliKind, attempt, owned, recovery, historyVars>>

\* The content is invalid: the operation is recorded as failed, and a correction
\* may be asked for while the limit on corrections and the deadline allow it.
RejectOutput(c, retry) ==
    /\ task[c] = "replied"
    /\ retry => KindOf(c) \in {"discussion", "generation"} /\ attempt < CorrectionLimit
    /\ NothingActive
    /\ KeepReservation
    /\ attempt' = IF retry THEN attempt + 1 ELSE attempt
    /\ task' = [task EXCEPT ![c] = IF retry THEN "calling" ELSE "raised"]
    /\ Saved
    /\ UNCHANGED <<requestVars, status, calls, callLimit, warnings, settingVars, processVars, cliKind, historyVars>>

\* What is chargeable apart from a reply still awaited.
LostExposure == exposed - (IF \E c \in Callers : task[c] = "awaiting" THEN pending ELSE 0)

\* The provider bills a request whose reply was lost.
LateBill(price) ==
    /\ LostExposure >= Reserve
    /\ billed' = billed + price
    /\ exposed' = exposed - Reserve
    /\ UNCHANGED <<requestVars, sessionVars, settingVars, spendVars, processVars, taskVars, owned, recovery,
                   lost, dispatched>>

-----------------------------------------------------------------------------
(* Simulation operations *)

StartSimulation(c) ==
    /\ task[c] = "calling"
    /\ SimulationReady(c)
    /\ active' = c
    /\ activeKind' = "simulation"
    /\ owned' = TRUE
    /\ task' = [task EXCEPT ![c] = "awaiting"]
    /\ dispatched' = dispatched \union ({c} \ {Cli})
    /\ Saved
    /\ UNCHANGED <<requestVars, status, calls, callLimit, warnings, settingVars, spendVars, processVars,
                   cliKind, attempt, billed, exposed, lost>>

\* A report, passed or failed: signoff or diagnosis can be generated next.
ReportSimulation(c) ==
    /\ Awaiting(c, "simulation")
    /\ NothingActive
    /\ status' = "building"
    /\ task' = [task EXCEPT ![c] = "returned"]
    /\ Saved
    /\ UNCHANGED <<requestVars, calls, callLimit, warnings, settingVars, spendVars, processVars, cliKind, attempt, historyVars>>

\* Contact with the simulator is lost: the operation stays active on purpose.
FailSimulation(c) ==
    /\ Awaiting(c, "simulation")
    /\ task' = [task EXCEPT ![c] = "raised"]
    /\ Saved
    /\ UNCHANGED <<requestVars, sessionVars, settingVars, spendVars, processVars, cliKind, attempt, owned, historyVars>>

-----------------------------------------------------------------------------
(* Recovery and reviews by a person *)

\* An operation that this process started is never abandoned by it.
AbandonableEvenIfOwned(what) == active # Nobody /\ activeKind = what
Abandonable(what) == active # Nobody /\ activeKind = what /\ ~owned

\* A provider operation is abandoned from the command line only, by the recover
\* command, which never takes a provider.
AbandonExpertCall ==
    /\ CommandFree
    /\ ~expert
    /\ Abandonable("expert")
    /\ WarningFits
    /\ NothingActive
    /\ KeepReservation
    /\ warnings' = warnings + 1
    /\ Saved
    /\ UNCHANGED <<requestVars, status, calls, callLimit, settingVars, processVars, taskVars, historyVars>>

\* Recovery of a simulation reads the session and then waits for the container
\* runtime; the web workspace refuses it while it has any task.
BeginRecovery(q) ==
    /\ process # "down"
    /\ process = "cli" => ~expert
    /\ recovery[q] = "idle"
    /\ \A c \in Callers : task[c] = "none"
    /\ Abandonable("simulation")
    /\ recovery' = [recovery EXCEPT ![q] = "fresh"]
    /\ UNCHANGED <<requestVars, sessionVars, settingVars, spendVars, processVars, taskVars, owned, historyVars>>

\* The container is gone.  The save succeeds only on the state read at the start.
FinishRecovery(q) ==
    /\ LoopFree
    /\ recovery[q] = "fresh"
    /\ WarningFits
    /\ NothingActive
    /\ warnings' = warnings + 1
    /\ recovery' = [p \in Recoverers |-> IF p = q THEN "idle"
                                         ELSE IF recovery[p] = "fresh" THEN "stale" ELSE recovery[p]]
    /\ UNCHANGED <<requestVars, status, calls, callLimit, settingVars, spendVars, processVars, taskVars, historyVars>>

\* The runtime reports a failure, or the save is refused.
FailRecovery(q) ==
    /\ LoopFree
    /\ recovery[q] # "idle"
    /\ recovery' = [recovery EXCEPT ![q] = "idle"]
    /\ UNCHANGED <<requestVars, sessionVars, settingVars, spendVars, processVars, taskVars, owned, historyVars>>

\* A person accepts the full reservation of lost replies as their cost.
ReconcileSpend ==
    /\ process = "web"
    /\ LoopFree
    /\ WriterIdle
    /\ uncertain
    /\ pending = 0
    /\ uncertain' = FALSE
    /\ lost' = FALSE
    /\ Saved
    /\ UNCHANGED <<requestVars, sessionVars, settingVars, spent, pending, processVars, taskVars, owned,
                   billed, exposed, dispatched>>

\* A person selects other provider settings, and whether the provider is enabled.
ConfigureProvider(newModel, limit, enabled) ==
    /\ process = "web"
    /\ LoopFree
    /\ SettingsOf(newModel, limit)
    /\ SettingsAdmissible(limit)
    /\ model' = newModel
    /\ ceiling' = limit
    /\ expert' = enabled
    /\ Saved
    /\ UNCHANGED <<requestVars, sessionVars, spendVars, process, budget, taskVars, owned, historyVars>>

\* A person approves what was shown: a specification or a change, which opens
\* building, an imported baseline, which is complete, or the final acceptance.  The
\* command line does not look at the requests of the web workspace.
ApproveReview(added, newStatus) ==
    /\ \/ process = "web" /\ LoopFree /\ WriterIdle
       \/ CommandFree /\ active = Nobody
    /\ \/ newStatus = "building"
       \/ newStatus = "built" /\ status = "discovery"
       \/ newStatus = "closed" /\ status = "closed" /\ added = 0
    /\ warnings + added <= WarningLimit
    /\ status' = newStatus
    /\ warnings' = warnings + added
    /\ Saved
    /\ UNCHANGED <<requestVars, active, activeKind, calls, callLimit, settingVars, spendVars, processVars, taskVars,
                   owned, historyVars>>

\* The command line saves a specification written without a model.
Propose(added) ==
    /\ CommandFree
    /\ active = Nobody
    /\ status = "discovery"
    /\ warnings + added <= WarningLimit
    /\ warnings' = warnings + added
    /\ Saved
    /\ UNCHANGED <<requestVars, active, activeKind, status, calls, callLimit, settingVars, spendVars, processVars,
                   taskVars, owned, historyVars>>

\* The command line reopens discovery.
Revise ==
    /\ CommandFree
    /\ active = Nobody
    /\ status' = "discovery"
    /\ Saved
    /\ UNCHANGED <<requestVars, active, activeKind, calls, callLimit, warnings, settingVars, spendVars, processVars,
                   taskVars, owned, historyVars>>

-----------------------------------------------------------------------------
(* The specification *)

StartProcess ==
    \E mode \in {"web", "cli"}, newBudget \in CallBudgets :
        \/ StartWithoutProvider(mode, newBudget)
        \/ \E newModel \in Models, limit \in Ceilings \union {NoCeiling} :
               StartWithProvider(mode, newBudget, newModel, limit)

\* Steps of one caller that the event loop takes by itself.
LoopStep(c) ==
    \/ FinishTask(c)
    \/ FailTask(c)
    \/ StartExpertCall(c)
    \/ RefuseCall(c)
    \/ \E newStatus \in Statuses : ReuseStage(c, newStatus)
    \/ \E added \in 0..NewWarnings, newStatus \in Statuses : AcceptOutput(c, added, newStatus)
    \/ RefuseOutput(c)
    \/ \E retry \in BOOLEAN : RejectOutput(c, retry)
    \/ StartSimulation(c)

\* The answers it waits for; every wait has a timeout that ends in a failure.
Answer(c) ==
    \/ \E unused \in 0..pending : ReceiveReply(c, unused)
    \/ FailExpertCall(c)
    \/ ReportSimulation(c)
    \/ FailSimulation(c)

Person ==
    \/ \E r \in Requests, work \in Kinds : Submit(r, work)
    \/ \E r \in Requests : CancelOrphan(r) \/ CancelQueued(r) \/ CancelActive(r)
    \/ \E work \in Kinds : InvokeCli(work)
    \/ AbandonExpertCall
    \/ \E q \in Recoverers : BeginRecovery(q)
    \/ ReconcileSpend
    \/ \E newModel \in Models, limit \in Ceilings \union {NoCeiling}, enabled \in BOOLEAN :
           ConfigureProvider(newModel, limit, enabled)
    \/ \E added \in 0..NewWarnings, newStatus \in Statuses : ApproveReview(added, newStatus)
    \/ \E added \in 0..NewWarnings : Propose(added)
    \/ Revise

Next ==
    \/ StartProcess
    \/ Stop
    \/ Person
    \/ \E r \in Requests : BeginTask(r) \/ EndCancelledTask(r)
    \/ \E c \in Callers : LoopStep(c) \/ Answer(c)
    \/ \E q \in Recoverers : FinishRecovery(q) \/ FailRecovery(q)
    \/ \E price \in 1..Reserve : LateBill(price)

Spec == Init /\ [][Next]_vars

\* The event loop runs every ready callback, the expert and the simulator answer
\* or time out.  Nothing is assumed of people, of recovery or of the process.
Fairness ==
    /\ \A r \in Requests : WF_vars(BeginTask(r)) /\ WF_vars(EndCancelledTask(r))
    /\ \A c \in Callers : WF_vars(LoopStep(c)) /\ WF_vars(Answer(c))

FairSpec == Spec /\ Fairness

-----------------------------------------------------------------------------
(* Properties *)

\* Every variable keeps its type; the counters stay within the code's own limits.
TypeOK ==
    /\ phase \in [Requests -> Phases]
    /\ kind \in [Requests -> Kinds \union {"none"}]
    /\ active \in Callers \union {Nobody}
    /\ activeKind \in {"none", "expert", "simulation"}
    /\ status \in Statuses
    /\ calls \in Nat
    /\ callLimit \in 1..CallCap
    /\ warnings \in 0..WarningLimit
    /\ model \in Models
    /\ ceiling \in Ceilings \union {NoCeiling}
    /\ spent \in Nat
    /\ pending \in {0, Reserve}
    /\ uncertain \in BOOLEAN
    /\ process \in {"down", "web", "cli"}
    /\ budget \in 1..CallCap
    /\ expert \in BOOLEAN
    /\ task \in [Callers -> TaskStates]
    /\ cliKind \in Kinds \union {"none"}
    /\ attempt \in 0..CorrectionLimit
    /\ owned \in BOOLEAN
    /\ recovery \in [Recoverers -> {"idle", "fresh", "stale"}]
    /\ billed \in Nat
    /\ exposed \in Nat
    /\ lost \in BOOLEAN
    /\ dispatched \in SUBSET Requests

\* The call that a process waits for is the operation saved as active, it is owned
\* by that process, and it is the only one: no two calls run, however requests,
\* cancellations, crashes and commands follow each other (_writer_idle, _idle).
OneRunningCall ==
    \A c \in Callers : task[c] \in {"awaiting", "replied"} =>
        /\ active = c
        /\ owned
        /\ c = Cli \/ OpenRequests = {c}
        /\ \A d \in Callers \ {c} : task[d] \notin {"awaiting", "calling"} \union LoopSteps

\* The recorded spend covers what was billed and what may still be billed, through
\* lost replies, cancellations, crashes and abandonment (_generate, _failed, abandon).
SpendCoversBills == billed + exposed <= spent

\* Recorded spend stays within the selected limit (_generate, configure_provider).
SpendWithinCeiling == ceiling # NoCeiling => spent <= ceiling

\* While the cost of a lost priced reply is unknown the session itself remembers
\* it, as a pending reservation or as uncertain spend, across every restart.
LostReplyIsRemembered == lost => uncertain \/ pending > 0

\* No further provider work starts while a lost reply is unaccounted for, and none
\* starts beyond the call limit in force; the limit and the count only tighten.
CallsAreGated ==
    [][ /\ calls' >= calls
        /\ callLimit' <= callLimit
        /\ calls' > calls => ~lost /\ calls' <= callLimit' /\ calls' <= budget ]_vars

\* The active operation is never replaced by another one, and while the process
\* that started it runs, it ends only through the answer of its own call: nothing
\* abandons work started by the same writer (abandon, operation_owned).
ActiveEndsWithItsCall ==
    [][ active # Nobody =>
          /\ active' \in {active, Nobody}
          /\ active' = Nobody /\ owned => task[active] \in {"awaiting", "replied"} ]_vars

\* A settled request is final: no retry, restart, late reply or cancellation
\* changes its recorded outcome or sends it again (_finish, submit_discussion).
SettledIsFinal ==
    [][ \A r \in Requests : phase[r] \in SettledPhases =>
          /\ phase'[r] = phase[r]
          /\ kind'[r] = kind[r]
          /\ active' = r => active = r ]_vars

\* The recorded outcome is true: what is called cancelled never reached the
\* provider or the simulator; what is called completed is over and did reach them,
\* unless it only took over a stage (reconcile_interrupted, request_cancellation).
OutcomesAreTruthful ==
    \A r \in Requests :
        /\ phase[r] = "cancelled" => r \notin dispatched
        /\ phase[r] = "completed" => active # r /\ (kind[r] # "generation" => r \in dispatched)

\* Between submission and the start of its task nothing changes what a queued
\* generation was reviewed against, so it never advances another stage.
QueuedPlanHolds ==
    \A r \in Requests :
        task[r] = "scheduled" /\ phase[r] = "queued" =>
            /\ active = Nobody
            /\ StatusAllows(kind[r])
            /\ kind[r] = "generation" => GenerationReady

\* In a running web workspace an open simulation always has the task that will
\* settle it, so the writer is never blocked by a request nobody works on (for
\* provider requests see ExpertRequestsSettle).  _run_simulation keeps the
\* workspace "blocked until its recorded runtime is reconciled" by recording
\* reconciliation_needed.
OpenSimulationHasTask ==
    process = "web" =>
        \A r \in OpenRequests : kind[r] = "simulation" => task[r] # "none"

\* A provider request that a running web workspace accepted is settled, by its
\* answer, a timeout or its cancellation, unless the process ends first.
ExpertRequestsSettle ==
    \A r \in Requests :
        (process = "web" /\ phase[r] \in OpenPhases /\ kind[r] \in ExpertKinds)
            ~> (phase[r] \in SettledPhases \/ process = "down")

\* The spend record of the session implements the abstract ledger.
Ledger == INSTANCE SpendLedger WITH held <- pending, doubtful <- uncertain
LedgerSpec == Ledger!Spec
==============================================================================
