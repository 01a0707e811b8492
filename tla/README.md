# OpenRTL: a verification project for the design session

OpenRTL helps a person take a hardware design from a conversation to accepted,
simulated RTL. A *project* is a directory with one SQLite session. Experts
(language models, through a provider) propose specifications and artifacts; an
isolated container simulates them; a person approves. The program's promise is
less about what the models write than about what is recorded: one operation at
a time, nothing replayed after a crash, spend never understated, approvals bound
to what was shown, evidence bound to the sources it tested.

This directory states those promises in TLA+, checks them with TLC on small
instances, and proves the central ones with TLAPS for every instance.
Paths below are relative to `src/src/openrtl` unless they start with `docs/`.

## 1. Inventory

### The core: one session, one writer

| component | code | state | operations |
|---|---|---|---|
| session store | `adapters/design_session_store.py`, `domain/design_session.py` | snapshots, blobs and events in SQLite; the file lock; the operations this process started | open (exclusive or read-only), `read`, `save` against the state read before, `upgrade` |
| design agent | `application/design_agent.py` | none of its own but the policy; everything it changes is in the session | `discuss`, `explain`, `analyze`, `propose`, `propose_improvement`, `approve*`, `revise`, `advance` (stages, simulation, diagnosis, signoff), `abandon`, provider settings and reconciliation |
| provider controls | `domain/provider_controls.py`, `domain/design_session.py:272` | model, limit, spent, pending reservation, uncertain | reserve, settle, keep in doubt, retain, change the limit |
| web workspace | `application/design_workspace.py` | one asyncio task per request; the saved phase of every request | four `submit_*`, the four `_run_*` tasks, `request_cancellation`, `reconcile_interrupted`, `abandon_interrupted_simulation`, `approve_review` |
| HTTP adapter | `adapters/design_web.py` | event loop, thread, expert and key in memory | start, activate, configure the provider, every request of the browser, close |
| command line | `design_cli.py`, `session_cli.py` | one invocation | the agent's operations, `recover`, batch |
| batch delegation | `application/design_batch*.py`, `domain/design_delegation.py` | delegation, steps, deadline in the session | bind, step, report |
| conversation and reviews | `application/design_conversation.py`, `design_local_review.py`, `domain/design_coaching.py` | the card last shown, in memory | show, approve what was shown, revoke |
| imports, baseline, change | `application/design_import_workflow.py`, `domain/design_imports.py` | imports, baseline and change plan in the session | import, approve a baseline, approve a change |
| simulator container | `adapters/design_simulation.py`, `_design_runner.py`, `workload_transport.py` | run directory, intent file, containers of the daemon | stage, probe, create, start, remove; recovery by recorded intent |
| diagnostics and traces | `application/design_diagnostics.py`, `adapters/design_trace_store.py` | capped private trace | observe a call, record, omit |

They interact through the session record alone: every operation reads it,
decides, and saves a new one in a transaction that fails if another save came in
between. The browser, the command line and the batch runner are three ways to
call the same agent. The provider and the container daemon are outside, and both
may go on working after the program has lost them.

### The repair chain of the packaged examples

| component | code | state | operations |
|---|---|---|---|
| expert invocation | `adapters/expert_source_edits.py`, `adapters/expert_invocation.py`, `adapters/provider_invocation.py` | artifacts: request, provider plan, envelope, response, suggestion, invocation, execution | prepare, plan, approve, invoke (scripted or paid), accept a response from a file |
| qualification | `adapters/provider_qualification.py`, `adapters/qualified_provider_application.py` | artifacts: edit plan, planning and qualification reports | qualify by lineage, apply what was qualified |
| source edit application | `adapters/source_edit_application.py` | a candidate beside the source | draft a plan, apply it |
| candidate promotion | `adapters/candidate_promotion.py` | the production source, the receipt | plan, approve, replace, confirm |
| commands | `cli.py:760-1338`, `cli.py:1558-1625` | which outputs are still to be written | compare with what exists, write what is missing |

Nothing is locked here: each command is a process that reads artifacts, checks
them against each other by digest, and writes its own.

### The managed backend

`adapters/managed_backend.py` (life cycle of a virtual machine this program owns),
`adapters/guest_retirement.py` with `adapters/lima_retirement_ports.py` (removal of
the socket a stopped machine left), `adapters/lima_managed.py` (the audit of
executable, configuration and image). State: two journals of operations, a lock
file, and the machine itself, which no lock protects.

### Debug sessions

`adapters/fifo_debug.py` and `adapters/skid_buffer_debug.py` judge a recorded
waveform edge by edge against the contract of the block; the FIFO's keeps a queue
of the words that should be inside. Their findings start the repair chain.

### Portable packages

| component | code | state | operations |
|---|---|---|---|
| admission of evidence | `adapters/verified_simulation.py` | the source, its retained evidence | check evidence against the source, build a candidate |
| portable catalog | `adapters/portable_catalog.py`, `domain/packages.py` | a directory for each version, and a temporary one | store, read against a digest, install one package |
| dependency closure | `adapters/package_closure.py`, `application/package_closures.py` | the lock file and its temporary file; the workspace and its temporary directory | resolve, write and read a lock, install a closure |
| commands | `cli.py:615-752`, `tools/composed_package_case.py` | | one process each, without a lock |

### Not modelled

Provider SDK adapters of the design session; the local catalog of manifests;
export and portable sessions; the one-shot simulations of the examples; onboarding and
argument parsing; the immutable records of the first milestones; the browser's
script. `PROJECT.json` lists each with its files and the reason.

### What is hard here

* Four saves make one request: queued, active, operation started, settled. A
  crash, a cancellation or an error may fall between any two.
* Replies get lost after they were paid for.
* Cancellation stops the local task only; the remote work may go on.
* A restart must tell "never sent" from "perhaps sent".
* The web workspace and the command line alternate on one session, and the
  command line ignores the web workspace's requests.
* Recovery waits for the container runtime between its read and its save.
* Bounded lists (requests, warnings) that nothing ever shortens.
* A person approves what was shown earlier, and reviews a plan that is carried
  out in a later callback.
* A finished design is changed, repaired, revised or replaced by an import, and
  evidence, manifest, scope and approvals must each be dropped or kept rightly.
* The stages that judge an implementation must not have seen it, also when they
  run again over a design that has one.
* A batch acts for a person who is not there, within a delegation and a deadline.
* Artifacts of several generations write to the same names, without a lock, and a
  crash may leave one of them in part.
* The machine that owns a socket may be started between the last look at it and
  the removal of the socket, by another call or by a command that its dead call
  has left behind; and after a crash only an observation can tell
  whether the removal took place.
* Two processes store the same version, or write the same lock, and what was checked
  when an installation was admitted may have changed when it is copied.
* An analyzer must agree with the RTL in every cycle, full and empty, wrapping and
  in reset, or it blames a correct design or clears a wrong one.

`PROJECT.json` "hazards" names each at its line with the properties that would
catch it.

## 2. Modules

| module | models | extended or instantiated by |
|---|---|---|
| `SpendLedger` | the abstract promise of the provider spend record | `DesignWorkspace` (refinement), `SpendLedger_proofs` |
| `DesignWorkspace` | web workspace, command line, agent operations, spend, crash, restart, recovery | `MCDesignWorkspace`, `DesignWorkspace_proofs` |
| `DesignSession` | stages, artifacts, evidence, repairs, approvals, changes, imports, revision, batch | `MCDesignSession`, `DesignSession_proofs` |
| `SimulationRuntime` | selection and self-test of a container runtime, the commands of a simulation, the daemon, recovery | `MCSimulationRuntime`, `SimulationRuntime_proofs` |
| `ManagedBackend` | life cycle and retirement of an owned virtual machine | `MCManagedBackend`, `ManagedBackend_proofs` |
| `RepairChain` | expert, qualification, application and promotion of a repair | `MCRepairChain`, `RepairChain_proofs` |
| `FifoDebug` | the FIFO's source, its analyzer, an observer of its interface | `WaveformDebug` (EXTENDS) |
| `SkidBufferDebug` | the same for the skid buffer | `WaveformDebug` (INSTANCE) |
| `WaveformDebug` | the debug commands: either analyzer | `SessionlessCommands` (EXTENDS), `WaveformDebug_proofs` |
| `PackageCatalog` | storing, locking and installing of packages | `SessionlessCommands` (INSTANCE) |
| `SessionlessCommands` | the command line without a session: debug commands or package commands | `MCSessionlessCommands`, `SessionlessCommands_proofs` |
| `MCDesignWorkspace`, `MCDesignSession`, `MCSimulationRuntime`, `MCManagedBackend`, `MCRepairChain`, `MCSessionlessCommands` | constants for TLC | |
| `SpendLedger_proofs`, `DesignWorkspace_proofs`, `DesignSession_proofs`, `SimulationRuntime_proofs`, `ManagedBackend_proofs`, `RepairChain_proofs`, `WaveformDebug_proofs`, `SessionlessCommands_proofs` | theorems and proofs | |

### SpendLedger

Six variables: the limit (`ceiling`), the recorded spend (`spent`, which includes
reservations), the reservation of the request in flight (`held`), whether the
cost of an earlier request is in doubt (`doubtful`), and two that the program
cannot see: what the provider has charged (`billed`) and may still charge
(`exposed`). `Hold`, `Settle`, `Doubt`, `Retain` and `SetCeiling` are the
five ways the code changes the record; `LateBill` is the provider's. One assumption about the outside is built in: a
request is charged at most its reservation (`request_reserve_nano` prices the
whole context window and the largest output, and `_generate` refuses a reply
whose usage exceeds it).

### DesignWorkspace

State, and where it lives in the code:

| variables | code |
|---|---|
| `phase`, `kind` | `workspace_operations[id].phase`; the action inside `request_digest` |
| `active`, `activeKind` | `state["active"]`; `active` names the caller instead of the random operation identifier |
| `status` | `status`, `stage` and `manifest`, abstracted: `discovery`; `building` (every state in which `advance` asks an expert); `built` (building with all stages complete: `advance` simulates); `closed` (review_blocked, awaiting_acceptance, accepted) |
| `calls`, `callLimit`, `warnings` | the counters of the session, `limits.max_calls`, the length of `warnings` |
| `model`, `ceiling`, `spent`, `pending`, `uncertain` | the `provider` record |
| `process`, `budget`, `expert` | which process holds the lock, its `policy.max_calls`, whether it was given an expert |
| `task`, `cliKind`, `attempt` | where each coroutine is; the correction it is making |
| `owned` | `store._owned_operations` |
| `recovery` | `abandon` calls that wait for the runtime, and whether the session has been saved since they read it |
| `billed`, `exposed`, `lost`, `dispatched` | outside the program, or history for properties |

Granularity. One event loop runs all handlers of a process, so code between two
awaits runs undisturbed by other handlers, but not by a crash: each save is an
action of its own, and `Stop` is enabled between any two. While a coroutine is
inside such a section (`LoopSteps`), only it and `Stop` may move (`LoopFree`
guards every other handler). The waits are: a task not yet started
(`scheduled`), a provider or simulator answer (`awaiting`), the cleanup of a
cancelled call (`cancelling`), and recovery.

Actions: `Submit`, `BeginTask`, `FinishTask`, `FailTask` (the saved request and
its task); `CancelOrphan`, `CancelQueued`, `CancelActive`, `EndCancelledTask`;
`StartExpertCall`, `RefuseCall`, `ReuseStage`, `ReceiveReply`, `FailExpertCall`,
`AcceptOutput`, `RefuseOutput`, `RejectOutput` (one expert call, from the count
and the reservation to the verdict on its content); `StartSimulation`,
`ReportSimulation`, `FailSimulation`; `AbandonExpertCall`, `BeginRecovery`,
`FinishRecovery`, `FailRecovery`; `ReconcileSpend`, `ConfigureProvider`,
`ApproveReview`, `Propose`, `Revise`, `InvokeCli`; `StartWithProvider`,
`StartWithoutProvider`, `Stop`; and the provider's `LateBill`. The module's
comments say which code each stands for, and `PROJECT.json` "map" gives the
lines.

Abstractions: texts, digests and revisions are not represented. A revision
matters in two places and is replaced there by what it decides: a recovery's
read is `stale` after any save, and a generation's plan is rechecked when its
task begins. A verdict about content (discovery, stages, signoff) is a free
choice between acceptance and rejection.

### DesignSession

What `DesignWorkspace` reduces to `status` and a free verdict. The two modules are
two views of the same agent: one has calls, tasks and money, the other has what
the calls are about.

| variables | code |
|---|---|
| `status`, `stage`, `spec`, `approvedSpec`, `files`, `manifest`, `imports` | the fields of the session of these names; a digest is the thing it is a digest of |
| `simulation`, `review` | the last report with the input it was made from, and the signoff verdict |
| `baseline`, `changePlan`, `proposal` | the adopted import, the scope in force, a change not approved; all three are plans |
| `approvalMode`, `acceptanceMode`, `repairs`, `repairLimit`, `delegation` | the fields of these names; `repairLimit` is `limits.max_repairs`, or the cap until it is bound |
| `active`, `caller` | what the operation in flight is for; whether this process waits for it, started it and no longer waits (`gone`), or did not start it |
| `repairBudget`, `batch`, `contracts`, `late` | the process: its policy, the batch loop, whether a policy started it; and whether the deadline has passed |
| `shown` | `ShownReview` or `LocalReview`: the card a person looks at. Every save changes the revision and so the digest of the state; the card is gone then |
| `sanction`, `derived` | history for properties: what a person saw at the last approvals; artifacts written from a context that showed RTL, a report, or such an artifact |

A specification is a record of what the program tells apart in it: scope, open
questions, assumptions, whether it has ports, and readiness (`absent` in a legacy
specification). A manifest is the requirements it links, the RTL sources, the
test modules and the rest of the workload. All RTL paths stand for `.sv` and `.v`
files.

Actions: `Propose`, `Revise`, `ImportFiles`, `Show`, `ShowLocal`, `SavePreference`;
the approvals `ApproveSpecification`, `ApproveAcceptance`, `ApproveProposal`,
`ApproveLocalChange`, `ApproveBaseline`, `ApproveCompletion` and those with a typed
digest (`...ByDigest`); `BindLimits`, `StartExpert`, `FailExpert`, `AcceptAdvice`,
`AcceptDiscovery`, `AcceptStage`, `AcceptRepair`, `AcceptSignoff`, `AcceptProposal`,
`ReuseStage`; `StartSimulation`, `CompleteSimulation`, `FailSimulation`; `CancelWait`,
`Abandon`, `Restart`; `BindDelegation`, `StartBatch`, `BatchStep`, `EndBatch`,
`BatchApproves`, `BatchAccepts`, `BatchRefused`, `BatchTimeout`, `DeadlinePasses`.

`save` validates the whole state before it commits. The handlers here are not
guarded by that (but for `AdoptBaseline`, which relies on it), so `SessionConsistent`
and `EvidenceCurrent` say that the validation never has to refuse what a handler
made. Corrections of an invalid reply are not separate steps: between two of them
nothing else can run, and a crash there is a failure and a restart.

Limits of the abstraction: a change proposal may carry words of an implementation
into the specification, which `derived` does not follow; acceptance in the
conversation also reverifies the retained bytes of the run, which is
`Measurable` in `SimulationRuntime`.

### SimulationRuntime

Behind the one answer that the agent waits for in a simulation: a chain of
commands, each a process of its own with a timeout, sent to a container daemon
and, with a workload transport, to a guest. The self-test of a runtime and a
simulation of a design run through the same chain.

| variables | code |
|---|---|
| `selection`, `receipt`, `writer` | `runtime.json`, `runtime-selftest.json` and the holder of `.runtime.lock` |
| `design`, `active`, `adopted` | a process of the design session with the profile and transport it was started with, on either way of naming them; the session's active simulation; the operation of the report it holds |
| `run`, `intents`, `evidence` | the run directory: what the operation was begun with, whether `intent.json` is durable, `evidence/report.json` |
| `phase`, `probed` | the client: the command it waits for, and whether the probe has answered |
| `cleaning` | how far `abandon` is |
| `container`, `guestCopy`, `late` | outside: containers by name, the directory in the guest, and commands whose client is gone and which may still be carried out |
| `tested`, `abandoned`, `straggled` | history for properties |

Actions: `Select`, `BeginSelfTest`, `StartSelfTest`, `RefuseSelfTest`, `PassSelfTest`,
`FailSelfTest`, `BeginRecovery` (the runtime commands, under the lock);
`OpenDesign`, `OpenExplicit`, `Simulate`, `AcceptReport`, `BeginAbandon` (the session);
`WriteIntent`, `FailStaging`, `Complete`, `ReceiveProbe`, `ReceiveResults`,
`LoseCommand` (one simulation); `CleanContainer`, `FailCleaning`, `Recover`, `Abandon`
(recovery); `DaemonStarts`, `ContainerExits`, `CarryOutLate` (the daemon);
`StopDesign`, `StopRuntimeCommand` (the end of a process at any point).

`Complete` is the success of any command but a start, and `Following` says what
comes next; `LoseCommand` is every failure, refusal, timeout or cancellation of a
command, and `AfterFailure` says where the `finally` blocks lead. What a command
does is the same whether it is answered or late (`CarryOut`). Whether the daemon
sees what was copied into the guest is fixed when a run begins and unknown to the
program: only the probe finds out.

A session comes to a simulator in two ways (`design_cli.py:484-500`). With
`--runtime-state` (`OpenDesign`) it takes the selected version-2 profile, if its
self-test passed with the same transport. With `--simulation-profile`
(`OpenExplicit`), the way of `docs/design-agent-alpha.md:64-89`, it takes a version-1
profile (`Explicit`) from a file: there is no receipt, no self-test and no guest, a
version-2 profile is refused, and `FirstCommand` goes without the inspection of
the daemon. `SimulatesOnlyTested` says what each way promises. On the local
daemon the staged inputs are visible (`HostLocal` implies `sees`), as the code
presumes by probing only with a transport.

Abstractions: a profile is its digest, so that a changed executable, socket,
daemon or image is a failing command. The payload of the runner is unusable, passing or
failing. Operation identifiers are fresh: a recovered operation is never begun
again. A session under another profile or transport than the recorded one cannot
recover an operation; that includes a session whose daemon was restarted with
another socket. An operation whose process ends before `intent.json` is durable
cannot be recovered at all: the documentation asks for manual reconciliation.

### ManagedBackend

| variables | code |
|---|---|
| `vm`, `forward`, `issued`, `held`, `lockId` | outside: what `limactl list` reports, the identity of `workspace.sock`, how many there have been, whether a guest service still holds `.service.lock`, that file's identity |
| `closure` | the version of executable, configuration and image, that is, what `audit_lima_artifact_closure` digests |
| `lifecycle`, `retirement` | the last record of the two AgentRig journals |
| `pc`, `plan` | each process: where it stands and what it was reviewed with |
| `late` | commands (`prepare`, `start`, `stop`) that Lima was given by calls that are gone, and may still carry out |
| `removals`, `overtaken` | history for properties: the removals, and the calls since whose last look a late command was carried out |

Actions: `PlanManaged`, `PlanRetirement`; `ApplyManaged`, `RecordManaged`, `Drive`,
`SettleManaged`; `Bind`, `OpenJournal`, `EnterFence`, `VerifyQuiescent`, `RetireSocket`,
`ObserveRetired`, `LeaveFence`, `SettleRetirement`; `Fail` (any check that refuses, any
timeout, the death of the process); `ServiceExit`, `ForwardVanishes`,
`EditArtifacts`, `ReplaceLock`, `CarryOutLate` (the world). The journals, `limactl` and the exact
removal of a socket are AgentRig's and Lima's: they are modelled from the way this
code and its tests use them and marked external. Nobody is assumed to start the
machine by hand, as the documentation asks; a removal goes by name, so that
`RemovedAsReviewed` rests on the fence alone.

The fence is a `flock` of the process (`managed_backend.py:206-219`). When the call
dies, or gives up on a timeout, the fence is free, but a `limactl` it has launched
need not be over: `Fail` may leave its command in `late`, and `CarryOutLate` carries
it out at any later moment, inside any fence, or never. A retirement does not read
the life cycle journal, in which such a call is still uncertain
(`lima_retirement_ports.py:328-351`), so a late start may run the machine between the
last look and the removal. The run reaches this, and `RemovedAsReviewed` promises
nothing of a removal so overtaken; nor does `SettledIsTrue` say then which
socket the completed call removed. Against calls that live both hold, at any
interleaving, and so does that a settled retirement's socket is gone for good.

### RepairChain

`file` maps every artifact name to its content; a digest in an artifact is the
content it digests, and a source is the set of the edits made to it. `approved`
holds the contents whose digest a person gave to a command; `command` is where each
process stands; `runs` and `promotions` are history. A command reads and checks in
one step (`Begin`), then compares its outputs with what exists (`CheckOutputs`) and
writes the missing ones one by one (`WriteOutput`), as `_write_exact_repair_outputs`
does; the candidate and the report of an unqualified application have their own
ways (`WriteCandidate`, `WriteReport`), and the production source is replaced
through a temporary file (`ReplaceTarget`, `ConfirmTarget`).

Actions: `PrepareRequest`, `PlanProvider`, `Generate`, `Reply`, `NoReply`,
`AcceptResponse`, `DraftEdits`, `Qualify`, `ApplyReviewed`, `ApplyQualified`,
`PlanPromotion`, `PreparePromotion`; around them `Diagnose`, `Answer`, `Verify`
(steps of `tools/fifo_repair_application_case.py` and of people), `Approve`, `Crash`,
`EditByHand`, `Discard`. That an approval comes before what it allows is a statement
about every state: `runs` grows in the step in which a generation begins, and
`approved` only grows, so a billed run whose plan is in `approved` in every state
was approved when it began. `Trouble` bounds crashes, hand edits, removed attempts and
commands started beside another.

### FifoDebug, SkidBufferDebug, WaveformDebug

A step is one rising edge. The waveform is either that of the RTL source in
`examples/` (`correct`: `RtlEdge`, with any inputs) or that of any design whose status
signals change at clock edges only (`AnyEdge`): the analyzer samples before and after
each edge, and in the model what it samples before one is what it sampled after the
last. The analyzer (`Analyze`, `Shown`) sees the signals before and after the edge, as
the code does; an observer who knows only what the block promises at its interface
queues the words of a FIFO and counts those of a skid buffer by itself (`Observe`).
Signals are known at each edge, the interval starts with the trace, and a trace is
followed to its first edge with a finding.

### PackageCatalog, SessionlessCommands

| variables | code |
|---|---|
| `source`, `evidence` | the RTL of a design and the text that its retained passing simulation names |
| `bundle`, `staged` | `<package>/<version>` in the catalog and `.<version>.openrtl-tmp` beside it |
| `lock`, `lockTemp` | a lock file and its temporary file; the lock is the packages in install order |
| `workspace`, `workTemp` | the target of an installation with the lock its receipt names, and its temporary directory |
| `receipts`, `issued` | digests of manifests and locks that commands printed, and people give to the next ones |
| `command` | each process: where it stands and what it has read |
| `trouble` | bound on crashes, edits, altered and removed files |

A package names its dependencies by digest: here it holds them, and so every digest
is the content it digests. What lies under a name is absent, torn, or whole.

Actions: `VerifySource`, `BuildCandidate`, `Compose`, `ChooseTarget`, `MakeBundle`,
`CopyBundle`, `PublishBundle`, `ReportReceipt` (storing); `Resolve`, `OpenLock`,
`FillLock`, `RenameLock`, `ReportLock` (locking); `BeginInstall`, `BeginInstallOne`,
`MakeWorkspace`, `InstallNext`, `PublishWorkspace` (installing); `Crash`, and around
them `EditSource`, `Simulate`, `SpoilBundle`, `SpoilLock`, `RemoveWorkspace`,
`DiscardStaged`, `DiscardLockTemp`, `DiscardWorkTemp`.

Between the look for a target and its creation other processes may move, and after
each file operation a process may die. A file that is open moves with a rename, so
`FillLock` may write into what another command has already published (`Moved`), and
may leave the tail of a longer content (`Written`).

Abstractions: the files of a package are one text, and reading all packages of a
closure is one step, since each is compared with a digest known beforehand.
Parameters are left out of compatibility. `Compose` is the producer's half of
`tools/composed_package_case.py`: built on packages with receipts, simulated from
copies. The install order is a recursive function over the packages, which exists
because a package cannot contain itself; the code's check for cycles is for digests
that collide.

The two kinds of commands share nothing. `SessionlessCommands` runs one or the other,
so that a single run covers both.

## 3. Properties

| property | says | of |
|---|---|---|
| `TypeOK` | types, and the counters within the code's limits (a save beyond them is refused) | state |
| `OneRunningCall` | the call a process waits for is the saved active operation, owned by this process, and alone | state |
| `OutcomesAreTruthful` | "cancelled" was never sent; "completed" is over and was sent, or only took over a stage | state |
| `SettledIsFinal` | a settled request keeps its outcome and is never sent again | steps |
| `ActiveEndsWithItsCall` | an operation is never replaced; its own process ends it only by its own answer | steps |
| `QueuedPlanHolds` | a queued generation is still what was reviewed | state |
| `SpendCoversBills` | billed and still chargeable amounts are within the record | state |
| `SpendWithinCeiling` | the record is within the limit | state |
| `LostReplyIsRemembered` | a lost priced reply is pending or uncertain in the session | state |
| `CallsAreGated` | no call while a lost reply is unaccounted for, nor beyond the limits; the limits and the count only tighten | steps |
| `LedgerSpec` | the workspace implements `SpendLedger` | behaviours |
| `ExpertRequestsSettle` | an open provider request is settled, unless the process ends | liveness |
| `DesignSession!TypeOK` | types; no more repairs than the cap | state |
| `SessionConsistent` | approval, manifest and baseline always agree with the files, the imports and the specification, so that no save has to be refused and no session becomes unreadable | state |
| `EvidenceCurrent` | signoff and acceptance rest on a passing report about exactly this design | state |
| `ChangeScopeKept` | files outside the reviewed scope of a change stay as reviewed | state |
| `VerificationIsIndependent` | no model, test or document is written from a context with RTL or a report, or with something that was | state |
| `ApprovedWasReviewed` | what a person approved or accepted is what that person saw | state |
| `DelegationBinding` | unattended approval stays within what was delegated | state |
| `RepairsBounded` | a saved repair limit never widens and no repair exceeds it | steps |
| `BatchEnds` | a batch ends, whatever provider and simulator do | liveness |
| `SimulationRuntime!TypeOK` | types; an operation has commands only once it was begun | state |
| `UnsettledKeepsSelection` | an interrupted self-test is never stranded by another selection | state, proved (section 5) |
| `NotStartedLeftNothing` | what a receipt calls not started has nothing anywhere, and nothing under way | state |
| `SimulatesOnlyTested` | a version-2 profile simulates only over a transport with which it passed a self-test, a version-1 profile only on the local daemon | state |
| `RunsOnlyVisibleInputs` | design code runs only where the daemon sees the staged inputs | state |
| `EvidenceIsComplete` | accepted evidence is of a run that ended by itself, was cleaned up, was never recovered, and to which nothing can happen any more | state |
| `SettledIsClean` | a settled operation has nothing that runs, and nothing left but what a late command brought back after its recovery began | state |
| `CallsEnd` | every simulation ends, whatever the daemon does | liveness |
| `ManagedBackend!TypeOK` | types; a plan lives as long as its process | state |
| `SettledIsTrue` | the socket of a settled retirement is gone for good; "completed" is said only by an operation that removed it, or what a late command had put in its place after the last look | state |
| `RemovedAsReviewed` | what is removed is the reviewed socket, of a stopped machine, unless a command of a call that is gone was carried out after the last look | steps |
| `RepairChain!TypeOK` | types; the production source is whole at every moment | state |
| `PromotedIsVerified` | what is promoted passed its simulation and is the target with the qualified edits, nothing else | state |
| `PromotedIsReviewed` | no generation is billed, and no qualified application written, before its approval; a promotion has three approvals along one such line | state |
| `QualifiedIsOneRun` | artifacts of two generations never qualify together | state |
| `ReceiptIsTrue` | a receipt is left only for a replacement that took place | state |
| `NoFalseFinding` | the analyzer finds nothing in a simulation of the block's source | state |
| `CleanTraceConforms` | without a finding, the interface behaved as the block promises since the first reset (status signals change at edges only; the skid buffer's words are counted) | state |
| `ReceiptsHold` | a version whose digest was reported stays in the catalog as reported, unless a person alters it | state |
| `WorkspaceIsClosed` | what is installed is what its lock says, a lock some command reported, of reported packages, each after all it was built on and none without use | state |

## 4. Runs

Every run takes its constants from a `.cfg`; the MC modules only name small
sets. Deadlock is not checked: for the workspace, a
session may stop for good when its bounds are reached and no process is started
(`CallBudgets` may be empty of useful values, the warning list full).

| run | instance | result |
|---|---|---|
| `workspace` | 2 requests (symmetric), command line, 1 recovery; limit 1, call cap 2, 1 correction, 1 warning; any number of crashes and restarts | passes, about 1.3 million states |
| `spend` | 1 request, command line, 1 recovery; reservation 2, limits 3 and 4, call budgets 1 and 2 | passes, about 1.3 million states |
| `settle` | 2 requests, command line, local provider, 1 call, no recovery; `FairSpec`, no symmetry | passes, about 0.1 million states |
| `session` | 4 paths (one text each, two for the RTL), 2 specifications (one not ready), 3 write scopes, imports of up to 3 files, 1 repair; no delegation | passes, about 0.2 million states |
| `batch` | 6 paths, 3 specifications (a question, its assumption, another scope), 2 delegations, repair policies 0 and 1; no imports, no changes; `FairSpec` | passes, about 0.4 million states |
| `review` | as `session` | violation, see section 6 |
| `runtime` | 2 operations, 2 profiles of version 2 and 1 of version 1, a host and a guest transport; any number of crashes, failures and late commands; `FairSpec`; constraint `InOrder` | passes, about 1.1 million states |
| `measure` | as `runtime`, 1 profile | violation, see section 6 |
| `orphan` | 1 request | violation, see section 6 |
| `managed` | 2 processes, 2 operation identifiers (both symmetric), 2 sockets, 1 change of artifacts or lock, 1 late command of each kind; any number of deaths; constraint `LateMatters` | passes, about 4.4 million states |
| `repair` | 2 processes (symmetric), 3 answers of the expert, 2 generations, 1 trouble | passes, about 0.9 million states |
| `sessionless` | FIFO of depth 2, words 0 and 1, level up to 3; skid buffer with the same words; or 2 processes (symmetric), 3 packages in a diamond, 1 trouble | passes, about 0.6 million states |

Why these bounds. Two requests are the fewest with which one can be open while
another is submitted, and `_writer_idle` keeps a third from meeting them. The
command line adds a caller without a saved request. Reservation 2 with limits 3
and 4 gives a limit below two reservations and one that is equal to two, so the
second request is refused in one and exact in the other; a reply may release 0,
1 or 2 units. Call cap 2 with budgets 1 and 2 lets a restart widen or tighten
the policy. One correction is the shortest loop. Warning limits of 1 or 2 are
reached by one abandonment or one accepted specification. Crashes and restarts
are not bounded.

For `DesignSession`: `session` starts from imports, where a baseline with one file
per directory is adopted at once and a design is completed from RTL alone, so that
changes, repairs, revisions and second changes are reached with four paths. The
three scopes leave out the RTL, everything but the RTL, or the documents, so every
stage is both written and reused. Two texts for the RTL are what a repair needs.
`batch` starts from nothing and has a path for each stage. One delegation forbids
changed requirements, repairs and final acceptance, the other allows them; their
two and three steps are fewer than a design needs, and a person goes on by hand in
between. Two repair policies let a restart widen or narrow the limit. Neither is
checked for deadlock: an interrupted session may have no one to recover it.

For `SimulationRuntime`: two operations are a self-test and a design's simulation,
or two self-tests with another selection in between; both may be unresolved at
once, one under the lock and one in the session. Each may be recovered, and each
recovery interrupted, any number of times. Operations are used up, so the system
may stop and deadlock is not checked. `InOrder` cuts off mirror images: identifiers
of operations are random and nothing tells the two version-2 profiles apart, so
that `o1` may as well begin first, and `p2` be selected once something names `p1`.
(A self-test that was never started is the one trace of a profile that vanishes;
it leaves a receipt that the next self-test overwrites.)

For `ManagedBackend`: two processes are a retirement and a life cycle call, two
retirements, or a retirement and its recovery; two identifiers let a settled one be
used again or replaced; the second socket is the live one of a machine that was
started again. One late command of each kind at a time is a bound; each can be left
again once it was carried out. `LateMatters` cuts off states with a late command that
can never be carried out any more: each is, but for that command, a state of the run.
For `RepairChain`: the answers are a repair, an edit that repairs nothing, and two
edits that are out of order; two generations are the fewest that can mix, and one
trouble is enough for each way in which they can. For the debug sessions: depth 2
wraps both pointers, and a queue of two words with two values shows loss, repetition
and reordering; one level beyond the depth lets a design break the bound. The FIFO is
proved for every depth (section 5). For `PackageCatalog`: in the diamond the order by
identifiers is not an order of installation, and the package in the middle is needed
twice; two processes are enough for every race for a name, and one trouble for a
crash, an edit or an altered file. The version of an identifier is unique here: pins
that conflict would need a second version. In these a process, a repair, a trace or a
catalog may come to its end, and the system stops.

Fairness (`FairSpec` of `DesignWorkspace`). Weak fairness of each task's steps, because asyncio runs
every ready callback, and of each answer, because every wait in the code has a
timeout: the provider adapters' `timeout_seconds`, the simulator's process
timeouts. Nothing is assumed of people, of recovery, of restarts, or that the
process survives; `ExpertRequestsSettle` therefore allows the process to end.

Fairness (`FairSpec` of `DesignSession`). The clock runs; the batch loop goes on
while it may; a step runs until it waits for a reply, because no code in between
blocks; `asyncio.wait_for` interrupts a wait when the deadline has passed. No reply
is promised, so that `BatchEnds` rests on the deadline and the step count alone.

Fairness (`FairSpec` of `SimulationRuntime`). The client goes on, because each of
its commands has a timeout (`asyncio.wait_for` in `_execute_process` and in the
transport's `_run`). Nothing is assumed of the daemon: no container need ever start
or end.

### Mutants

Just before some definitions a module holds a faulty variant that no action
uses. Put in place of the definition, it must violate the named property:

| property | definition | variant | the bug it stands for |
|---|---|---|---|
| `TypeOK` | `WarningFits` | `WarningFitsOffByOne` | one warning too many |
| `OneRunningCall` | `WriterIdle` | `WriterIdleIgnoringRequests` | only `active` is looked at |
| `OutcomesAreTruthful` | `Reconciled` | `ReconciledAsCancelled` | a restart calls everything cancelled |
| `QueuedPlanHolds` | `SettingsAdmissible` | `SettingsAdmissibleWhileOpen` | settings change under a queued request |
| `ExpertRequestsSettle` | `Reconciled` | `ReconciledQueuedOnly` | a restart forgets active requests |
| `ActiveEndsWithItsCall` | `Abandonable` | `AbandonableEvenIfOwned` | the ownership check is dropped |
| `SettledIsFinal` | `Finish` | `FinishOverwriting` | the settled check is dropped |
| `SpendCoversBills` | `KeepReservation` | `ReleaseReservation` | a failed call is refunded |
| `LostReplyIsRemembered` | `KeepReservation` | `ForgetReservation` | the doubt is not recorded |
| `SpendWithinCeiling` | `Affordable` | `AffordableWithoutReserve` | the reservation is not counted |
| `CallsAreGated` | `ProviderReady` | `ProviderReadyWhenUncertain` | the doubt is not looked at |
| `LedgerSpec` | `SettingsAdmissible` | `SettingsAdmissibleBelowUse` | the limit is lowered below the record |
| `DesignSession!TypeOK` | `RepairsLeft` | `RepairsLeftUnlimited` | the repair budget is not looked at |
| `SessionConsistent` | `ManifestAfterReuse` | `ManifestAfterReuseKept` | the last stage is reused and the manifest forgotten |
| `EvidenceCurrent` | `StatusAfterRun` | `StatusAfterAnyRun` | a failed run leads to signoff |
| `ChangeScopeKept` | `InRepairScope` | `InRepairScopeOfDirectory` | a repair is bounded by the directory only |
| `VerificationIsIndependent` | `Invalidated` | `InvalidatedReviewOnly` | a change keeps the old report |
| `ApprovedWasReviewed` | `PlansAfterRevision` | `PlansAfterRevisionKeepingChange` | a revision keeps the change plan |
| `DelegationBinding` | `DelegationCovers` | `DelegationCoversIgnoringSeed` | the seed is not compared |
| `RepairsBounded` | `RepairAllowance` | `RepairAllowanceOfPolicyOnly` | a restart with a larger policy widens the limit |
| `BatchEnds` | `WaitIsBounded` | `WaitIsBoundedForRunsOnly` | the deadline cuts simulations only |
| `SimulationRuntime!TypeOK` | `Pending` | `PendingAnything` | the end of a process leaves a command that was never sent |
| `NotStartedLeftNothing` | `StartSelfTest` | `StartSelfTestUnsaved` | "running" is not saved before the run |
| `SimulatesOnlyTested` | `Ready` | `ReadyWithAnyReceipt` | the receipt is not compared with the selection |
| `RunsOnlyVisibleInputs` | `AfterProbe` | `AfterProbeIgnored` | the answer of the probe is not looked at |
| `EvidenceIsComplete` | `AfterFailure` | `AfterFailureKeepingReport` | a failed removal still returns the report |
| `SettledIsClean` | `Abandonable` | `AbandonableByAnyone` | recovery of an operation whose client is alive |
| `CallsEnd` | `LoseCommand` | `LoseCommandUntimed` | a start has no timeout |
| `ManagedBackend!TypeOK` | `End` | `EndKeepingPlan` | a plan survives its process |
| `SettledIsTrue` | `ObserveRetired` | `ObserveRetiredOrKnown` | the last look accepts the socket it should miss |
| `RemovedAsReviewed` | `FenceFree` | `LifecycleFenceFree` | retirements do not take the fence of the life cycle |
| `RepairChain!TypeOK` | `ReplaceTarget` | `ReplaceTargetInPlace` | the source is written in place |
| `PromotedIsVerified` | `PreparePromotion` | `PreparePromotionUnchecked` | the candidate is not compared with the plan |
| `PromotedIsReviewed` | `Generate` | `GenerateUnapproved` | a billed generation begins before its plan is approved |
| `QualifiedIsOneRun` | `ProviderLineage` | `ProviderLineageOfRequest` | the edits are traced to the request only |
| `ReceiptIsTrue` | `PreparePromotion` | `PreparePromotionReceiptFirst` | the receipt is written first |
| `NoFalseFinding` | `HandshakeFindings` | `HandshakeFindingsIgnoringReads` | a full FIFO is expected to refuse also while it delivers |
| `CleanTraceConforms` | `StatusFindings` | `StatusFindingsWithoutTransfers` | level and pointers are not compared with the transfers |
| `ReceiptsHold` | `MakeBundle` | `MakeBundleShared` | an existing temporary directory is used |
| `WorkspaceIsClosed` | `Reads` | `ReadsPresent` | a bundle is not compared with its digest |

## 5. Proofs

Every invariant and every action property of the passing runs is proved for all
values of the constants, one of them (`WorkspaceIsClosed`) on condition that a recursive
function computes what it should; liveness is not. Assumptions: `LedgerAssumption`, a
hypothesis of the ledger's theorems; `WorkspaceAssumption` (the prices and limits
are positive naturals, budgets are within the cap, the command line and `Nobody`
are not requests); `SessionAssumption` (every path lies in an area; specifications
and delegations have the types of their fields, repair limits are within the cap);
`DistinctMarks` (`None` is not an operation, a profile, a run or a receipt);
`FifoAssumption` (a depth of at least 2 that level and pointers can hold);
`BackendAssumption` (natural bounds; `NoOp` is no operation); `RepairAssumption`
(natural bounds; no source text is the mark of a torn file). The skid buffer's
theorems assume that the reset value is a word. Requests, calls, recovery calls,
paths, specifications, plans, delegations, operations, profiles, guests, drafts,
processes, limits and bounds are otherwise arbitrary, finite or not.

`SpendLedger_proofs`: `LedgerTypeOK`, `Solvent` and `WithinCeiling` are inductive
together; no run checks them, `LedgerSpec` connects them to the session.

`DesignWorkspace_proofs`: none of the properties is inductive alone. The
invariant `WorkspaceInv` has three parts:

* `TypeOK`;
* `SpendInv`: besides `SpendCoversBills`, `SpendWithinCeiling` and
  `LostReplyIsRemembered`, that a reservation belongs to the active provider
  operation, that while a call is awaited its reservation is still chargeable,
  and that a loss before that call is in doubt on its own account. Without
  these, settling a reply could release more than was reserved, or make the
  session forget the earlier loss;
* `CallInv`: a call in progress is the active operation and owned by this
  process, a call whose reply has been read has nothing reserved, and a recovery
  that may still save holds a simulation which this process does not own. It is
  what shows that no recovery ends an operation its own process waits for.

Each part has a lemma for the initial states and one for a step, with one proof
step per action; lemmas for the recurring effects (`Finish`, `Saved`,
`KeepReservation`, unchanged parts) are cited by name. From
`WorkspaceInductive == Spec => []WorkspaceInv` follow the four invariants. The
action properties `ActiveEndsWithItsCall` and `CallsAreGated` follow from the
same invariant by cases on the action. `WorkspaceImplementsLedger` shows that
`Init` maps to the ledger's `Init` and every step to a ledger step or a
stutter, with `held <- pending` and `doubtful <- uncertain`.

The request properties need more, on top of `WorkspaceInv`:

* `RequestInv`: the saved phase of a request and the place of its task go together;
  at most one request is open; tasks of the web workspace and the command line are
  never in one process. `OneRunningCall` follows: two running calls would be two
  open requests, or two processes;
* `OutcomeInv`: until a task begins, its request was not sent; one awaited was; one
  that returned or is completed is over. `OutcomesAreTruthful` is not inductive
  because what a request will be called is decided by its task, not by its phase;
* `QueuedPlanHolds` is inductive with `RequestInv`: every step that could change what
  was reviewed is refused while a request is open, or closes it.

`SettledIsFinal` is an action property, by cases on the action: only `Finish` gives
an outcome, and it asks for an open phase; a settled request has no task that sends.

`DesignSession_proofs`: all six invariants and `RepairsBounded` from one invariant,
`SessionInv`. The properties of a design need each other (`DesignInv`): an import is
adopted over no files because an unapproved specification has none, a completed run is
of an approved design because the manifest agrees with the files, a repair stays in
scope because the plan in force does. `LifeInv` adds what does not survive a return to
discovery, and that a report or an acceptance is of a design whose stages are done.
Beside it:

* `CallInv`: the answer of a call fits the state it comes back to, because what its
  start required cannot change while it is in flight. Without it `AcceptStage` could
  write a stage of another design;
* `CardInv`: a card of a local review shows the specification of the plan it shows,
  which is what an approval of it records;
* `BatchInv`: no save of a running batch takes its delegation away;
* `DelegationBinding` itself.

`QuietAction` collects the actions that leave the design alone (a card, the clock, a
call that starts, fails or is abandoned, the batch loop); each of the others has a lemma that
shows `DesignInv` part by part.

`SimulationRuntime_proofs`: all six invariants of the run `runtime`, and
`UnsettledKeepsSelection`, from `RuntimeInv`. Each part of it answers one why:

* `SelectionInv`: a command that holds the lock works on a receipt of the
  selected profile, so that a selection never changes under it;
* `RolesInv`: the active operation, the one whose report is held and the one of
  the receipt differ, and only an operation that has not begun can become one of
  them. Without it a recovery could settle an operation whose report is adopted;
* `TestedInv`: what the receipt, the session and its operation name was tested
  when they began to name it, or is a version-1 profile on the local daemon;
* `SeesInv`: no command about the design's container, outstanding or asked for,
  precedes the probe's answer;
* `PathInv`: a lost command leads away from the report (`Hopeless`), and every
  completed command leaves what the next one needs; so `done` means that nothing
  is outstanding and nothing is left;
* `CreatesInv`: a creation and a start of the same container are never
  outstanding together, since a start is asked only after the creation was
  answered;
* `SettledInv`: only an unresolved operation is recovered, when its client is
  gone, and a recovery ends after it has dealt with both containers. With
  `CreatesInv` a late start finds nothing to start after it, and a late creation
  has no start to follow.

Before the proof TLC checked `RuntimeInv` on the instance of the run. Each part
has its lemma for a step; `StepKinds` sorts the steps by what they do to
operations, `CommandEffect`, `OrphanEffect` and `LossEffect` say what a command,
the end of a process and a lost client do.

`RepairChain_proofs`: all five invariants of the run `repair`, for any number of
processes, generations and troubles. None is inductive, because what is promoted is
decided by artifacts that were written many commands earlier and may have been
removed, torn or written again since. `RunsInv` says that a billed generation has an
approved plan from its beginning on. `RepairInv` therefore speaks of every whole
artifact at any moment (`FilesInv`: each is `Truthful`), of what a process has
computed and not yet written (`CommandsInv`: pending outputs are truthful too, no two
calls are of one run), and of what was promoted (`PromotionsInv`). `Truthful` says for
each kind of artifact what its content alone guarantees: an execution names an
approved plan and what that run answered; a qualification binds its edits to one such
run; and so on to the promotion plan, whose candidate passed and is its target with
the edits of the qualification. `Finished` is why it stays so: a run is answered once,
by the call it belongs to, so that nothing which names an answered run can become
untrue. Digests do the rest: each command compares before it builds, and what is
approved is a content, not a name. Before the proof TLC checked `RepairInv` on the
instance of the run.

`WaveformDebug_proofs`: `NoFalseFinding` and `CleanTraceConforms` of either block. For
the FIFO, for every depth, set of words and signal width, two facts join the three
parties. `Agreement`: in a clean trace since the first reset the analyzer's queue is
the observer's words, as many as `level` says, and the flags follow the level.
`RtlInv`: the source's memory holds those words from its read pointer on, modulo the
depth, and its write pointer is where they end. `CleanTraceConforms` needs the first,
whatever design made the trace; `NoFalseFinding` needs both. The lemmas on pointers
(`Advance` is `+ 1` modulo the depth, a write never overwrites a retained word) are
stated once. For the skid buffer the one joining fact (`SkidAgreement`) is that in a
clean trace since the first reset the observer holds a word exactly when the register
says `full`.

`ManagedBackend_proofs`: all three properties of the run `managed`, for any number of
calls. Neither `SettledIsTrue` nor `RemovedAsReviewed` is inductive. `LockInv` is the
mutual exclusion of the fence and of the retirement journal. `SocketInv` says that
every socket a journal names was created before, so that a new one differs from it.
`CallInv` is per call: what it was reviewed for (`Role`), that the journal names its
plan while it holds the journal (`Record`), and what its last look still guarantees
(`Look`): from `verified` on, as long as no late command has overtaken the call, the
socket can only go, and the machine cannot start, because a start by a living call
needs the fence. `OthersKeep` shows once that a step which moves one call does not
disturb another; each action then has to account for its own call.
`RemovedAsReviewed` follows, because the removal of what the name shows requires that
something is there, and `Look` leaves the reviewed socket as the only possibility.

`SessionlessCommands_proofs`: the invariants of the run `sessionless` under the
specification that it runs. `CommandsRunCatalog` shows that on the packages every
behaviour of the commands is one of `PackageCatalog`; `BlockInv` carries the two
results above over to a debug command about either block. `ReceiptsHold` holds for any
number of processes and packages. It is not inductive: what is renamed into the catalog
must be the package that is then reported. `OneWriterEach` says that a temporary directory at work belongs to one
process, because its creation is exclusive and no one removes it meanwhile;
`StagedIsOwned` that it holds that process's package when the copies are done;
`PublishedIsThere` that between rename and report nothing replaces the version. No
property of `Depends`, `Ports` or the bounds is needed.

`InstalledIsClosed` is conditional. That `InstallOrder` puts each package once, after
what it was built on, is induction over data, which no prover here can do, so
`OrderIsRight` says it as the hypothesis of the theorem: for every finite set of
packages that closes. `MCOrderIsRight` lets TLC evaluate it for all such sets of up to
three packages, two texts of each design, a diamond among them. The rest is proved in
`InstallInv`: what a locking process remembers is a good order of reported packages, in
every phase; what is in the temporary workspace followed by what an installing process
has still to copy is its lock; one process installs at a time; and a workspace is what
the lock beside it says. That a bundle is compared with its digest makes what is
copied the package its lock names.

Model-checked only: `ExpertRequestsSettle`, `BatchEnds` and `CallsEnd`, because
liveness under fairness is outside the prover's reach, and the three properties that
runs refute (section 6).

## 6. Where the code differs from what it says

`orphan` (`OpenSimulationHasTask`). When a web simulation loses contact,
`_run_simulation` records `reconciliation_needed` with the error code
`simulation_reconciliation_required` (`application/design_workspace.py:614`), which
`validate_workspace_operations` (`domain/design_session.py:331`) does not admit.
The save is refused, the task ends, and the request stays active with no task.
Reconciling the runtime clears `active`, but the request still blocks the
workspace until it is cancelled by hand or the process restarts.

`review` (`AcceptanceIsReviewable`). `docs/conversational-review.md:34` promises that
after a change of state `review` shows what can be approved now, without copying
digests, and that `accept this design` applies after simulation and signoff. But
`show_review` (`application/design_conversation.py:107`) takes the change review
whenever a proposal is saved. A proposal made before a repair is stale after it,
cannot be approved, and nothing but a revision discards it: the finished design
can then be accepted in the conversation only with a digest typed by hand. (The
browser names the review it wants and is not affected.)

`measure` (`PassedRunIsMeasurable`). With a guest transport `_simulate` adds
`probe_name` and `transport_digest` to the intent file
(`adapters/design_simulation.py:212-214`). Recovery and the self-test know both
shapes; `measured_run` requires exactly the five fields of the other one
(`adapters/design_measurements.py:47-48`). It is called before every acceptance in
the conversation and the browser, by a policy's batch, by export and by comparison.
`docs/web-workspace.md:182-184` offers the acceptance after a signoff and
`docs/web-workspace.md:270-271` simulation only with a guest: a design simulated as
documented can be accepted by a typed digest only.

Not a run, but visible in `SettledIsClean`: a comment in
`application/design_agent.py:841-842` says that the intent is retained until recovery
proves that its container has been removed. `abandon` takes an empty `ps` for that
proof; a create command of the dead client that the daemon carries out later leaves
a container, created and never started, which nothing will look for again.

Not runs, but met while modelling:

* `docs/design-agent-alpha.md:115-119` offers `recover --abandon-operation` as the way
  out of an interrupted operation. It appends a warning
  (`application/design_agent.py:226-229`) to a list limited to 256
  (`domain/design_delegation.py:75`) that nothing shortens; with a full list the
  abandonment is refused and the session stays blocked. `WarningFits` is this limit.
* `managed_backend_fence` (`adapters/managed_backend.py:215-216`) turns every untyped
  error inside the fence, also one after the machine was changed, into
  `runtime_backend_journal_invalid`, which `runtime_cli.py:424` explains as "no
  runtime was contacted".
* `application/provider_invocation.py:1` speaks of "one live expert provider call"
  and the plan of `max_provider_calls` 1, but nothing records that an approval was
  used: the same approval starts another paid generation.
* `application/candidate_promotion.py:40` says that exactly the planned target is
  replaced. An edit by hand between the comparison
  (`adapters/candidate_promotion.py:60`) and `os.replace` is overwritten; a receipt
  that cannot be written is noticed only afterwards.
* A crash between the replacement and the receipt leaves a promoted source without
  a receipt, and the command cannot be repeated, because its target has changed. A
  candidate torn by a crash makes every later application refuse until a person
  removes it.
* `accept-expert-source-edits` accepts two edits for one change, or edits that are
  not in the order of their place; such a suggestion can never be qualified. One
  accepted from a file has another digest than the same response in an invocation.
* `docs/architecture.md:188-190` says that the skid buffer adapters own the checks of
  transparent transfer. The analyzer compares `m_data` with the retained word only:
  a word that passes through an empty buffer may be any word
  (`examples/skid_buffer/spec.md:10` asks for order). `CleanTraceConforms` of the
  skid buffer therefore counts words and does not compare them.
* `build_verified_package_candidate` (`adapters/verified_simulation.py:202`) reads the
  sources again after `load_verified_simulation_evidence` has compared them with the
  evidence. An edit in between is packaged as simulation verified.
* Two `lock-package-closure` commands for one output may both find it free
  (`adapters/package_closure.py:65`, `:74`); the temporary file is not opened
  exclusively and `rename` replaces. A lock digest that was reported may then not be
  the digest of the file, or of no file. Installation compares and refuses.
* A crash between the rename and the report of `portable-package` leaves a version
  whose digest nobody was told, and storing it again is refused.
* `LocalDesignCatalog.store_manifest` (`adapters/catalog.py:45`, `:71`) looks whether the
  version exists and then writes: of two processes the second replaces the first.

## 7. Plan

Done: every module of section 2 with its runs, the refinement of `SpendLedger`, and
the proofs of all invariants and action properties that the runs check.

Next, in this order:

1. A second version of a package in the run `sessionless`, so that pins can conflict.
2. Export and portable sessions.

Not planned: parsing and presentation, read-only projections, provider SDK
translation, the content of specifications and artifacts, the caps of the private
trace, and the browser's script, for the reasons given in `PROJECT.json`.
