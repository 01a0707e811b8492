-------------------------- MODULE SimulationRuntime --------------------------
(***************************************************************************)
(* How a simulation runs: the selected container runtime and its self-test *)
(* receipt, the design session that uses the runtime, the commands that    *)
(* one simulation sends, the containers of the daemon and the copy of its  *)
(* inputs in a guest, and the recovery of what an interrupted run left.    *)
(*                                                                         *)
(* The daemon is outside the program.  It may carry out a command whose    *)
(* client has timed out, was cancelled or has died, at any later time or   *)
(* never, and a container it started runs on without its client.           *)
(*                                                                         *)
(* A digest is the thing it is a digest of.  An operation is one call of   *)
(* simulate: it has a run directory, an intent file and containers named   *)
(* after it.  What an operation was begun with, run[o], is also what its   *)
(* intent file says once that file exists.                                 *)
(*                                                                         *)
(* Just before some operators stands a faulty variant that no action uses; *)
(* README.md names the property each one breaks.                           *)
(***************************************************************************)
EXTENDS FiniteSets, Naturals

CONSTANTS
    None,           \* nothing recorded
    Operations,     \* operation identifiers, each used once
    Profiles,       \* version-2 profiles, which a person may select
    Explicit,       \* version-1 profiles, which a person may only name in a file
    Guests,         \* guests whose workload transport a person may select
    HostLocal       \* no workload transport: the daemon mounts host directories

Transports == Guests \union {HostLocal}

\* What a session uses, what an operation is begun with, and a self-test receipt.
Unsettled == {"running", "needs-recovery"}
Statuses == {"not-started", "passed", "recovered"} \union Unsettled
Written == Profiles \union Explicit
Bindings == [profile : Written, transport : Transports]
Runs == [profile : Written, transport : Transports, sees : BOOLEAN]
Receipts == [operation : Operations, profile : Profiles, transport : Transports,
             status : Statuses]

ASSUME DistinctMarks == None \notin Operations \union Profiles \union Runs \union Receipts
ASSUME DistinctVersions == Profiles \intersect Explicit = {}

VARIABLES
    selection,      \* runtime.json: the selected profile
    receipt,        \* runtime-selftest.json
    writer,         \* what the holder of .runtime.lock does
    design,         \* the process of the design session: its profile and transport
    active,         \* the session's active simulation
    adopted,        \* the operation whose report the session holds
    run,            \* how each operation was begun
    intents,        \* operations whose intent file is durable
    phase,          \* how far the client of each operation is
    probed,         \* operations whose probe answered that it sees the inputs
    evidence,       \* evidence/report.json of each operation
    cleaning,       \* how far the recovery of each operation is
    container,      \* containers of the daemon, by operation and name
    guestCopy,      \* operations with a directory in their guest
    late,           \* commands of lost clients that the daemon may still carry out
    tested,         \* history: selections that passed a self-test
    abandoned,      \* history: operations that were recovered
    straggled       \* history: operations for which a late command was carried
                    \* out after their last recovery had begun

runtimeVars == <<selection, receipt, writer>>
sessionVars == <<design, active, adopted>>
runVars == <<run, intents, phase, probed, evidence>>
daemonVars == <<container, guestCopy, late>>
historyVars == <<tested, abandoned, straggled>>
vars == <<runtimeVars, sessionVars, runVars, cleaning, daemonVars, historyVars>>

-----------------------------------------------------------------------------
(* Operations and their commands *)

\* Commands wait for an answer of the daemon or the guest.
Commands == {"inspect", "copy", "probeCreate", "probeStart", "probeRemove",
             "create", "start", "remove", "release"}
InFlight == {"begun"} \union Commands
Phases == {"new", "done", "raised", "dead"} \union InFlight
Names == {"probe", "design"}
NameOf(command) ==
    IF command \in {"probeCreate", "probeStart", "probeRemove"} THEN "probe" ELSE "design"
Creates == {"probeCreate", "create"}
Starts == {"probeStart", "start"}
Removes == {"probeRemove", "remove"}

UsesGuest(o) == run[o].transport # HostLocal

\* The phase after a command that succeeded.  The probe is removed before its
\* answer counts, the container before the report is returned.
Finished(o) == IF evidence[o] = "none" THEN "raised" ELSE "done"
AfterProbeIgnored(o) == "create"
AfterProbe(o) == IF o \in probed THEN "create" ELSE "raised"
AfterInspect(o) == IF UsesGuest(o) THEN "copy" ELSE "create"
Following(o) ==
    CASE phase[o] = "inspect"     -> AfterInspect(o)
      [] phase[o] = "copy"        -> "probeCreate"
      [] phase[o] = "probeCreate" -> "probeStart"
      [] phase[o] = "probeRemove" -> AfterProbe(o)
      [] phase[o] = "create"      -> "start"
      [] phase[o] = "remove"      -> IF UsesGuest(o) THEN "release" ELSE Finished(o)
      [] phase[o] = "release"     -> Finished(o)

\* The phase after a command that failed: a container that was started is
\* removed all the same.
AfterFailureKeepingReport(o) ==
    CASE phase[o] = "probeStart" -> "probeRemove"
      [] phase[o] = "start"      -> "remove"
      [] phase[o] = "remove"     -> Finished(o)
      [] OTHER                   -> "raised"
AfterFailure(o) ==
    CASE phase[o] = "probeStart" -> "probeRemove"
      [] phase[o] = "start"      -> "remove"
      [] OTHER                   -> "raised"

\* What a command does when it is carried out, now or late.
ContainerAfter(o, command) ==
    LET n == NameOf(command)
        old == container[o][n]
    IN  [container EXCEPT ![o][n] =
            CASE command \in Creates /\ old = "none"   -> "created"
              [] command \in Starts /\ old = "created" -> "running"
              [] command \in Removes                   -> "none"
              [] OTHER                                 -> old]
GuestAfter(o, command) ==
    CASE command = "copy"    -> guestCopy \union {o}
      [] command = "release" -> guestCopy \ {o}
      [] OTHER               -> guestCopy
CarryOut(o, command) ==
    /\ container' = ContainerAfter(o, command)
    /\ guestCopy' = GuestAfter(o, command)

\* The command whose answer nobody waits for any more, if it changes anything.
\* A start that has taken effect is not carried out again.
PendingAnything(o) == {<<o, phase[o]>>}
Pending(o) ==
    IF \/ phase[o] \notin Commands \ {"inspect"}
       \/ phase[o] \in Starts /\ container[o][NameOf(phase[o])] # "created"
    THEN {} ELSE {<<o, phase[o]>>}

-----------------------------------------------------------------------------
(* The runtime's own state *)

Testing(o) == receipt # None /\ receipt.operation = o
Unresolved(o) == active = o \/ (Testing(o) /\ receipt.status \in Unsettled)

NoActiveReceipt == receipt # None => receipt.status \notin Unsettled

\* A selection is usable when its own self-test passed, over this transport.
ReadyWithAnyReceipt(t) == selection # None /\ receipt # None /\ receipt.status = "passed"
Ready(t) ==
    /\ selection # None /\ receipt # None
    /\ receipt.status = "passed"
    /\ receipt.profile = selection /\ receipt.transport = t

TypeOK ==
    /\ selection \in Profiles \union {None}
    /\ receipt \in Receipts \union {None}
    /\ writer \in {"free", "testing", "recovering"}
    /\ design \in Bindings \union {None}
    /\ active \in Operations \union {None}
    /\ adopted \in Operations \union {None}
    /\ run \in [Operations -> Runs \union {None}]
    /\ intents \subseteq Operations
    /\ phase \in [Operations -> Phases]
    /\ probed \subseteq Operations
    /\ evidence \in [Operations -> {"none", "passed", "failed"}]
    /\ cleaning \in [Operations -> {"no", "probe", "design", "release"}]
    /\ container \in [Operations -> [Names -> {"none", "created", "running", "exited"}]]
    /\ guestCopy \subseteq Operations
    /\ late \subseteq Operations \X Commands
    /\ tested \subseteq Profiles \X Transports
    /\ abandoned \subseteq Operations
    /\ straggled \subseteq Operations
    /\ \A o \in Operations : (run[o] = None) <=> (phase[o] = "new")

Init ==
    /\ selection = None /\ receipt = None /\ writer = "free"
    /\ design = None /\ active = None /\ adopted = None
    /\ run = [o \in Operations |-> None]
    /\ intents = {} /\ probed = {}
    /\ phase = [o \in Operations |-> "new"]
    /\ evidence = [o \in Operations |-> "none"]
    /\ cleaning = [o \in Operations |-> "no"]
    /\ container = [o \in Operations |-> [n \in Names |-> "none"]]
    /\ guestCopy = {} /\ late = {}
    /\ tested = {} /\ abandoned = {} /\ straggled = {}

\* simulate begins: the run directory, its inputs, the runner.  Whether a daemon
\* sees what is copied into a guest is not known to the program; a local daemon
\* mounts the host's own directories.
BeginRun(o, profile, transport) ==
    /\ phase[o] = "new"
    /\ phase' = [phase EXCEPT ![o] = "begun"]
    /\ \E sees \in BOOLEAN :
         /\ transport = HostLocal => sees
         /\ run' = [run EXCEPT ![o] = [profile |-> profile, transport |-> transport, sees |-> sees]]
    /\ UNCHANGED <<intents, probed, evidence>>

\* runtime select: it inspects the daemon under the lock and saves last.
Select(profile) ==
    /\ writer = "free" /\ NoActiveReceipt
    /\ selection' = profile
    /\ UNCHANGED <<receipt, writer, sessionVars, runVars, cleaning, daemonVars, historyVars>>

\* runtime self-test records its operation before it does anything else.
BeginSelfTest(o, transport) ==
    /\ writer = "free" /\ NoActiveReceipt
    /\ selection # None /\ phase[o] = "new"
    /\ receipt' = [operation |-> o, profile |-> selection, transport |-> transport,
                   status |-> "not-started"]
    /\ writer' = "testing"
    /\ UNCHANGED <<selection, sessionVars, runVars, cleaning, daemonVars, historyVars>>

\* The local identity is checked, "running" is saved, and simulate begins.
StartSelfTestUnsaved(o) ==
    /\ writer = "testing" /\ Testing(o) /\ receipt.status = "not-started"
    /\ BeginRun(o, receipt.profile, receipt.transport)
    /\ UNCHANGED <<runtimeVars, sessionVars, cleaning, daemonVars, historyVars>>
StartSelfTest(o) ==
    /\ writer = "testing" /\ Testing(o) /\ receipt.status = "not-started"
    /\ receipt' = [receipt EXCEPT !.status = "running"]
    /\ BeginRun(o, receipt.profile, receipt.transport)
    /\ UNCHANGED <<selection, writer, sessionVars, cleaning, daemonVars, historyVars>>

\* The executable or the socket is not what was selected.
RefuseSelfTest ==
    /\ writer = "testing" /\ receipt.status = "not-started"
    /\ writer' = "free"
    /\ UNCHANGED <<selection, receipt, sessionVars, runVars, cleaning, daemonVars, historyVars>>

EndSelfTest(o, status) ==
    /\ writer = "testing" /\ Testing(o) /\ receipt.status = "running"
    /\ phase[o] \in {"done", "raised"}
    /\ receipt' = [receipt EXCEPT !.status = status]
    /\ writer' = "free"
    /\ UNCHANGED <<selection, sessionVars, runVars, cleaning, daemonVars, abandoned, straggled>>

\* verify_evidence compares the report with the fixed inputs, the profile and
\* the intent of this very operation.
PassSelfTest(o) ==
    /\ phase[o] = "done" /\ evidence[o] = "passed"
    /\ EndSelfTest(o, "passed")
    /\ tested' = tested \union {<<receipt.profile, receipt.transport>>}

FailSelfTest(o) ==
    /\ EndSelfTest(o, "needs-recovery")
    /\ UNCHANGED tested

-----------------------------------------------------------------------------
(* The design session *)

\* design_cli with --allow-simulation; the lock of the runtime state is not taken.
Open(profile, transport) ==
    /\ design = None
    /\ design' = [profile |-> profile, transport |-> transport]
    /\ UNCHANGED <<runtimeVars, active, adopted, runVars, cleaning, daemonVars, historyVars>>

\* --runtime-state: what was selected, if its self-test passed.
OpenDesign(transport) == Ready(transport) /\ Open(selection, transport)

\* --simulation-profile: any version-1 profile in a file, without a receipt and
\* without a guest; a version-2 profile is refused on this way.
OpenExplicit(profile) == profile \notin Profiles /\ Open(profile, HostLocal)

\* The operation is saved as active, then simulate begins.
Simulate(o) ==
    /\ design # None /\ active = None /\ ~Testing(o)
    /\ active' = o
    /\ BeginRun(o, design.profile, design.transport)
    /\ UNCHANGED <<runtimeVars, design, adopted, cleaning, daemonVars, historyVars>>

\* The report is checked against the operation and the inputs and saved.  A call
\* that raised leaves the operation active.
AcceptReport(o) ==
    /\ active = o /\ design # None /\ phase[o] = "done"
    /\ active' = None /\ adopted' = o
    /\ UNCHANGED <<runtimeVars, design, runVars, cleaning, daemonVars, historyVars>>

-----------------------------------------------------------------------------
(* One simulation *)

Advance(o, next) == phase' = [phase EXCEPT ![o] = next]

\* The intent is written and synchronised before the first command.  Only the
\* daemon of a version-2 profile is inspected.
FirstCommand(o) == IF run[o].profile \in Profiles THEN "inspect" ELSE "create"
WriteIntent(o) ==
    /\ phase[o] = "begun"
    /\ intents' = intents \union {o}
    /\ Advance(o, FirstCommand(o))
    /\ UNCHANGED <<runtimeVars, sessionVars, run, probed, evidence, cleaning, daemonVars, historyVars>>

\* Staging itself fails; there is no intent.
FailStaging(o) ==
    /\ phase[o] = "begun"
    /\ Advance(o, "raised")
    /\ UNCHANGED <<runtimeVars, sessionVars, run, intents, probed, evidence, cleaning,
                   daemonVars, historyVars>>

\* A command other than a start is carried out and answered.  A refused inspect,
\* copy or create takes nothing further.
Complete(o) ==
    /\ phase[o] \in Commands \ Starts
    /\ CarryOut(o, phase[o])
    /\ Advance(o, Following(o))
    /\ UNCHANGED <<runtimeVars, sessionVars, run, intents, probed, evidence, cleaning, late,
                   historyVars>>

\* A start returns when the container has ended.
DaemonStarts(o) ==
    /\ phase[o] \in Starts /\ container[o][NameOf(phase[o])] = "created"
    /\ CarryOut(o, phase[o])
    /\ UNCHANGED <<runtimeVars, sessionVars, runVars, cleaning, late, historyVars>>

ContainerExits(o, n) ==
    /\ container[o][n] = "running"
    /\ container' = [container EXCEPT ![o][n] = "exited"]
    /\ UNCHANGED <<runtimeVars, sessionVars, runVars, cleaning, guestCopy, late, historyVars>>

\* The probe hashes what it finds at its mounts.
ReceiveProbe(o) ==
    /\ phase[o] = "probeStart" /\ container[o]["probe"] = "exited"
    /\ probed' = IF run[o].sees THEN probed \union {o} ELSE probed
    /\ Advance(o, "probeRemove")
    /\ UNCHANGED <<runtimeVars, sessionVars, run, intents, evidence, cleaning, daemonVars,
                   historyVars>>

\* The payload of the runner is unusable, or it becomes the report on disk.
ReceiveResults(o) ==
    /\ phase[o] = "start" /\ container[o]["design"] = "exited"
    /\ \E report \in {"none", "passed", "failed"} : evidence' = [evidence EXCEPT ![o] = report]
    /\ Advance(o, "remove")
    /\ UNCHANGED <<runtimeVars, sessionVars, run, intents, probed, cleaning, daemonVars,
                   historyVars>>

\* A command fails, times out or is cancelled; its client is killed.
LoseCommandUntimed(o) ==
    /\ phase[o] \in Commands \ Starts
    /\ late' = late \union Pending(o)
    /\ Advance(o, AfterFailure(o))
    /\ UNCHANGED <<runtimeVars, sessionVars, run, intents, probed, evidence, cleaning,
                   container, guestCopy, historyVars>>
LoseCommand(o) ==
    /\ phase[o] \in Commands
    /\ late' = late \union Pending(o)
    /\ Advance(o, AfterFailure(o))
    /\ UNCHANGED <<runtimeVars, sessionVars, run, intents, probed, evidence, cleaning,
                   container, guestCopy, historyVars>>

\* The daemon or the guest catches up with a client that is gone.
CarryOutLate(o, command) ==
    /\ <<o, command>> \in late
    /\ late' = late \ {<<o, command>>}
    /\ CarryOut(o, command)
    /\ straggled' = IF Unresolved(o) /\ cleaning[o] = "no" THEN straggled
                    ELSE straggled \union {o}
    /\ UNCHANGED <<runtimeVars, sessionVars, runVars, cleaning, tested, abandoned>>

-----------------------------------------------------------------------------
(* The end of a process, and recovery *)

\* A process ends and takes its client with it; what it asked for stays asked.
Orphan(o) ==
    /\ phase' = [phase EXCEPT ![o] = IF @ = "new" THEN @ ELSE "dead"]
    /\ late' = late \union Pending(o)
    /\ cleaning' = [cleaning EXCEPT ![o] = "no"]
    /\ UNCHANGED <<run, intents, probed, evidence, container, guestCopy>>

StopDesign ==
    /\ design # None
    /\ design' = None
    /\ IF active = None
         THEN UNCHANGED <<runVars, cleaning, daemonVars>>
         ELSE Orphan(active)
    /\ UNCHANGED <<runtimeVars, active, adopted, historyVars>>

\* The lock goes with the process; the receipt stays as it was saved last.
StopRuntimeCommand ==
    /\ writer # "free"
    /\ writer' = "free"
    /\ Orphan(receipt.operation)
    /\ UNCHANGED <<selection, receipt, sessionVars, historyVars>>

\* Recovery takes what the intent file recorded and nothing else.
Recorded(o, profile, transport) ==
    o \in intents /\ run[o].profile = profile /\ run[o].transport = transport
BeginCleaning(o, profile, transport) ==
    /\ Recorded(o, profile, transport)
    /\ cleaning' = [cleaning EXCEPT ![o] = IF UsesGuest(o) THEN "probe" ELSE "design"]
    /\ straggled' = straggled \ {o}

\* runtime recover.
BeginRecovery(transport) ==
    /\ writer = "free" /\ ~NoActiveReceipt
    /\ receipt.profile = selection /\ receipt.transport = transport
    /\ BeginCleaning(receipt.operation, selection, transport)
    /\ writer' = "recovering"
    /\ UNCHANGED <<selection, receipt, sessionVars, runVars, daemonVars, tested, abandoned>>

\* The session's recovery, by another process than the one that simulated.
AbandonableByAnyone == design # None /\ active # None /\ cleaning[active] = "no"
Abandonable == AbandonableByAnyone /\ phase[active] = "dead"
BeginAbandon ==
    /\ Abandonable
    /\ BeginCleaning(active, design.profile, design.transport)
    /\ UNCHANGED <<runtimeVars, sessionVars, runVars, daemonVars, tested, abandoned>>

\* An empty list of containers is taken for their absence; a container that is
\* listed and is the operation's is removed.
RemoveListed(o, n) == container' = [container EXCEPT ![o][n] = "none"]
CleanContainer(o) ==
    /\ cleaning[o] \in Names
    /\ RemoveListed(o, cleaning[o])
    /\ cleaning' = [cleaning EXCEPT ![o] = IF @ = "probe" THEN "design" ELSE "release"]
    /\ UNCHANGED <<runtimeVars, sessionVars, runVars, guestCopy, late, historyVars>>

\* A query or a removal fails, or the selection no longer holds.
FailCleaning(o) ==
    /\ cleaning[o] # "no"
    /\ cleaning' = [cleaning EXCEPT ![o] = "no"]
    /\ writer' = IF Testing(o) THEN "free" ELSE writer
    /\ UNCHANGED <<selection, receipt, sessionVars, runVars, daemonVars, historyVars>>

\* The guest's copy is removed and the operation settled, without its output.
EndCleaning(o) ==
    /\ cleaning[o] = "release"
    /\ cleaning' = [cleaning EXCEPT ![o] = "no"]
    /\ guestCopy' = guestCopy \ {o}
    /\ abandoned' = abandoned \union {o}
    /\ UNCHANGED <<selection, design, adopted, runVars, container, late, tested, straggled>>

Recover(o) ==
    /\ EndCleaning(o) /\ Testing(o)
    /\ receipt' = [receipt EXCEPT !.status = "recovered"]
    /\ writer' = "free"
    /\ UNCHANGED active

Abandon(o) ==
    /\ EndCleaning(o) /\ active = o
    /\ active' = None
    /\ UNCHANGED <<receipt, writer>>

-----------------------------------------------------------------------------
(* Measurement: what acceptance, export and comparison reread *)

BaseFields == {"schema", "operation_id", "container_name", "profile_digest", "input_digest"}
IntentFields(o) == BaseFields \union (IF UsesGuest(o) THEN {"probe_name", "transport_digest"} ELSE {})

\* measured_run over a report and artifacts that nobody changed.
Measurable(o) == evidence[o] = "passed" /\ o \in intents /\ IntentFields(o) = BaseFields

-----------------------------------------------------------------------------
RuntimeCommand ==
    \/ \E p \in Profiles : Select(p)
    \/ \E o \in Operations, t \in Transports : BeginSelfTest(o, t)
    \/ \E o \in Operations : StartSelfTest(o) \/ PassSelfTest(o) \/ FailSelfTest(o)
    \/ RefuseSelfTest
    \/ \E t \in Transports : BeginRecovery(t)
    \/ StopRuntimeCommand

SessionStep ==
    \/ \E t \in Transports : OpenDesign(t)
    \/ \E p \in Written : OpenExplicit(p)
    \/ \E o \in Operations : Simulate(o) \/ AcceptReport(o)
    \/ BeginAbandon
    \/ StopDesign

ClientStep(o) ==
    \/ WriteIntent(o)
    \/ FailStaging(o)
    \/ Complete(o)
    \/ ReceiveProbe(o)
    \/ ReceiveResults(o)
    \/ LoseCommand(o)

RecoveryStep(o) == CleanContainer(o) \/ FailCleaning(o) \/ Recover(o) \/ Abandon(o)

DaemonStep(o) ==
    \/ DaemonStarts(o)
    \/ \E n \in Names : ContainerExits(o, n)
    \/ \E command \in Commands : CarryOutLate(o, command)

Next ==
    \/ RuntimeCommand
    \/ SessionStep
    \/ \E o \in Operations : ClientStep(o) \/ RecoveryStep(o) \/ DaemonStep(o)

Spec == Init /\ [][Next]_vars

\* Every command has a timeout.  Nothing is assumed of the daemon, of people or
\* of the processes, which may end at any time.
FairSpec == Spec /\ \A o \in Operations : WF_vars(ClientStep(o))

-----------------------------------------------------------------------------
(* Properties *)

\* Selecting another runtime cannot strand an interrupted self-test: as long as
\* one is unsettled the selection is the one its intent was recorded with, so
\* that recover can be carried out (_no_active_receipt, _select, _recover).
UnsettledKeepsSelection ==
    receipt # None /\ receipt.status \in Unsettled => selection = receipt.profile

\* A self-test recorded as not started has left nothing anywhere, now or later;
\* it needs no recovery and may be overwritten, also after a crash at any point
\* (_selftest saves "running" before it creates the run).
NotStartedLeftNothing ==
    receipt # None /\ receipt.status = "not-started" =>
        LET o == receipt.operation
        IN  /\ phase[o] = "new" /\ o \notin intents \union guestCopy
            /\ \A n \in Names : container[o][n] = "none"
            /\ \A command \in Commands : <<o, command>> \notin late

\* A session simulates with a version-2 profile only over a transport with which
\* it has passed a self-test, whatever was selected, tested, recovered and named
\* in a file in between; a version-1 profile, which has no self-test, simulates
\* only on the local daemon (ready_profile and the choice of --simulation-profile
\* in design_cli, docs/managed-simulation.md:91-93; the session does not hold the
\* lock of the runtime state).
Qualified(profile, transport) ==
    IF profile \in Profiles THEN <<profile, transport>> \in tested
                            ELSE transport = HostLocal
SimulatesOnlyTested ==
    /\ design # None => Qualified(design.profile, design.transport)
    /\ active # None => Qualified(run[active].profile, run[active].transport)

\* Design code runs only where the daemon sees the inputs that were staged, on
\* every path to a created container (_probe_workload; docs/web-workspace.md).
RunsOnlyVisibleInputs ==
    \A o \in Operations : container[o]["design"] \in {"running", "exited"} => run[o].sees

\* A report is adopted by the session, or a self-test recorded as passed, only
\* for an operation that ended by itself, whose containers and guest copy are
\* gone and to which nothing can happen any more; what was recovered is never
\* adopted (_simulate, DesignAgent._simulate, _selftest).
EvidenceIsComplete ==
    \A o \in Operations :
        adopted = o \/ (Testing(o) /\ receipt.status = "passed") =>
            /\ phase[o] = "done" /\ evidence[o] # "none"
            /\ o \notin abandoned \union guestCopy
            /\ \A n \in Names : container[o][n] = "none"
            /\ \A command \in Commands : <<o, command>> \notin late

\* A settled operation, accepted or recovered, has no container that runs, and
\* none at all and no copy in the guest except what a late command brought back
\* after its recovery had begun (abandon takes an empty list for absence).
SettledIsClean ==
    \A o \in Operations : ~Unresolved(o) =>
        /\ \A n \in Names : container[o][n] # "running"
        /\ o \in straggled
           \/ (o \notin guestCopy /\ \A n \in Names : container[o][n] = "none")

\* Every simulation ends, whatever the daemon does: with a report, with an error
\* or with its process (the timeouts of _process and of the transport).
CallsEnd == \A o \in Operations : phase[o] \in InFlight ~> phase[o] \notin InFlight

\* What acceptance rereads of a passing run that nobody has touched is accepted
\* (docs/web-workspace.md: acceptance revalidates the saved evidence).
PassedRunIsMeasurable ==
    adopted # None /\ evidence[adopted] = "passed" => Measurable(adopted)
=============================================================================
