---------------------------- MODULE ManagedBackend ----------------------------
(* The owned virtual machine: life cycle calls (runtime managed-apply) and     *)
(* retirement of a stale guest socket (runtime retirement-apply).  Every call  *)
(* is a process of its own that may die between any two steps.  Two journals   *)
(* and one lock file, the fence, are all the calls share; the locks vanish     *)
(* with the process, the journals stay, and Lima may still carry out what a    *)
(* call that is gone had asked of it, at any later time or never.  The         *)
(* journals, the Lima driver and the exact removal of a socket belong to       *)
(* AgentRig and are modelled from the way this code and its tests use them.    *)
EXTENDS Naturals

CONSTANTS Calls,        \* processes of the command line
          Ops,          \* operation identifiers a person reuses or renews
          NoOp,
          MaxForwards,  \* bound: sockets Lima creates
          MaxEdits      \* bound: changes from outside, of the executable, the
                        \* configuration, the guest image or the service lock file

ASSUME BackendAssumption ==
    /\ NoOp \notin Ops
    /\ MaxForwards \in Nat /\ MaxEdits \in Nat

VARIABLES
    vm,          \* what limactl list would report
    forward,     \* identity of workspace.sock in the transport directory, 0: absent
    issued,      \* sockets created so far; an identity is never reused
    held,        \* some guest service still holds .service.lock
    lockId,      \* identity of the .service.lock file
    closure,     \* version of executable, configuration and guest image
    lifecycle,   \* journal of the life cycle calls: its last record
    retirement,  \* journal of the retirements: its last record
    pc,          \* where each call stands
    plan,        \* the plan each call was reviewed with
    late,        \* commands of calls that are gone, which Lima may still carry out;
                 \* bound: one of each kind
    overtaken,   \* history: calls since whose last look a late command was carried out
    removals     \* history: sockets unlinked by a retirement, with its operation

world == <<vm, forward, issued, held, lockId, closure>>
histories == <<overtaken, removals>>
vars == <<world, lifecycle, retirement, pc, plan, late, histories>>

Effects == {"prepare", "start", "stop"}

LifecycleActions == Effects \cup {"inspect", "reconcile"}
RetirementActions == {"retire", "observe"}

Statuses == {"empty", "uncertain", "completed", "reconciled"}

\* Versions of executable, configuration and guest image, as their digests tell
\* them apart.
Closures == 0..MaxEdits

\* A plan binds the action, the operation and everything the configuration
\* names: artifact closure, endpoint and service lock.
Plans == [action : LifecycleActions \cup RetirementActions, op : Ops,
          closure : Closures, forward : 0..MaxForwards, lockId : 0..MaxEdits]

Managing == {"driving", "acting", "acted"}
Fenced == {"fenced", "verified", "removed", "observed"}
Journaling == {"recorded", "left"} \cup Fenced
Phases == {"idle", "reviewed", "bound"} \cup Managing \cup Journaling

TypeOK ==
    /\ vm \in {"absent", "stopped", "running"}
    /\ forward \in 0..MaxForwards /\ issued \in 0..MaxForwards
    /\ held \in BOOLEAN /\ lockId \in 0..MaxEdits /\ closure \in Closures
    /\ lifecycle \in [op : Ops \cup {NoOp}, status : Statuses]
    /\ retirement \in [op : Ops \cup {NoOp}, forward : 0..MaxForwards, status : Statuses]
    /\ pc \in [Calls -> Phases]
    /\ plan \in [Calls -> Plans \cup {NoOp}]
    /\ \A c \in Calls : plan[c] \in IF pc[c] = "idle" THEN {NoOp} ELSE Plans
    /\ late \subseteq Effects
    /\ overtaken \subseteq {c \in Calls : pc[c] = "verified"}
    /\ removals \subseteq [op : Ops, forward : 1..MaxForwards, overtaken : BOOLEAN]

Init ==
    /\ vm = "absent" /\ forward = 0 /\ issued = 0 /\ held = FALSE
    /\ lockId = 0 /\ closure = 0
    /\ lifecycle = [op |-> NoOp, status |-> "empty"]
    /\ retirement = [op |-> NoOp, forward |-> 0, status |-> "empty"]
    /\ pc = [c \in Calls |-> "idle"]
    /\ plan = [c \in Calls |-> NoOp]
    /\ late = {} /\ overtaken = {} /\ removals = {}

Goto(c, phase) == pc' = [pc EXCEPT ![c] = phase]

\* Mutant: a plan that outlives its process.
EndKeepingPlan(c) == Goto(c, "idle") /\ plan' = plan

\* The process is gone, and its plan with it.
End(c) == Goto(c, "idle") /\ plan' = [plan EXCEPT ![c] = NoOp]

\* Mutant: a lock that only the life cycle calls share.
LifecycleFenceFree == \A d \in Calls : pc[d] \notin Managing

\* operation.lock: at most one call is inside, and a call never waits for it.
FenceFree == \A d \in Calls : pc[d] \notin Managing \cup Fenced

\* The journal of the retirements is locked from the record to the result.
JournalFree == \A d \in Calls : pc[d] \notin Journaling

\* The artifacts on disk are the ones the plan names.
AuditMatches(p) == closure = p.closure

\* The adapter is built for one generation, from the bytes found now.
BindsGeneration(p) == AuditMatches(p)

\* LimaArtifactVerifier: the audit, and whether the instance was prepared.
VerifierAccepts(p) == AuditMatches(p) /\ (p.action = "prepare" <=> vm = "absent")

\* limactl list reports the instance as stopped, between two audits.
InstanceStopped(p) == AuditMatches(p) /\ vm = "stopped"

\* The socket may be gone, but a different one is an error.
SocketKnown(p) == forward \in {0, p.forward}

LockRetained(p) == lockId = p.lockId
LockAvailable(p) == LockRetained(p) /\ ~held

\* A record that is uncertain is settled by observation only; a settled
\* operation is not repeated.
Admits(journal, op, byObservation) ==
    IF byObservation THEN journal.status = "uncertain" /\ journal.op = op
                     ELSE journal.status # "uncertain" /\ journal.op # op

-----------------------------------------------------------------------------
(* Planning is pure.  It reads the world through what the person passes to it: *)
(* the audited closure, the endpoint and lock seen now, or the endpoint of the *)
(* retirement that is being settled.                                           *)

ManagedConfigurations(action, op) ==
    {[action |-> action, op |-> op, closure |-> closure, forward |-> 0, lockId |-> 0]}

RetirementConfigurations(action, op) ==
    {[action |-> action, op |-> op, closure |-> closure, forward |-> f, lockId |-> lockId] :
        f \in {forward, retirement.forward} \ {0}}

Reviewed(c, configurations) ==
    /\ pc[c] = "idle"
    /\ \E p \in configurations : plan' = [plan EXCEPT ![c] = p]
    /\ Goto(c, "reviewed")
    /\ UNCHANGED <<world, lifecycle, retirement, late, histories>>

PlanManaged(c) ==
    \E action \in LifecycleActions, op \in Ops :
        Reviewed(c, ManagedConfigurations(action, op))

PlanRetirement(c) ==
    \E action \in RetirementActions, op \in Ops :
        Reviewed(c, RetirementConfigurations(action, op))

\* The call ends early: a check fails, the deadline passes, the person cancels
\* or the process dies.  The locks go, the journals and the world stay, and so
\* may a command that Lima was given.
Asked(c) == IF pc[c] = "acting" THEN Effects \cap {plan[c].action} ELSE {}
Fail(c) ==
    /\ pc[c] # "idle"
    /\ End(c)
    /\ late' \in {late, late \cup Asked(c)}
    /\ overtaken' = overtaken \ {c}
    /\ UNCHANGED <<world, lifecycle, retirement, removals>>

-----------------------------------------------------------------------------
(* managed-apply.                                                              *)

ApplyManaged(c) ==
    /\ pc[c] = "reviewed" /\ plan[c].action \in LifecycleActions
    /\ FenceFree
    /\ Goto(c, "driving")
    /\ UNCHANGED <<world, lifecycle, retirement, plan, late, histories>>

\* The driver records its uncertainty before it touches the machine.
RecordManaged(c) ==
    /\ pc[c] = "driving"
    /\ VerifierAccepts(plan[c])
    /\ Admits(lifecycle, plan[c].op, plan[c].action = "reconcile")
    /\ lifecycle' = [op |-> plan[c].op, status |-> "uncertain"]
    /\ Goto(c, "acting")
    /\ UNCHANGED <<world, retirement, plan, late, histories>>

\* What Lima does to the machine; it usually removes the forward of a machine
\* that it stops, not always.
CarryOut(action) ==
    \/ /\ action = "prepare" /\ vm = "absent" /\ vm' = "stopped"
       /\ UNCHANGED <<forward, issued, held>>
    \/ /\ action = "start" /\ vm = "stopped" /\ vm' = "running"
       /\ issued < MaxForwards /\ issued' = issued + 1
       /\ forward' = issued + 1 /\ held' = TRUE
    \/ /\ action = "stop" /\ vm = "running" /\ vm' = "stopped"
       /\ forward' \in {0, forward} /\ UNCHANGED <<issued, held>>

Drive(c) ==
    /\ pc[c] = "acting"
    /\ \/ CarryOut(plan[c].action)
       \/ plan[c].action \notin Effects /\ UNCHANGED <<vm, forward, issued, held>>
    /\ Goto(c, "acted")
    /\ UNCHANGED <<lockId, closure, lifecycle, retirement, plan, late, histories>>

SettleManaged(c) ==
    /\ pc[c] = "acted"
    /\ lifecycle' = [op |-> plan[c].op, status |->
                        IF plan[c].action = "reconcile" THEN "reconciled" ELSE "completed"]
    /\ End(c)
    /\ UNCHANGED <<world, retirement, late, histories>>

-----------------------------------------------------------------------------
(* retirement-apply.                                                           *)

\* The adapter is bound to audited bytes before anything is written.
Bind(c) ==
    /\ pc[c] = "reviewed" /\ plan[c].action \in RetirementActions
    /\ BindsGeneration(plan[c])
    /\ Goto(c, "bound")
    /\ UNCHANGED <<world, lifecycle, retirement, plan, late, histories>>

\* The coordinator records its uncertainty before the first contact.
OpenJournal(c) ==
    /\ pc[c] = "bound"
    /\ JournalFree
    /\ Admits(retirement, plan[c].op, plan[c].action = "observe")
    /\ plan[c].action = "observe" => retirement.forward = plan[c].forward
    /\ retirement' = [op |-> plan[c].op, forward |-> plan[c].forward, status |-> "uncertain"]
    /\ Goto(c, "recorded")
    /\ UNCHANGED <<world, lifecycle, plan, late, histories>>

EnterFence(c) ==
    /\ pc[c] = "recorded"
    /\ FenceFree
    /\ InstanceStopped(plan[c]) /\ SocketKnown(plan[c]) /\ LockAvailable(plan[c])
    /\ Goto(c, "fenced")
    /\ UNCHANGED <<world, lifecycle, retirement, plan, late, histories>>

\* The last look before the removal.
VerifyQuiescent(c) ==
    /\ pc[c] = "fenced" /\ plan[c].action = "retire"
    /\ InstanceStopped(plan[c]) /\ LockRetained(plan[c])
    /\ forward = plan[c].forward
    /\ Goto(c, "verified")
    /\ UNCHANGED <<world, lifecycle, retirement, plan, late, histories>>

\* A socket is unlinked by name: whatever is there now goes.
RetireSocket(c) ==
    /\ pc[c] = "verified"
    /\ forward # 0
    /\ forward' = 0
    /\ removals' = removals \cup
           {[op |-> plan[c].op, forward |-> forward, overtaken |-> c \in overtaken]}
    /\ overtaken' = overtaken \ {c}
    /\ Goto(c, "removed")
    /\ UNCHANGED <<vm, issued, held, lockId, closure, lifecycle, retirement, plan, late>>

\* Mutant: the socket need not be gone.
ObserveRetiredOrKnown(c) ==
    /\ \/ pc[c] = "removed"
       \/ pc[c] = "fenced" /\ plan[c].action = "observe"
    /\ InstanceStopped(plan[c]) /\ SocketKnown(plan[c]) /\ LockAvailable(plan[c])
    /\ Goto(c, "observed")
    /\ UNCHANGED <<world, lifecycle, retirement, plan, late, histories>>

ObserveRetired(c) ==
    /\ \/ pc[c] = "removed"
       \/ pc[c] = "fenced" /\ plan[c].action = "observe"
    /\ InstanceStopped(plan[c]) /\ forward = 0 /\ LockAvailable(plan[c])
    /\ Goto(c, "observed")
    /\ UNCHANGED <<world, lifecycle, retirement, plan, late, histories>>

LeaveFence(c) ==
    /\ pc[c] = "observed"
    /\ InstanceStopped(plan[c]) /\ SocketKnown(plan[c]) /\ LockAvailable(plan[c])
    /\ Goto(c, "left")
    /\ UNCHANGED <<world, lifecycle, retirement, plan, late, histories>>

SettleRetirement(c) ==
    /\ pc[c] = "left"
    /\ retirement' = [retirement EXCEPT !.status =
                         IF plan[c].action = "retire" THEN "completed" ELSE "reconciled"]
    /\ End(c)
    /\ UNCHANGED <<world, lifecycle, late, histories>>

-----------------------------------------------------------------------------
(* What happens beside the calls.  Nobody starts or stops the machine by hand, *)
(* but Lima may catch up with a call that is gone, whoever is in the fence.    *)

CarryOutLate ==
    \E command \in late :
        /\ CarryOut(command)
        /\ late' = late \ {command}
        /\ overtaken' = {c \in Calls : pc[c] = "verified"}
        /\ UNCHANGED <<lockId, closure, lifecycle, retirement, pc, plan, removals>>

ServiceExit ==
    /\ held /\ vm # "running" /\ held' = FALSE
    /\ UNCHANGED <<vm, forward, issued, lockId, closure>>

ForwardVanishes ==
    /\ forward # 0 /\ vm = "stopped" /\ forward' = 0
    /\ UNCHANGED <<vm, issued, held, lockId, closure>>

EditArtifacts ==
    /\ closure + lockId < MaxEdits /\ closure' = closure + 1
    /\ UNCHANGED <<vm, forward, issued, held, lockId>>

ReplaceLock ==
    /\ closure + lockId < MaxEdits /\ lockId' = lockId + 1
    /\ UNCHANGED <<vm, forward, issued, held, closure>>

ManagedStep(c) == ApplyManaged(c) \/ RecordManaged(c) \/ Drive(c) \/ SettleManaged(c)

RetirementStep(c) ==
    \/ Bind(c) \/ OpenJournal(c) \/ EnterFence(c) \/ VerifyQuiescent(c)
    \/ RetireSocket(c) \/ ObserveRetired(c) \/ LeaveFence(c) \/ SettleRetirement(c)

Environment ==
    /\ ServiceExit \/ ForwardVanishes \/ EditArtifacts \/ ReplaceLock
    /\ UNCHANGED <<lifecycle, retirement, pc, plan, late, histories>>

Next ==
    \/ \E c \in Calls : PlanManaged(c) \/ PlanRetirement(c) \/ Fail(c) \/ ManagedStep(c) \/ RetirementStep(c)
    \/ CarryOutLate
    \/ Environment

Spec == Init /\ [][Next]_vars

-----------------------------------------------------------------------------
(* A settled retirement is true for good: the socket it names is gone, and     *)
(* only a call that unlinked a socket itself is recorded as completed: the one *)
(* it names, or what a late command had put in its place after the call's last *)
(* look.  An observation after a lost reply may settle the record, as          *)
(* reconciled.                                                                 *)
SettledIsTrue ==
    /\ retirement.status \in {"completed", "reconciled"} => forward # retirement.forward
    /\ retirement.status = "completed" =>
           \E r \in removals :
               /\ r.op = retirement.op
               /\ r.forward = retirement.forward \/ r.overtaken

(* A retirement unlinks the very socket that was reviewed, and only while the  *)
(* machine is stopped, whatever life cycle calls other processes make between  *)
(* its last look and the removal.  The fence gives this against calls that     *)
(* live.  It does not against a start that a call which is gone had already    *)
(* given to Lima: a retirement does not read the life cycle journal, where     *)
(* that call is still uncertain, and when such a command is carried out after  *)
(* the last look nothing is promised of that removal.                          *)
RemovesReviewed ==
    \A c \in Calls : pc[c] = "verified" /\ pc'[c] = "removed" /\ c \notin overtaken =>
        vm = "stopped" /\ forward = plan[c].forward

RemovedAsReviewed == [][RemovesReviewed]_vars
=============================================================================
