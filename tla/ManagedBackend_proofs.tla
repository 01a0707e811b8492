------------------------ MODULE ManagedBackend_proofs ------------------------
(* For any number of processes, operations, sockets and changes from outside:  *)
(* a settled retirement is true, and a retirement removes the reviewed socket  *)
(* of a stopped machine only, unless a late command overtook it.               *)
EXTENDS ManagedBackend, TLAPS

-----------------------------------------------------------------------------
(* The inductive invariant.                                                    *)

InFence(c) == pc[c] \in Managing \cup Fenced
InJournal(c) == pc[c] \in Journaling

\* The fence and the journal of the retirements admit one call at a time.
LockInv ==
    /\ \A c, d \in Calls : InFence(c) /\ InFence(d) => c = d
    /\ \A c, d \in Calls : InJournal(c) /\ InJournal(d) => c = d

\* The next socket is unlike any the journal knows.
SocketInv ==
    /\ forward <= issued /\ retirement.forward <= issued
    /\ retirement.status # "empty" => retirement.forward # 0

\* Where a call stands tells what it was reviewed for.
Role(c) ==
    /\ pc[c] = "bound" \/ InJournal(c) => plan[c].action \in RetirementActions
    /\ pc[c] \in {"verified", "removed"} => plan[c].action = "retire"
    /\ pc[c] # "idle" /\ plan[c].action \in RetirementActions => plan[c].forward # 0
    /\ pc[c] # "idle" => plan[c].forward <= issued

\* The journal names what the call inside it was reviewed with.
Record(c) ==
    InJournal(c) =>
        retirement = [op |-> plan[c].op, forward |-> plan[c].forward, status |-> "uncertain"]

\* A removal by this operation: of this socket, or of what had taken its place.
Unlinked(op, socket) ==
    \E r \in removals : r.op = op /\ (r.forward = socket \/ r.overtaken)

\* From its last look on, the call's socket can only go, and the machine stays
\* stopped until the socket is removed, as long as no late command is carried out.
Look(c) ==
    /\ pc[c] = "verified" /\ c \notin overtaken =>
           vm = "stopped" /\ forward \in {0, plan[c].forward}
    /\ pc[c] \in {"observed", "left"} => forward # plan[c].forward
    /\ pc[c] \in {"removed", "observed", "left"} /\ plan[c].action = "retire" =>
           Unlinked(plan[c].op, plan[c].forward)

CallInv(c) == Role(c) /\ Record(c) /\ Look(c)

IInv == TypeOK /\ LockInv /\ SocketInv /\ (\A c \in Calls : CallInv(c)) /\ SettledIsTrue

-----------------------------------------------------------------------------
(* A step moves one call at most.                                              *)

\* Call c goes to a phase with a plan of the phase's type.
Moves(c, phase, p) ==
    /\ phase \in Phases
    /\ p \in IF phase = "idle" THEN {NoOp} ELSE Plans
    /\ pc' = [pc EXCEPT ![c] = phase]
    /\ plan' = [plan EXCEPT ![c] = p]

\* What a step does to the shared state disturbs call d in nothing that d
\* relies on.
Undisturbed(d) ==
    /\ pc'[d] = pc[d] /\ plan'[d] = plan[d]
    /\ pc[d] = "verified" =>
           \/ d \in overtaken'
           \/ d \notin overtaken /\ vm' = vm /\ forward' \in {0, forward}
    /\ forward' \in {0, forward, issued + 1}
    /\ issued' \in {issued, issued + 1}
    /\ retirement' = retirement \/ ~InJournal(d)
    /\ removals \subseteq removals'

\* The sockets and the journal of the retirements are as before.
RetirementStays == UNCHANGED <<vm, forward, issued, retirement, removals>>

LEMMA InitInv ==
    ASSUME Init
    PROVE  IInv
  <1> USE BackendAssumption
  <1>1. TypeOK
    <2>1. vm \in {"absent", "stopped", "running"} /\ held \in BOOLEAN
      BY DEF Init
    <2>2. /\ forward \in 0..MaxForwards /\ issued \in 0..MaxForwards
          /\ lockId \in 0..MaxEdits /\ closure \in Closures
      BY DEF Init, Closures
    <2>3. lifecycle \in [op : Ops \cup {NoOp}, status : Statuses]
      BY DEF Init, Statuses
    <2>4. retirement \in [op : Ops \cup {NoOp}, forward : 0..MaxForwards, status : Statuses]
      BY DEF Init, Statuses
    <2>5. /\ pc \in [Calls -> Phases] /\ plan \in [Calls -> Plans \cup {NoOp}]
          /\ \A c \in Calls : plan[c] \in IF pc[c] = "idle" THEN {NoOp} ELSE Plans
      BY DEF Init, Phases
    <2>6. /\ removals \subseteq [op : Ops, forward : 1..MaxForwards, overtaken : BOOLEAN]
          /\ late \subseteq Effects /\ overtaken \subseteq {c \in Calls : pc[c] = "verified"}
      BY DEF Init
    <2> QED
      BY <2>1, <2>2, <2>3, <2>4, <2>5, <2>6 DEF TypeOK
  <1>2. LockInv /\ \A c \in Calls : CallInv(c)
    BY DEF Init, LockInv, CallInv, Role, Record, Look, InFence, InJournal, Managing, Fenced,
           Journaling
  <1>3. SocketInv /\ SettledIsTrue
    BY DEF Init, SocketInv, SettledIsTrue
  <1> QED
    BY <1>1, <1>2, <1>3 DEF IInv

\* A call that a step leaves alone keeps its part of the invariant.
LEMMA OthersKeep ==
    ASSUME TypeOK, NEW d \in Calls, CallInv(d), Undisturbed(d)
    PROVE  CallInv(d)'
  <1> USE BackendAssumption
  <1>1. /\ issued \in Nat /\ forward \in Nat
        /\ pc[d] # "idle" => plan[d] \in Plans /\ plan[d].forward \in Nat
    BY DEF TypeOK, Plans
  <1>2. Role(d)'
    BY <1>1 DEF CallInv, Role, Undisturbed, InJournal
  <1>3. Record(d)'
    BY <1>1 DEF CallInv, Record, Undisturbed, InJournal
  <1>4. Look(d)'
    <2>1. pc[d] \in {"observed", "left"} =>
              plan[d].forward # 0 /\ plan[d].forward <= issued
      BY DEF CallInv, Role, InJournal, Journaling, Fenced
    <2>2. pc[d] = "verified" /\ d \notin overtaken' =>
              vm' = "stopped" /\ forward' \in {0, plan[d].forward}
      BY DEF CallInv, Look, Undisturbed
    <2>3. pc[d] \in {"observed", "left"} => forward' # plan[d].forward
      BY <1>1, <2>1 DEF CallInv, Look, Undisturbed
    <2>4. Unlinked(plan[d].op, plan[d].forward) => Unlinked(plan[d].op, plan[d].forward)'
      BY DEF Unlinked, Undisturbed
    <2> QED
      BY <2>2, <2>3, <2>4 DEF CallInv, Look, Undisturbed
  <1> QED
    BY <1>2, <1>3, <1>4 DEF CallInv

\* The calls keep their types when one of them moves.
LEMMA MoveTypes ==
    ASSUME TypeOK, NEW c \in Calls, NEW phase, NEW p, Moves(c, phase, p)
    PROVE  /\ pc' \in [Calls -> Phases]
           /\ plan' \in [Calls -> Plans \cup {NoOp}]
           /\ \A d \in Calls : plan'[d] \in IF pc'[d] = "idle" THEN {NoOp} ELSE Plans
           /\ pc'[c] = phase /\ plan'[c] = p
           /\ \A d \in Calls \ {c} : pc'[d] = pc[d] /\ plan'[d] = plan[d]
  BY DEF TypeOK, Moves

\* Only a call between its look and its removal is overtaken.
LEMMA OvertakenKeeps ==
    ASSUME TypeOK, NEW c \in Calls, NEW phase, NEW p, Moves(c, phase, p),
           \/ overtaken' = overtaken \ {c}
           \/ overtaken' = overtaken /\ pc[c] # "verified"
    PROVE  /\ overtaken' \subseteq {d \in Calls : pc'[d] = "verified"}
           /\ \A d \in Calls \ {c} : d \in overtaken' <=> d \in overtaken
  BY MoveTypes DEF TypeOK

\* A call enters a lock that is free, or stays in the locks it holds.
LEMMA LocksKeep ==
    ASSUME TypeOK, LockInv, NEW c \in Calls, NEW phase, NEW p, Moves(c, phase, p),
           phase \in Managing \cup Fenced => InFence(c) \/ FenceFree,
           phase \in Journaling => InJournal(c) \/ JournalFree
    PROVE  LockInv'
  BY MoveTypes DEF LockInv, InFence, InJournal, FenceFree, JournalFree

\* A step of one call that touches neither sockets nor journal preserves the
\* invariant when the call itself keeps its part.
LEMMA LocalStep ==
    ASSUME IInv, NEW c \in Calls, NEW phase, NEW p, Moves(c, phase, p),
           RetirementStays, UNCHANGED <<held, lockId, closure>>,
           late' \subseteq Effects,
           \/ overtaken' = overtaken \ {c}
           \/ overtaken' = overtaken /\ pc[c] # "verified",
           lifecycle' \in [op : Ops \cup {NoOp}, status : Statuses],
           phase \in Managing \cup Fenced => InFence(c) \/ FenceFree,
           phase \in Journaling => InJournal(c) \/ JournalFree,
           CallInv(c)'
    PROVE  IInv'
  <1>1. TypeOK'
    BY MoveTypes, OvertakenKeeps DEF IInv, TypeOK, RetirementStays
  <1>2. LockInv'
    BY LocksKeep DEF IInv
  <1>3. SocketInv' /\ SettledIsTrue'
    BY DEF IInv, SocketInv, SettledIsTrue, RetirementStays
  <1>4. \A d \in Calls \ {c} : CallInv(d)'
    <2> SUFFICES ASSUME NEW d \in Calls \ {c} PROVE CallInv(d)'
      OBVIOUS
    <2>1. Undisturbed(d)
      BY MoveTypes, OvertakenKeeps DEF IInv, Undisturbed, RetirementStays
    <2> QED
      BY <2>1, OthersKeep DEF IInv
  <1> QED
    BY <1>1, <1>2, <1>3, <1>4 DEF IInv

\* What a phase asks of a call: a call is given phase and plan p by a step that
\* leaves sockets, machine and journal as they are.
LEMMA MoverKeeps ==
    ASSUME TypeOK, NEW c \in Calls, CallInv(c), NEW phase, NEW p, Moves(c, phase, p),
           RetirementStays,
           phase = "bound" \/ phase \in Journaling => p.action \in RetirementActions,
           phase \in {"verified", "removed"} => p.action = "retire",
           phase # "idle" => p.forward <= issued,
           phase # "idle" /\ p.action \in RetirementActions => p.forward # 0,
           phase \in Journaling => InJournal(c) /\ p = plan[c],
           phase = "verified" => vm = "stopped" /\ forward = p.forward,
           phase \in {"observed", "left"} => forward # p.forward,
           phase \in {"removed", "observed", "left"} /\ p.action = "retire" =>
               Unlinked(p.op, p.forward)
    PROVE  CallInv(c)'
  <1>1. pc'[c] = phase /\ plan'[c] = p
    BY MoveTypes
  <1>2. Role(c)'
    BY <1>1 DEF Role, InJournal, RetirementStays
  <1>3. Record(c)'
    BY <1>1 DEF CallInv, Record, InJournal, RetirementStays
  <1>4. Look(c)'
    BY <1>1 DEF Look, RetirementStays, Unlinked
  <1> QED
    BY <1>2, <1>3, <1>4 DEF CallInv

\* A reviewed plan names a socket that was seen, or the one the journal names.
LEMMA ReviewedKeeps ==
    ASSUME IInv, NEW c \in Calls, PlanManaged(c) \/ PlanRetirement(c)
    PROVE  IInv'
  <1> USE BackendAssumption
  <1>1. PICK p \in Plans :
            /\ plan' = [plan EXCEPT ![c] = p]
            /\ p.forward <= issued
            /\ p.action \in RetirementActions => p.forward # 0
    <2>1. CASE PlanManaged(c)
      <3>1. PICK action \in LifecycleActions, op \in Ops :
                Reviewed(c, ManagedConfigurations(action, op))
        BY <2>1 DEF PlanManaged
      <3>2. PICK p \in ManagedConfigurations(action, op) : plan' = [plan EXCEPT ![c] = p]
        BY <3>1 DEF Reviewed
      <3>3. p \in Plans /\ p.forward = 0 /\ p.action \notin RetirementActions
        BY <3>2 DEF ManagedConfigurations, LifecycleActions, RetirementActions, Effects, Plans,
                    IInv, TypeOK
      <3>4. 0 <= issued
        BY DEF IInv, TypeOK
      <3> QED
        BY <3>2, <3>3, <3>4
    <2>2. CASE PlanRetirement(c)
      <3>1. PICK action \in RetirementActions, op \in Ops :
                Reviewed(c, RetirementConfigurations(action, op))
        BY <2>2 DEF PlanRetirement
      <3>2. PICK p \in RetirementConfigurations(action, op) :
                plan' = [plan EXCEPT ![c] = p]
        BY <3>1 DEF Reviewed
      <3>3. p \in Plans /\ p.forward \in {forward, retirement.forward} \ {0}
        BY <3>2 DEF RetirementConfigurations, Plans, IInv, TypeOK
      <3> QED
        BY <3>2, <3>3 DEF IInv, SocketInv
    <2> QED
      BY <2>1, <2>2
  <1>2. /\ pc[c] = "idle" /\ pc' = [pc EXCEPT ![c] = "reviewed"]
        /\ UNCHANGED <<world, lifecycle, retirement, late, overtaken, removals>>
    BY DEF PlanManaged, PlanRetirement, Reviewed, Goto, histories
  <1>3. Moves(c, "reviewed", p)
    BY <1>1, <1>2 DEF Moves, Phases
  <1>4. RetirementStays /\ UNCHANGED <<held, lockId, closure>> /\ lifecycle' = lifecycle
    BY <1>2 DEF RetirementStays, world
  <1>5. "reviewed" \notin Managing \cup Fenced /\ "reviewed" \notin Journaling
    BY DEF Managing, Fenced, Journaling
  <1>6. CallInv(c)'
    BY <1>1, <1>3, <1>4, <1>5, MoverKeeps DEF IInv
  <1> QED
    BY <1>2, <1>3, <1>4, <1>5, <1>6, LocalStep DEF IInv, TypeOK

\* A call that ends, whatever the reason, leaves its locks.
LEMMA EndKeeps ==
    ASSUME IInv, NEW c \in Calls, Fail(c) \/ SettleManaged(c)
    PROVE  IInv'
  <1>1. Moves(c, "idle", NoOp)
    BY DEF Fail, SettleManaged, End, Goto, Moves, Phases
  <1>2. /\ RetirementStays /\ UNCHANGED <<held, lockId, closure>>
        /\ \/ overtaken' = overtaken \ {c}
           \/ overtaken' = overtaken /\ pc[c] # "verified"
    BY DEF Fail, SettleManaged, RetirementStays, world, histories
  <1>3. lifecycle' \in [op : Ops \cup {NoOp}, status : Statuses]
    <2>1. CASE Fail(c)
      BY <2>1 DEF Fail, IInv, TypeOK
    <2>2. CASE SettleManaged(c)
      <3>1. pc[c] # "idle"
        BY <2>2 DEF SettleManaged
      <3>2. plan[c].op \in Ops
        BY <3>1 DEF IInv, TypeOK, Plans
      <3> QED
        BY <2>2, <3>2 DEF SettleManaged, Statuses
    <2> QED
      BY <2>1, <2>2
  <1>4. "idle" \notin Managing \cup Fenced /\ "idle" \notin Journaling
    BY DEF Managing, Fenced, Journaling
  <1>5. CallInv(c)'
    BY <1>1, <1>2, <1>4, MoverKeeps DEF IInv
  <1>6. late' \subseteq Effects
    BY DEF Fail, SettleManaged, Asked, IInv, TypeOK
  <1> QED
    BY <1>1, <1>2, <1>3, <1>4, <1>5, <1>6, LocalStep

\* The life cycle call enters the fence and writes its own journal.
LEMMA ManagedKeeps ==
    ASSUME IInv, NEW c \in Calls, ApplyManaged(c) \/ RecordManaged(c)
    PROVE  IInv'
  <1> DEFINE phase == IF pc[c] = "reviewed" THEN "driving" ELSE "acting"
  <1>1. /\ pc[c] \in {"reviewed", "driving"} /\ pc' = [pc EXCEPT ![c] = phase]
        /\ plan' = plan
    BY DEF ApplyManaged, RecordManaged, Goto
  <1>2. plan[c] \in Plans
    BY <1>1 DEF IInv, TypeOK
  <1>3. Moves(c, phase, plan[c])
    BY <1>1, <1>2 DEF Moves, Phases, Managing, IInv, TypeOK
  <1>4. RetirementStays /\ UNCHANGED <<held, lockId, closure, late, overtaken>>
    BY DEF ApplyManaged, RecordManaged, RetirementStays, world, histories
  <1>5. lifecycle' \in [op : Ops \cup {NoOp}, status : Statuses]
    BY <1>2 DEF ApplyManaged, RecordManaged, IInv, TypeOK, Plans, Statuses
  <1>6. phase \notin Journaling /\ phase \notin {"idle", "bound"}
    BY DEF Journaling, Fenced
  <1>7. InFence(c) \/ FenceFree
    BY DEF ApplyManaged, RecordManaged, InFence, Managing
  <1>8. plan[c].forward <= issued /\ (plan[c].action \in RetirementActions => plan[c].forward # 0)
    BY <1>1 DEF IInv, CallInv, Role
  <1>9. CallInv(c)'
    BY <1>3, <1>4, <1>6, <1>8, MoverKeeps DEF IInv, Journaling, Fenced
  <1>10. late' \subseteq Effects /\ pc[c] # "verified"
    BY <1>1, <1>4 DEF IInv, TypeOK
  <1> QED
    BY <1>3, <1>4, <1>5, <1>6, <1>7, <1>9, <1>10, LocalStep

\* A retirement that only looks learns what its next phase says.
LEMMA LookingKeeps ==
    ASSUME IInv, NEW c \in Calls,
           \/ Bind(c) \/ EnterFence(c) \/ VerifyQuiescent(c)
           \/ ObserveRetired(c) \/ LeaveFence(c)
    PROVE  IInv'
  <1>1. PICK phase \in {"bound", "fenced", "verified", "observed", "left"} :
            /\ pc' = [pc EXCEPT ![c] = phase] /\ plan' = plan
            /\ plan[c].action \in RetirementActions /\ pc[c] \notin {"idle", "verified"}
            /\ phase # "bound" => InJournal(c)
            /\ phase \in Fenced => InFence(c) \/ FenceFree
            /\ phase = "verified" => /\ plan[c].action = "retire"
                                     /\ vm = "stopped" /\ forward = plan[c].forward
            /\ phase = "observed" => forward = 0
            /\ phase = "left" => forward # plan[c].forward
            /\ phase \in {"observed", "left"} /\ plan[c].action = "retire" =>
                   pc[c] \in {"removed", "observed", "left"}
    <2>1. CASE Bind(c)
      <3>1. "bound" \notin Fenced
        BY DEF Fenced
      <3> QED
        BY <2>1, <3>1 DEF Bind, Goto, world
    <2>2. CASE EnterFence(c)
      <3>1. InJournal(c)
        BY <2>2 DEF EnterFence, InJournal, Journaling
      <3>2. plan[c].action \in RetirementActions
        BY <3>1 DEF IInv, CallInv, Role
      <3> QED
        BY <2>2, <3>1, <3>2 DEF EnterFence, Goto, world
    <2>3. CASE VerifyQuiescent(c)
      <3>1. InJournal(c) /\ InFence(c)
        BY <2>3 DEF VerifyQuiescent, InJournal, InFence, Journaling, Fenced
      <3> QED
        BY <2>3, <3>1 DEF VerifyQuiescent, InstanceStopped, Goto, RetirementActions
    <2>4. CASE ObserveRetired(c)
      <3>1. InJournal(c) /\ InFence(c) /\ pc[c] # "idle"
        BY <2>4 DEF ObserveRetired, InJournal, InFence, Journaling, Fenced
      <3>2. plan[c].action \in RetirementActions
        BY <3>1 DEF IInv, CallInv, Role
      <3> QED
        BY <2>4, <3>1, <3>2 DEF ObserveRetired, Goto
    <2>5. CASE LeaveFence(c)
      <3>1. InJournal(c) /\ pc[c] = "observed" /\ "left" \notin Fenced
        BY <2>5 DEF LeaveFence, InJournal, Journaling, Fenced
      <3>2. plan[c].action \in RetirementActions /\ forward # plan[c].forward
        BY <3>1 DEF IInv, CallInv, Role, Look
      <3> QED
        BY <2>5, <3>1, <3>2 DEF LeaveFence, Goto
    <2> QED
      BY <2>1, <2>2, <2>3, <2>4, <2>5
  <1>2. UNCHANGED <<world, lifecycle, retirement, late, overtaken, removals>>
    BY DEF Bind, EnterFence, VerifyQuiescent, ObserveRetired, LeaveFence, histories
  <1>3. RetirementStays /\ UNCHANGED <<held, lockId, closure>> /\ lifecycle' = lifecycle
    BY <1>2 DEF RetirementStays, world
  <1>4. plan[c] \in Plans /\ phase \in Phases /\ phase # "idle"
    BY <1>1 DEF IInv, TypeOK, Phases, Journaling, Fenced
  <1>5. Moves(c, phase, plan[c])
    BY <1>1, <1>4 DEF Moves, IInv, TypeOK
  <1>6. phase \notin Managing
    BY DEF Managing
  <1>7. /\ plan[c].forward <= issued /\ plan[c].forward # 0
        /\ pc[c] \in {"removed", "observed", "left"} /\ plan[c].action = "retire" =>
               Unlinked(plan[c].op, plan[c].forward)
    BY <1>1 DEF IInv, CallInv, Role, Look
  <1>8. phase \in Journaling => InJournal(c)
    BY <1>1 DEF Journaling, Fenced
  <1>9. CallInv(c)'
    BY <1>1, <1>3, <1>5, <1>7, <1>8, MoverKeeps DEF IInv
  <1> QED
    BY <1>1, <1>2, <1>3, <1>5, <1>6, <1>8, <1>9, LocalStep DEF IInv, TypeOK

\* What Lima does to the machine keeps the sockets apart.
LEMMA CarryOutKeeps ==
    ASSUME IInv, UNCHANGED <<retirement, removals>>,
           \/ \E action : CarryOut(action)
           \/ UNCHANGED <<vm, forward, issued, held>>
    PROVE  /\ vm' \in {"absent", "stopped", "running"} /\ held' \in BOOLEAN
           /\ forward' \in 0..MaxForwards /\ issued' \in 0..MaxForwards
           /\ forward' \in {0, forward, issued + 1} /\ issued' \in {issued, issued + 1}
           /\ SocketInv' /\ SettledIsTrue'
  <1> USE BackendAssumption
  <1>1. /\ vm' \in {"absent", "stopped", "running"} /\ held' \in BOOLEAN
        /\ \/ forward' \in {0, forward} /\ issued' = issued
           \/ forward' = issued + 1 /\ issued' = issued + 1 /\ issued < MaxForwards
    BY DEF CarryOut, IInv, TypeOK
  <1>2. /\ issued \in Nat /\ forward \in Nat /\ retirement.forward \in Nat
        /\ issued <= MaxForwards /\ forward <= issued /\ retirement.forward <= issued
    BY DEF IInv, TypeOK, SocketInv
  <1>3. forward' \in 0..MaxForwards /\ issued' \in 0..MaxForwards
    BY <1>1, <1>2
  <1>4. SocketInv'
    BY <1>1, <1>2 DEF IInv, SocketInv
  <1>5. SettledIsTrue'
    <2>1. retirement.status \in {"completed", "reconciled"} => forward' # retirement.forward
      BY <1>1, <1>2 DEF IInv, SettledIsTrue, SocketInv
    <2> QED
      BY <2>1 DEF IInv, SettledIsTrue
  <1> QED
    BY <1>1, <1>3, <1>4, <1>5

\* The driver moves the machine and its sockets inside the fence: no other call
\* relies on them there.
LEMMA DriveKeeps ==
    ASSUME IInv, NEW c \in Calls, Drive(c)
    PROVE  IInv'
  <1>1. /\ pc[c] = "acting" /\ InFence(c) /\ plan[c] \in Plans
        /\ Moves(c, "acted", plan[c])
        /\ UNCHANGED <<lockId, closure, lifecycle, retirement, late, overtaken, removals>>
    BY DEF Drive, Goto, Moves, Phases, Managing, InFence, IInv, TypeOK, histories
  <1>2. /\ vm' \in {"absent", "stopped", "running"} /\ held' \in BOOLEAN
        /\ forward' \in 0..MaxForwards /\ issued' \in 0..MaxForwards
        /\ forward' \in {0, forward, issued + 1} /\ issued' \in {issued, issued + 1}
        /\ SocketInv' /\ SettledIsTrue'
    BY <1>1, CarryOutKeeps DEF Drive
  <1>3. TypeOK'
    BY <1>1, <1>2, MoveTypes, OvertakenKeeps DEF IInv, TypeOK
  <1>4. LockInv'
    <2>1. "acted" \notin Journaling
      BY DEF Journaling, Fenced
    <2> QED
      BY <1>1, <2>1, LocksKeep DEF IInv
  <1>5. CallInv(c)'
    <2>1. pc'[c] = "acted" /\ plan'[c] = plan[c]
      BY <1>1, MoveTypes DEF IInv
    <2>2. /\ plan[c].action \in RetirementActions => plan[c].forward # 0
          /\ plan[c].forward <= issued /\ plan[c].forward \in Nat
      BY <1>1 DEF IInv, CallInv, Role, Plans
    <2>3. plan[c].forward <= issued'
      BY <1>2, <2>2 DEF IInv, TypeOK
    <2>4. "acted" \notin Journaling
      BY DEF Journaling, Fenced
    <2> QED
      BY <2>1, <2>2, <2>3, <2>4 DEF CallInv, Role, Record, Look, InJournal
  <1>6. ASSUME NEW d \in Calls \ {c} PROVE CallInv(d)'
    <2>1. pc[d] # "verified"
      BY <1>1 DEF IInv, LockInv, InFence, Fenced
    <2>2. Undisturbed(d)
      BY <1>1, <1>2, <2>1, MoveTypes DEF IInv, Undisturbed
    <2> QED
      BY <2>2, OthersKeep DEF IInv
  <1> QED
    BY <1>2, <1>3, <1>4, <1>5, <1>6 DEF IInv

\* A late command moves them whoever is in the fence: the call past its last look
\* is overtaken, and no other call relies on them.
LEMMA LateKeeps ==
    ASSUME IInv, CarryOutLate
    PROVE  IInv'
  <1>1. /\ UNCHANGED <<lockId, closure, lifecycle, retirement, pc, plan, removals>>
        /\ overtaken' = {c \in Calls : pc[c] = "verified"}
        /\ late' \subseteq late
        /\ \E action : CarryOut(action)
    BY DEF CarryOutLate
  <1>2. /\ vm' \in {"absent", "stopped", "running"} /\ held' \in BOOLEAN
        /\ forward' \in 0..MaxForwards /\ issued' \in 0..MaxForwards
        /\ forward' \in {0, forward, issued + 1} /\ issued' \in {issued, issued + 1}
        /\ SocketInv' /\ SettledIsTrue'
    BY <1>1, CarryOutKeeps
  <1>3. TypeOK'
    BY <1>1, <1>2 DEF IInv, TypeOK
  <1>4. LockInv'
    BY <1>1 DEF IInv, LockInv, InFence, InJournal
  <1>5. ASSUME NEW d \in Calls PROVE CallInv(d)'
    <2>1. Undisturbed(d)
      BY <1>1, <1>2 DEF Undisturbed
    <2> QED
      BY <2>1, OthersKeep DEF IInv
  <1> QED
    BY <1>2, <1>3, <1>4, <1>5 DEF IInv

\* A retirement records itself before anything else, in a journal no other call
\* is writing.
LEMMA OpenKeeps ==
    ASSUME IInv, NEW c \in Calls, OpenJournal(c)
    PROVE  IInv'
  <1> USE BackendAssumption
  <1>1. /\ pc[c] = "bound" /\ JournalFree /\ plan[c] \in Plans
        /\ Moves(c, "recorded", plan[c])
        /\ UNCHANGED <<vm, forward, issued, held, lockId, closure, lifecycle>>
        /\ UNCHANGED <<late, overtaken, removals>>
        /\ retirement' = [op |-> plan[c].op, forward |-> plan[c].forward,
                         status |-> "uncertain"]
    BY DEF OpenJournal, Goto, Moves, Phases, Journaling, IInv, TypeOK, world, histories
  <1>2. /\ plan[c].op \in Ops /\ plan[c].forward \in 0..MaxForwards
        /\ plan[c].action \in RetirementActions
        /\ plan[c].forward # 0 /\ plan[c].forward <= issued
    BY <1>1 DEF IInv, CallInv, Role, Plans
  <1>3. TypeOK'
    <2>1. retirement' \in [op : Ops \cup {NoOp}, forward : 0..MaxForwards,
                           status : Statuses]
      BY <1>1, <1>2 DEF Statuses
    <2> QED
      BY <1>1, <2>1, MoveTypes, OvertakenKeeps DEF IInv, TypeOK
  <1>4. LockInv'
    <2>1. "recorded" \notin Managing \cup Fenced
      BY DEF Managing, Fenced
    <2> QED
      BY <1>1, <2>1, LocksKeep DEF IInv
  <1>5. SocketInv' /\ SettledIsTrue'
    BY <1>1, <1>2 DEF IInv, SocketInv, SettledIsTrue
  <1>6. CallInv(c)'
    <2>1. pc'[c] = "recorded" /\ plan'[c] = plan[c]
      BY <1>1, MoveTypes DEF IInv
    <2> QED
      BY <1>1, <1>2, <2>1 DEF CallInv, Role, Record, Look
  <1>7. ASSUME NEW d \in Calls \ {c} PROVE CallInv(d)'
    <2>1. ~InJournal(d)
      BY <1>1 DEF JournalFree, InJournal
    <2>2. Undisturbed(d)
      BY <1>1, <2>1, MoveTypes, OvertakenKeeps DEF IInv, Undisturbed
    <2> QED
      BY <2>2, OthersKeep DEF IInv
  <1> QED
    BY <1>3, <1>4, <1>5, <1>6, <1>7 DEF IInv

\* The socket that goes is the reviewed one, unless the call was overtaken.
LEMMA RetireKeeps ==
    ASSUME IInv, NEW c \in Calls, RetireSocket(c)
    PROVE  IInv'
  <1> USE BackendAssumption
  <1>1. /\ pc[c] = "verified" /\ InFence(c) /\ InJournal(c) /\ plan[c] \in Plans
        /\ Moves(c, "removed", plan[c])
        /\ forward # 0 /\ forward' = 0
        /\ removals' = removals \cup
              {[op |-> plan[c].op, forward |-> forward, overtaken |-> c \in overtaken]}
        /\ overtaken' = overtaken \ {c}
        /\ UNCHANGED <<vm, issued, held, lockId, closure, lifecycle, retirement, late>>
    BY DEF RetireSocket, Goto, Moves, Phases, Journaling, Fenced, InFence, InJournal, IInv,
           TypeOK
  <1>2. /\ plan[c].op \in Ops /\ forward \in 1..MaxForwards
        /\ forward = plan[c].forward \/ c \in overtaken
        /\ plan[c].action \in RetirementActions /\ plan[c].forward <= issued
    <2>1. plan[c].op \in Ops /\ forward \in 0..MaxForwards
      BY <1>1 DEF IInv, TypeOK, Plans
    <2>2. /\ plan[c].action \in RetirementActions /\ plan[c].forward <= issued
          /\ forward \in {0, plan[c].forward} \/ c \in overtaken
      BY <1>1 DEF IInv, CallInv, Role, Look
    <2> QED
      BY <1>1, <2>1, <2>2
  <1>2a. PICK r \in [op : Ops, forward : 1..MaxForwards, overtaken : BOOLEAN] :
            /\ removals' = removals \cup {r}
            /\ r.op = plan[c].op /\ r.forward = forward
            /\ c \in overtaken => r.overtaken
    <2>1. PICK b \in BOOLEAN : b = (c \in overtaken)
      <3>1. (c \in overtaken) \in BOOLEAN
        OBVIOUS
      <3> QED
        BY <3>1, Zenon
    <2>2. removals' = removals \cup {[op |-> plan[c].op, forward |-> forward, overtaken |-> b]}
      BY <1>1, <2>1, Zenon
    <2>3. [op |-> plan[c].op, forward |-> forward, overtaken |-> b]
              \in [op : Ops, forward : 1..MaxForwards, overtaken : BOOLEAN]
      BY <1>2, <2>1
    <2>4. c \in overtaken => b
      BY <2>1
    <2> QED
      BY <2>2, <2>3, <2>4
  <1>3. TypeOK'
    <2>1. removals' \subseteq [op : Ops, forward : 1..MaxForwards, overtaken : BOOLEAN]
      BY <1>2a DEF IInv, TypeOK
    <2> QED
      BY <1>1, <2>1, MoveTypes, OvertakenKeeps DEF IInv, TypeOK
  <1>4. LockInv'
    BY <1>1, LocksKeep DEF IInv
  <1>5. SocketInv' /\ SettledIsTrue'
    <2>1. issued \in Nat
      BY DEF IInv, TypeOK
    <2> QED
      BY <1>1, <2>1 DEF IInv, SocketInv, SettledIsTrue
  <1>6. CallInv(c)'
    <2>1. pc'[c] = "removed" /\ plan'[c] = plan[c]
      BY <1>1, MoveTypes DEF IInv
    <2>2. Role(c)'
      BY <1>1, <1>2, <2>1 DEF IInv, CallInv, Role
    <2>3. Record(c)'
      BY <1>1, <2>1 DEF IInv, CallInv, Record
    <2>4. Unlinked(plan[c].op, plan[c].forward)'
      <3>1. r \in removals' /\ (r.forward = plan[c].forward \/ r.overtaken)
        BY <1>2, <1>2a
      <3> QED
        BY <1>2a, <2>1, <3>1 DEF Unlinked
    <2>5. Look(c)'
      BY <2>1, <2>4 DEF Look, Unlinked
    <2> QED
      BY <2>2, <2>3, <2>5 DEF CallInv
  <1>7. ASSUME NEW d \in Calls \ {c} PROVE CallInv(d)'
    <2>1. Undisturbed(d)
      BY <1>1, MoveTypes, OvertakenKeeps DEF IInv, Undisturbed
    <2> QED
      BY <2>1, OthersKeep DEF IInv
  <1> QED
    BY <1>3, <1>4, <1>5, <1>6, <1>7 DEF IInv

\* The journal is settled for the socket its call knows to be gone.
LEMMA SettleKeeps ==
    ASSUME IInv, NEW c \in Calls, SettleRetirement(c)
    PROVE  IInv'
  <1> USE BackendAssumption
  <1> DEFINE status == IF plan[c].action = "retire" THEN "completed" ELSE "reconciled"
  <1>1. /\ pc[c] = "left" /\ InJournal(c) /\ plan[c] \in Plans
        /\ Moves(c, "idle", NoOp)
        /\ UNCHANGED <<vm, forward, issued, held, lockId, closure, lifecycle>>
        /\ UNCHANGED <<late, overtaken, removals>>
        /\ retirement' = [retirement EXCEPT !.status = status]
    BY DEF SettleRetirement, End, Goto, Moves, Phases, Journaling, InJournal, IInv, TypeOK,
           world, histories
  <1>2. /\ retirement = [op |-> plan[c].op, forward |-> plan[c].forward,
                         status |-> "uncertain"]
        /\ plan[c].op \in Ops /\ plan[c].forward \in 0..MaxForwards
        /\ forward # plan[c].forward
        /\ plan[c].action = "retire" => Unlinked(plan[c].op, plan[c].forward)
    BY <1>1 DEF IInv, CallInv, Record, Look, Plans
  <1>3. retirement' = [op |-> plan[c].op, forward |-> plan[c].forward, status |-> status]
    BY <1>1, <1>2
  <1>4. TypeOK'
    <2>1. retirement' \in [op : Ops \cup {NoOp}, forward : 0..MaxForwards,
                           status : Statuses]
      BY <1>2, <1>3 DEF Statuses
    <2> QED
      BY <1>1, <2>1, MoveTypes, OvertakenKeeps DEF IInv, TypeOK
  <1>5. LockInv'
    <2>1. "idle" \notin Managing \cup Fenced /\ "idle" \notin Journaling
      BY DEF Managing, Fenced, Journaling
    <2> QED
      BY <1>1, <2>1, LocksKeep DEF IInv
  <1>6. SocketInv' /\ SettledIsTrue'
    BY <1>1, <1>2, <1>3 DEF IInv, SocketInv, SettledIsTrue, Unlinked
  <1>7. CallInv(c)'
    <2>1. pc'[c] = "idle" /\ "idle" \notin Journaling
      BY <1>1, MoveTypes DEF IInv, Journaling, Fenced
    <2> QED
      BY <2>1 DEF CallInv, Role, Record, Look, InJournal
  <1>8. ASSUME NEW d \in Calls \ {c} PROVE CallInv(d)'
    <2>1. ~InJournal(d)
      BY <1>1 DEF IInv, LockInv
    <2>2. Undisturbed(d)
      BY <1>1, <2>1, MoveTypes, OvertakenKeeps DEF IInv, Undisturbed
    <2> QED
      BY <2>2, OthersKeep DEF IInv
  <1> QED
    BY <1>4, <1>5, <1>6, <1>7, <1>8 DEF IInv

\* Beside the calls a socket may go, a service may exit and files may change:
\* no call relies on more than that.
LEMMA EnvironmentKeeps ==
    ASSUME IInv, Environment
    PROVE  IInv'
  <1> USE BackendAssumption
  <1>1. /\ UNCHANGED <<vm, issued, lifecycle, retirement, pc, plan, late, overtaken, removals>>
        /\ forward' \in {0, forward} /\ held' \in BOOLEAN
    BY DEF Environment, ServiceExit, ForwardVanishes, EditArtifacts, ReplaceLock, IInv, TypeOK,
           histories
  <1>2. lockId' \in 0..MaxEdits /\ closure' \in Closures
    BY DEF Environment, ServiceExit, ForwardVanishes, EditArtifacts, ReplaceLock, IInv, TypeOK,
           Closures
  <1>3. TypeOK'
    BY <1>1, <1>2 DEF IInv, TypeOK
  <1>4. LockInv'
    BY <1>1 DEF IInv, LockInv, InFence, InJournal
  <1>5. SocketInv' /\ SettledIsTrue'
    <2>1. issued \in Nat
      BY DEF IInv, TypeOK
    <2> QED
      BY <1>1, <2>1 DEF IInv, SocketInv, SettledIsTrue
  <1>6. ASSUME NEW d \in Calls PROVE CallInv(d)'
    <2>1. Undisturbed(d)
      BY <1>1 DEF Undisturbed
    <2> QED
      BY <2>1, OthersKeep DEF IInv
  <1> QED
    BY <1>3, <1>4, <1>5, <1>6 DEF IInv

\* Nothing moves.
LEMMA StutterKeeps ==
    ASSUME IInv, UNCHANGED vars
    PROVE  IInv'
  <1>1. UNCHANGED <<vm, forward, issued, held, lockId, closure, lifecycle, retirement, pc,
                    plan, late, overtaken, removals>>
    BY DEF vars, world, histories
  <1>2. TypeOK' /\ LockInv' /\ SocketInv' /\ SettledIsTrue'
    BY <1>1 DEF IInv, TypeOK, LockInv, SocketInv, SettledIsTrue, InFence, InJournal
  <1>3. \A d \in Calls : CallInv(d)'
    BY <1>1 DEF IInv, CallInv, Role, Record, Look, InJournal, Unlinked
  <1> QED
    BY <1>2, <1>3 DEF IInv

LEMMA NextKeeps ==
    ASSUME IInv, [Next]_vars
    PROVE  IInv'
  <1>1. CASE Environment \/ CarryOutLate
    BY <1>1, EnvironmentKeeps, LateKeeps
  <1>2. CASE UNCHANGED vars
    BY <1>2, StutterKeeps
  <1>3. ASSUME NEW c \in Calls,
               \/ PlanManaged(c) \/ PlanRetirement(c) \/ Fail(c)
               \/ ManagedStep(c) \/ RetirementStep(c)
        PROVE  IInv'
    <2>1. CASE PlanManaged(c) \/ PlanRetirement(c)
      BY <2>1, ReviewedKeeps
    <2>2. CASE Fail(c)
      BY <2>2, EndKeeps
    <2>3. CASE ManagedStep(c)
      BY <2>3, ManagedKeeps, DriveKeeps, EndKeeps DEF ManagedStep
    <2>4. CASE RetirementStep(c)
      BY <2>4, LookingKeeps, OpenKeeps, RetireKeeps, SettleKeeps DEF RetirementStep
    <2> QED
      BY <1>3, <2>1, <2>2, <2>3, <2>4
  <1> QED
    BY <1>1, <1>2, <1>3 DEF Next

-----------------------------------------------------------------------------
(* The theorems.                                                               *)

LEMMA Invariance == Spec => []IInv
  <1>1. Init => IInv
    BY InitInv
  <1>2. IInv /\ [Next]_vars => IInv'
    BY NextKeeps
  <1> QED
    BY <1>1, <1>2, PTL DEF Spec

(* The variables have their types, for any number of calls, operations,        *)
(* sockets and edits.                                                          *)
THEOREM BackendTypeCorrect == Spec => []TypeOK
  BY Invariance, PTL DEF IInv

(* A retirement the journal calls settled is true for good: the socket it      *)
(* names never comes back, and "completed" is said only by a call that removed *)
(* it, or what a late command had put in its place, whatever dies and whatever *)
(* runs beside it.                                                             *)
THEOREM RetirementSettledIsTrue == Spec => []SettledIsTrue
  BY Invariance, PTL DEF IInv

(* The removal, which unlinks whatever bears the name, only ever meets the     *)
(* reviewed socket of a stopped machine, unless a command of a call that is    *)
(* gone was carried out since the last look.                                   *)
THEOREM RetirementRemovesReviewed == Spec => RemovedAsReviewed
  <1>1. IInv /\ [Next]_vars => [RemovesReviewed]_vars
    <2> SUFFICES ASSUME IInv, Next, NEW c \in Calls, pc[c] = "verified", pc'[c] = "removed",
                        c \notin overtaken
                 PROVE  vm = "stopped" /\ forward = plan[c].forward
      BY DEF RemovesReviewed
    <2>1. vm = "stopped" /\ forward \in {0, plan[c].forward}
      BY DEF IInv, CallInv, Look
    <2>2. pc \in [Calls -> Phases]
      BY DEF IInv, TypeOK
    <2>3. forward # 0
      <3>1. Environment \/ CarryOutLate => pc' = pc
        BY DEF Environment, CarryOutLate
      <3>2. ASSUME NEW d \in Calls,
                   \/ PlanManaged(d) \/ PlanRetirement(d) \/ Fail(d)
                   \/ ManagedStep(d) \/ RetirementStep(d)
            PROVE  RetireSocket(d)
        <4>1. ASSUME NEW phase, pc' = [pc EXCEPT ![d] = phase] PROVE phase = "removed"
          BY <2>2, <4>1
        <4>2. ~PlanManaged(d) /\ ~PlanRetirement(d)
          BY <4>1 DEF PlanManaged, PlanRetirement, Reviewed, Goto
        <4>3. ~Fail(d) /\ ~ManagedStep(d)
          BY <4>1 DEF Fail, ManagedStep, ApplyManaged, RecordManaged, Drive, SettleManaged, End,
                      Goto
        <4>4. RetirementStep(d) => RetireSocket(d)
          BY <4>1 DEF RetirementStep, Bind, OpenJournal, EnterFence, VerifyQuiescent,
                      ObserveRetired, LeaveFence, SettleRetirement, End, Goto
        <4> QED
          BY <3>2, <4>2, <4>3, <4>4
      <3> QED
        BY <3>1, <3>2 DEF Next, RetireSocket
    <2> QED
      BY <2>1, <2>3
  <1> QED
    BY <1>1, Invariance, PTL DEF RemovedAsReviewed, Spec
=============================================================================
