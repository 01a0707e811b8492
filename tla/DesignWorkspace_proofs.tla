------------------------ MODULE DesignWorkspace_proofs ------------------------
(***************************************************************************)
(* For every number of requests, every reserve, limit and bound: the types *)
(* hold, the spend record covers what was and may be billed, stays within  *)
(* its limit, remembers a lost reply, and implements SpendLedger; one call *)
(* runs at a time, a queued plan holds until it begins, and what is        *)
(* recorded of a request is true and final.                                *)
(***************************************************************************)
EXTENDS DesignWorkspace, TLAPS

\* Why the spend record is right: a reservation belongs to the active provider
\* operation; while a call is awaited its reservation is still chargeable, and an
\* earlier lost reply is in doubt on its own account, not on this reservation.
\* Without these facts a reply could release more than was reserved, or make the
\* session forget the earlier loss.
SpendInv ==
    /\ active = Nobody <=> activeKind = "none"
    /\ pending > 0 => activeKind = "expert"
    /\ \A c \in Callers : task[c] = "awaiting" => exposed >= pending /\ (lost => uncertain)
    /\ SpendCoversBills
    /\ SpendWithinCeiling
    /\ LostReplyIsRemembered

\* Why nothing else ends the active operation: a call in progress is the active
\* operation of this process, and a recovery that may still save holds a
\* simulation that this process does not own.
CallInv ==
    /\ \A c \in Callers : task[c] \in {"awaiting", "replied"} => active = c /\ owned
    /\ \A c \in Callers : task[c] = "replied" => pending = 0
    /\ \A q \in Recoverers : recovery[q] = "fresh" => activeKind = "simulation" /\ ~owned

WorkspaceInv == TypeOK /\ SpendInv /\ CallInv

\* The constants, as the steps below need them.
LEMMA Constants ==
    /\ Reserve \in Nat /\ Reserve > 0
    /\ CallCap \in Nat /\ CallCap > 0
    /\ Ceilings \subseteq Nat \ {0}
    /\ CallBudgets \subseteq 1..CallCap
    /\ CorrectionLimit \in Nat /\ WarningLimit \in Nat /\ NewWarnings \in Nat
    /\ Cli \notin Requests /\ Nobody \notin Callers
BY WorkspaceAssumption DEF WorkspaceAssumption, Callers

\* The call limit in force is a limit, and not above the saved one.
LEMMA AllowanceBounds ==
  ASSUME TypeOK
  PROVE  CallAllowance \in 1..CallCap /\ CallAllowance <= callLimit /\ CallAllowance <= budget
BY Constants DEF TypeOK, CallAllowance, Smaller

\* A new session has the right types and an empty spend record.
LEMMA WorkspaceInit == ASSUME Init PROVE WorkspaceInv
<1>1. TypeOK
  <2>1. /\ phase \in [Requests -> Phases]
        /\ kind \in [Requests -> Kinds \union {"none"}]
        /\ task \in [Callers -> TaskStates]
        /\ recovery \in [Recoverers -> {"idle", "fresh", "stale"}]
    BY DEF Init, Phases, TaskStates
  <2>2. /\ callLimit \in 1..CallCap /\ budget \in 1..CallCap
        /\ warnings \in 0..WarningLimit /\ attempt \in 0..CorrectionLimit
    BY Constants DEF Init
  <2> QED
    BY <2>1, <2>2, Constants DEF Init, TypeOK, Statuses, Models, NoCeiling
<1>2. SpendInv
  BY Constants DEF Init, SpendInv, SpendCoversBills, SpendWithinCeiling, LostReplyIsRemembered
<1>3. CallInv
  BY DEF Init, CallInv
<1> QED
  BY <1>1, <1>2, <1>3 DEF WorkspaceInv

-----------------------------------------------------------------------------
(* Types *)

\* Recording an outcome keeps the types of the phases and of the recovery calls.
LEMMA FinishTypes ==
  ASSUME TypeOK, NEW r \in Requests, NEW outcome \in SettledPhases, Finish(r, outcome)
  PROVE  /\ phase' \in [Requests -> Phases]
         /\ recovery' \in [Recoverers -> {"idle", "fresh", "stale"}]
BY DEF TypeOK, Finish, Saved, Phases

\* Forgetting a call leaves the values of no call.
LEMMA ForgottenTypes ==
  ASSUME CallForgotten
  PROVE  cliKind' \in Kinds \union {"none"} /\ attempt' \in 0..CorrectionLimit
BY Constants DEF CallForgotten

\* A saved step keeps the type of the recovery calls.
LEMMA SavedTypes ==
  ASSUME TypeOK, Saved
  PROVE  recovery' \in [Recoverers -> {"idle", "fresh", "stale"}]
BY DEF TypeOK, Saved

\* Every step keeps the types.
LEMMA TypeStep ==
  ASSUME TypeOK, SpendInv, [Next]_vars
  PROVE  TypeOK'
<1> USE Constants
<1> USE DEF vars, requestVars, sessionVars, settingVars, spendVars, processVars, taskVars, historyVars
<1>1. ASSUME NEW mode \in {"web", "cli"}, NEW newBudget \in CallBudgets,
             StartWithoutProvider(mode, newBudget)
      PROVE  TypeOK'
  BY <1>1 DEF TypeOK, StartWithoutProvider, Start, Reconciled, Phases, SettledPhases, OpenPhases
<1>2. ASSUME NEW mode \in {"web", "cli"}, NEW newBudget \in CallBudgets,
             NEW newModel \in Models, NEW limit \in Ceilings \union {NoCeiling},
             StartWithProvider(mode, newBudget, newModel, limit)
      PROVE  TypeOK'
  BY <1>2 DEF TypeOK, StartWithProvider, Start, Reconciled, Phases, SettledPhases, OpenPhases
<1>3. CASE Stop
  <2>1. attempt' \in 0..CorrectionLimit /\ budget' \in 1..CallCap
    BY <1>3 DEF Stop
  <2>2. task' \in [Callers -> TaskStates] /\ recovery' \in [Recoverers -> {"idle", "fresh", "stale"}]
    BY <1>3 DEF Stop, TaskStates
  <2>3. lost' \in BOOLEAN
    BY <1>3 DEF Stop, ReplyLost, TypeOK
  <2> QED
    BY <2>1, <2>2, <2>3, <1>3 DEF TypeOK, Stop
<1>4. ASSUME NEW r \in Requests, NEW work \in Kinds, Submit(r, work)
      PROVE  TypeOK'
  BY <1>4, SavedTypes DEF TypeOK, Submit, Phases, OpenPhases, TaskStates
<1>5. ASSUME NEW r \in Requests, CancelOrphan(r)
      PROVE  TypeOK'
  BY <1>5, FinishTypes DEF TypeOK, CancelOrphan, SettledPhases
<1>6. ASSUME NEW r \in Requests, CancelQueued(r)
      PROVE  TypeOK'
  BY <1>6, FinishTypes DEF TypeOK, CancelQueued, SettledPhases, TaskStates
<1>7. ASSUME NEW r \in Requests, CancelActive(r)
      PROVE  TypeOK'
  BY <1>7, SavedTypes DEF TypeOK, CancelActive, ReplyLost, Phases, OpenPhases, TaskStates
<1>8. ASSUME NEW work \in Kinds, InvokeCli(work)
      PROVE  TypeOK'
  <2>1. attempt' \in 0..CorrectionLimit
    BY <1>8 DEF InvokeCli
  <2>2. task' \in [Callers -> TaskStates]
    BY <1>8 DEF InvokeCli, TypeOK, TaskStates, LoopSteps
  <2> QED
    BY <2>1, <2>2, <1>8 DEF TypeOK, InvokeCli
<1>9. CASE AbandonExpertCall
  <2>1. warnings' \in 0..WarningLimit
    BY <1>9 DEF AbandonExpertCall, WarningFits, TypeOK
  <2>2. pending' \in {0, Reserve} /\ uncertain' \in BOOLEAN /\ spent' \in Nat
    BY <1>9 DEF AbandonExpertCall, KeepReservation, TypeOK
  <2> QED
    BY <2>1, <2>2, <1>9, SavedTypes DEF TypeOK, AbandonExpertCall, NothingActive
<1>10. ASSUME NEW q \in Recoverers, BeginRecovery(q)
       PROVE  TypeOK'
  BY <1>10 DEF TypeOK, BeginRecovery
<1>11. CASE ReconcileSpend
  BY <1>11, SavedTypes DEF TypeOK, ReconcileSpend
<1>12. ASSUME NEW newModel \in Models, NEW limit \in Ceilings \union {NoCeiling}, NEW enabled \in BOOLEAN,
              ConfigureProvider(newModel, limit, enabled)
       PROVE  TypeOK'
  BY <1>12, SavedTypes DEF TypeOK, ConfigureProvider
<1>13. ASSUME NEW added \in 0..NewWarnings, NEW newStatus \in Statuses, ApproveReview(added, newStatus)
       PROVE  TypeOK'
  BY <1>13, SavedTypes DEF TypeOK, ApproveReview, Statuses
<1>14. CASE Revise
  BY <1>14, SavedTypes DEF TypeOK, Revise, Statuses
<1>15. ASSUME NEW r \in Requests, BeginTask(r)
       PROVE  TypeOK'
  <2>1. attempt' \in 0..CorrectionLimit
    BY <1>15 DEF BeginTask
  <2>2. phase' \in [Requests -> Phases]
    BY <1>15 DEF BeginTask, TypeOK, Phases, OpenPhases
  <2>3. task' \in [Callers -> TaskStates]
    BY <1>15 DEF BeginTask, TypeOK, TaskStates, LoopSteps
  <2> QED
    BY <2>1, <2>2, <2>3, <1>15, SavedTypes DEF TypeOK, BeginTask
<1>16. ASSUME NEW r \in Requests, EndCancelledTask(r)
       PROVE  TypeOK'
  <2>1. phase' \in [Requests -> Phases] /\ recovery' \in [Recoverers -> {"idle", "fresh", "stale"}]
    BY <1>16, FinishTypes DEF EndCancelledTask, SettledPhases
  <2>2. task' \in [Callers -> TaskStates]
    BY <1>16 DEF EndCancelledTask, TypeOK, TaskStates
  <2> QED
    BY <2>1, <2>2, <1>16, ForgottenTypes DEF TypeOK, EndCancelledTask
<1>17. ASSUME NEW c \in Callers, FinishTask(c)
       PROVE  TypeOK'
  BY <1>17, FinishTypes, ForgottenTypes DEF TypeOK, FinishTask, SettledPhases, TaskStates, Callers
<1>18. ASSUME NEW c \in Callers, FailTask(c)
       PROVE  TypeOK'
  BY <1>18, FinishTypes, ForgottenTypes DEF TypeOK, FailTask, FailurePhase, SettledPhases, TaskStates, Callers
<1>19. ASSUME NEW c \in Callers, StartExpertCall(c)
       PROVE  TypeOK'
  <2>1. pending = 0 /\ exposed + Reserve \in Nat /\ spent + Reserve \in Nat
    BY <1>19 DEF StartExpertCall, ExpertCallReady, ProviderReady, TypeOK
  <2> QED
    BY <1>19, <2>1, SavedTypes, AllowanceBounds DEF TypeOK, StartExpertCall, TaskStates, Callers
<1>20. ASSUME NEW c \in Callers, RefuseCall(c)
       PROVE  TypeOK'
  BY <1>20, SavedTypes, AllowanceBounds DEF TypeOK, RefuseCall, TaskStates, LoopSteps
<1>21. ASSUME NEW c \in Callers, NEW unused \in 0..pending, ReceiveReply(c, unused)
       PROVE  TypeOK'
  <2>1. /\ spent - unused \in Nat
        /\ billed + (pending - unused) \in Nat
        /\ exposed - pending \in Nat
    BY <1>21 DEF ReceiveReply, Awaiting, SpendInv, SpendCoversBills, TypeOK
  <2> QED
    BY <1>21, <2>1, SavedTypes DEF TypeOK, ReceiveReply, TaskStates, LoopSteps
<1>22. ASSUME NEW c \in Callers, FailExpertCall(c)
       PROVE  TypeOK'
  BY <1>22, SavedTypes DEF TypeOK, FailExpertCall, NothingActive, KeepReservation, ReplyLost, TaskStates, LoopSteps
<1>23. ASSUME NEW c \in Callers, NEW added \in 0..NewWarnings, NEW newStatus \in Statuses,
              AcceptOutput(c, added, newStatus)
       PROVE  TypeOK'
  <2>1. warnings' \in 0..WarningLimit
    BY <1>23 DEF AcceptOutput, TypeOK
  <2>2. task' \in [Callers -> TaskStates]
    BY <1>23 DEF AcceptOutput, TypeOK, TaskStates, LoopSteps
  <2> QED
    BY <2>1, <2>2, <1>23, SavedTypes DEF TypeOK, AcceptOutput, NothingActive
<1>24. ASSUME NEW c \in Callers, RefuseOutput(c)
       PROVE  TypeOK'
  BY <1>24 DEF TypeOK, RefuseOutput, TaskStates, LoopSteps
<1>25. ASSUME NEW c \in Callers, NEW retry \in BOOLEAN, RejectOutput(c, retry)
       PROVE  TypeOK'
  <2>1. attempt' \in 0..CorrectionLimit
    BY <1>25 DEF RejectOutput, TypeOK
  <2>2. task' \in [Callers -> TaskStates]
    BY <1>25 DEF RejectOutput, TypeOK, TaskStates, LoopSteps
  <2>3. pending' \in {0, Reserve} /\ uncertain' \in BOOLEAN /\ spent' \in Nat
    BY <1>25 DEF RejectOutput, KeepReservation, TypeOK
  <2> QED
    BY <2>1, <2>2, <2>3, <1>25, SavedTypes DEF TypeOK, RejectOutput, NothingActive
<1>26. ASSUME NEW c \in Callers, StartSimulation(c)
       PROVE  TypeOK'
  BY <1>26, SavedTypes DEF TypeOK, StartSimulation, TaskStates, Callers
<1>27. ASSUME NEW c \in Callers, ReportSimulation(c)
       PROVE  TypeOK'
  BY <1>27, SavedTypes DEF TypeOK, ReportSimulation, NothingActive, TaskStates, LoopSteps, Statuses
<1>28. ASSUME NEW c \in Callers, FailSimulation(c)
       PROVE  TypeOK'
  BY <1>28, SavedTypes DEF TypeOK, FailSimulation, TaskStates, LoopSteps
<1>29. ASSUME NEW q \in Recoverers, FinishRecovery(q)
       PROVE  TypeOK'
  <2>1. warnings' \in 0..WarningLimit
    BY <1>29 DEF FinishRecovery, WarningFits, TypeOK
  <2>2. recovery' \in [Recoverers -> {"idle", "fresh", "stale"}]
    BY <1>29 DEF FinishRecovery, TypeOK
  <2> QED
    BY <2>1, <2>2, <1>29 DEF TypeOK, FinishRecovery, NothingActive
<1>30. ASSUME NEW q \in Recoverers, FailRecovery(q)
       PROVE  TypeOK'
  BY <1>30 DEF TypeOK, FailRecovery
<1>31. ASSUME NEW price \in 1..Reserve, LateBill(price)
       PROVE  TypeOK'
  <2>1. exposed - Reserve \in Nat /\ billed + price \in Nat
    BY <1>31 DEF LateBill, LostExposure, SpendInv, TypeOK
  <2> QED
    BY <1>31, <2>1 DEF TypeOK, LateBill
<1>32. CASE UNCHANGED vars
  BY <1>32 DEF TypeOK
<1>33. ASSUME NEW added \in 0..NewWarnings, Propose(added)
       PROVE  TypeOK'
  BY <1>33, SavedTypes DEF TypeOK, Propose
<1>34. ASSUME NEW c \in Callers, NEW newStatus \in Statuses, ReuseStage(c, newStatus)
       PROVE  TypeOK'
  BY <1>34, SavedTypes DEF TypeOK, ReuseStage, TaskStates, LoopSteps, Statuses
<1> QED
  BY <1>1, <1>2, <1>3, <1>4, <1>5, <1>6, <1>7, <1>8, <1>9, <1>10, <1>11, <1>12, <1>13, <1>14, <1>15,
     <1>16, <1>17, <1>18, <1>19, <1>20, <1>21, <1>22, <1>23, <1>24, <1>25, <1>26, <1>27, <1>28, <1>29,
     <1>30, <1>31, <1>32, <1>33, <1>34
     DEF Next, StartProcess, Person, LoopStep, Answer

-----------------------------------------------------------------------------
(* The spend record *)

\* A step that leaves the spend record, the active operation and the provider's
\* side alone, and awaits no new call, keeps the invariant of the spend record.
LEMMA SpendUntouched ==
  ASSUME SpendInv,
         UNCHANGED <<active, activeKind, spent, pending, uncertain, ceiling, billed, exposed, lost>>,
         \A c \in Callers : task'[c] = "awaiting" => task[c] = "awaiting"
  PROVE  SpendInv'
BY DEF SpendInv, SpendCoversBills, SpendWithinCeiling, LostReplyIsRemembered

\* A step after which no operation is active and no reservation is held keeps it
\* when the reservation stays spent, in doubt, or was none.
LEMMA SpendKept ==
  ASSUME TypeOK, SpendInv, NothingActive, KeepReservation,
         UNCHANGED <<ceiling, billed, exposed>>,
         (UNCHANGED lost) \/ ReplyLost,
         \A c \in Callers : task'[c] = "awaiting" => task[c] = "awaiting"
  PROVE  SpendInv'
<1>1. /\ active' = Nobody /\ activeKind' = "none"
      /\ pending' = 0 /\ uncertain' = (uncertain \/ pending > 0) /\ spent' = spent
  BY DEF NothingActive, KeepReservation
<1>2. exposed' >= pending' /\ (lost' => uncertain')
  BY <1>1 DEF TypeOK, ReplyLost, SpendInv, LostReplyIsRemembered
<1>3. SpendCoversBills' /\ SpendWithinCeiling'
  BY <1>1 DEF SpendInv, SpendCoversBills, SpendWithinCeiling
<1>4. LostReplyIsRemembered'
  <2>1. lost' => lost \/ pending > 0
    BY DEF ReplyLost
  <2> QED
    BY <1>1, <2>1 DEF SpendInv, LostReplyIsRemembered
<1>5. (active = Nobody <=> activeKind = "none")' /\ (pending > 0 => activeKind = "expert")'
  BY <1>1
<1> QED
  BY <1>2, <1>3, <1>4, <1>5 DEF SpendInv

\* An operation that ends without a reservation leaves the spend record alone.
LEMMA SpendReleased ==
  ASSUME TypeOK, SpendInv, NothingActive, pending = 0,
         UNCHANGED <<spent, pending, uncertain, ceiling, billed, exposed, lost>>
  PROVE  SpendInv'
BY DEF NothingActive, TypeOK, SpendInv, SpendCoversBills, SpendWithinCeiling, LostReplyIsRemembered

\* New settings leave the record alone and respect what is spent.
LEMMA SpendSettings ==
  ASSUME TypeOK, SpendInv, NEW limit \in Ceilings \union {NoCeiling}, SettingsAdmissible(limit), ceiling' = limit,
         UNCHANGED <<active, activeKind, spent, pending, uncertain, billed, exposed, lost, task>>
  PROVE  SpendInv'
BY DEF SettingsAdmissible, TypeOK, SpendInv, SpendCoversBills, SpendWithinCeiling, LostReplyIsRemembered

\* Every step keeps the invariant of the spend record.
LEMMA SpendStep ==
  ASSUME TypeOK, SpendInv, CallInv, [Next]_vars
  PROVE  SpendInv'
<1> USE Constants
<1> USE DEF vars, requestVars, sessionVars, settingVars, spendVars, processVars, taskVars, historyVars
<1>1. ASSUME NEW mode \in {"web", "cli"}, NEW newBudget \in CallBudgets,
             StartWithoutProvider(mode, newBudget)
      PROVE  SpendInv'
  BY <1>1, SpendUntouched DEF StartWithoutProvider, Start
<1>2. ASSUME NEW mode \in {"web", "cli"}, NEW newBudget \in CallBudgets,
             NEW newModel \in Models, NEW limit \in Ceilings \union {NoCeiling},
             StartWithProvider(mode, newBudget, newModel, limit)
      PROVE  SpendInv'
  <2>1. UNCHANGED <<active, activeKind, spent, pending, uncertain, billed, exposed, lost, task>> /\ ceiling' = limit
    BY <1>2 DEF StartWithProvider, Start
  <2>2. CASE SettingsAdmissible(limit)
    BY <2>1, <2>2, SpendSettings
  <2>3. CASE ceiling = limit
    BY <2>1, <2>3, SpendUntouched
  <2> QED
    BY <1>2, <2>2, <2>3 DEF StartWithProvider
<1>3. CASE Stop
  <2>1. /\ UNCHANGED <<active, activeKind, spent, pending, uncertain, ceiling, billed, exposed>>
        /\ lost' = (lost \/ pending > 0)
        /\ \A c \in Callers : task'[c] # "awaiting"
    BY <1>3 DEF Stop, ReplyLost
  <2> QED
    BY <2>1 DEF SpendInv, SpendCoversBills, SpendWithinCeiling, LostReplyIsRemembered
<1>4. ASSUME NEW r \in Requests, NEW work \in Kinds, Submit(r, work)
      PROVE  SpendInv'
  BY <1>4, SpendUntouched DEF Submit, TypeOK, Callers
<1>5. ASSUME NEW r \in Requests, CancelOrphan(r)
      PROVE  SpendInv'
  BY <1>5, SpendUntouched DEF CancelOrphan
<1>6. ASSUME NEW r \in Requests, CancelQueued(r)
      PROVE  SpendInv'
  BY <1>6, SpendUntouched DEF CancelQueued, TypeOK, Callers
<1>7. ASSUME NEW r \in Requests, CancelActive(r)
      PROVE  SpendInv'
  <2>1. /\ UNCHANGED <<active, activeKind, spent, pending, uncertain, ceiling, billed, exposed>>
        /\ lost' = (lost \/ pending > 0)
        /\ \A c \in Callers : task'[c] # "awaiting"
    BY <1>7 DEF CancelActive, ReplyLost, TypeOK, Callers, CallInv
  <2> QED
    BY <2>1 DEF SpendInv, SpendCoversBills, SpendWithinCeiling, LostReplyIsRemembered
<1>8. ASSUME NEW work \in Kinds, InvokeCli(work)
      PROVE  SpendInv'
  BY <1>8, SpendUntouched DEF InvokeCli, TypeOK
<1>9. CASE AbandonExpertCall
  BY <1>9, SpendKept DEF AbandonExpertCall
<1>10. ASSUME NEW q \in Recoverers, BeginRecovery(q)
       PROVE  SpendInv'
  BY <1>10, SpendUntouched DEF BeginRecovery
<1>11. CASE ReconcileSpend
  BY <1>11 DEF ReconcileSpend, SpendInv, SpendCoversBills, SpendWithinCeiling, LostReplyIsRemembered
<1>12. ASSUME NEW newModel \in Models, NEW limit \in Ceilings \union {NoCeiling}, NEW enabled \in BOOLEAN,
              ConfigureProvider(newModel, limit, enabled)
       PROVE  SpendInv'
  BY <1>12, SpendSettings DEF ConfigureProvider
<1>13. ASSUME NEW added \in 0..NewWarnings, NEW newStatus \in Statuses, ApproveReview(added, newStatus)
       PROVE  SpendInv'
  BY <1>13, SpendUntouched DEF ApproveReview
<1>14. CASE Revise
  BY <1>14, SpendUntouched DEF Revise
<1>15. ASSUME NEW r \in Requests, BeginTask(r)
       PROVE  SpendInv'
  BY <1>15, SpendUntouched DEF BeginTask, TypeOK, Callers
<1>16. ASSUME NEW r \in Requests, EndCancelledTask(r)
       PROVE  SpendInv'
  BY <1>16, SpendUntouched DEF EndCancelledTask, TypeOK, Callers
<1>17. ASSUME NEW c \in Callers, FinishTask(c)
       PROVE  SpendInv'
  BY <1>17, SpendUntouched DEF FinishTask, TypeOK
<1>18. ASSUME NEW c \in Callers, FailTask(c)
       PROVE  SpendInv'
  BY <1>18, SpendUntouched DEF FailTask, TypeOK
<1>19. ASSUME NEW c \in Callers, StartExpertCall(c)
       PROVE  SpendInv'
  <2>1. /\ active = Nobody /\ pending = 0 /\ ~uncertain
        /\ model = "openai" => ceiling # NoCeiling /\ spent + Reserve <= ceiling
    BY <1>19 DEF StartExpertCall, ExpertCallReady, ProviderReady, Affordable
  <2>2. PICK reserved \in {0, Reserve} :
           /\ reserved = (IF model = "openai" THEN Reserve ELSE 0)
           /\ spent' = spent + reserved /\ pending' = reserved /\ exposed' = exposed + reserved
    BY <1>19 DEF StartExpertCall
  <2>3. /\ active' = c /\ activeKind' = "expert"
        /\ UNCHANGED <<ceiling, uncertain, billed, lost>>
    BY <1>19 DEF StartExpertCall
  <2>4. SpendCoversBills' /\ exposed' >= pending'
    BY <2>2, <2>3 DEF SpendInv, SpendCoversBills, TypeOK
  <2>5. SpendWithinCeiling'
    <3>1. CASE model = "openai"
      BY <2>1, <2>2, <2>3, <3>1 DEF SpendWithinCeiling, TypeOK
    <3>2. CASE model # "openai"
      BY <2>2, <2>3, <3>2 DEF SpendInv, SpendWithinCeiling, TypeOK
    <3> QED
      BY <3>1, <3>2
  <2>6. ~lost'
    BY <2>1, <2>3 DEF SpendInv, LostReplyIsRemembered
  <2>7. (active = Nobody <=> activeKind = "none")' /\ (pending > 0 => activeKind = "expert")'
    BY <2>3
  <2> QED
    BY <2>4, <2>5, <2>6, <2>7 DEF SpendInv, LostReplyIsRemembered
<1>20. ASSUME NEW c \in Callers, RefuseCall(c)
       PROVE  SpendInv'
  BY <1>20, SpendUntouched DEF RefuseCall, TypeOK
<1>21. ASSUME NEW c \in Callers, NEW unused \in 0..pending, ReceiveReply(c, unused)
       PROVE  SpendInv'
  <2>1. /\ spent' = spent - unused /\ pending' = 0
        /\ billed' = billed + (pending - unused) /\ exposed' = exposed - pending
        /\ exposed >= pending /\ (lost => uncertain)
        /\ UNCHANGED <<active, activeKind, ceiling, uncertain, lost>>
        /\ task[c] = "awaiting" /\ task' = [task EXCEPT ![c] = "replied"]
    BY <1>21 DEF ReceiveReply, Awaiting, SpendInv
  <2>2. SpendCoversBills' /\ SpendWithinCeiling' /\ (exposed >= pending)'
    <3>1. pending \in Nat /\ unused \in Nat /\ unused <= pending
      BY DEF TypeOK
    <3>2. SpendCoversBills' /\ (exposed >= pending)'
      BY <2>1, <3>1 DEF SpendInv, SpendCoversBills, TypeOK
    <3>3. SpendWithinCeiling'
      <4>1. CASE ceiling = NoCeiling
        BY <2>1, <4>1 DEF SpendWithinCeiling
      <4>2. CASE ceiling # NoCeiling
        <5>1. spent \in Nat /\ ceiling \in Nat /\ spent <= ceiling
          BY <4>2, Constants DEF SpendInv, SpendWithinCeiling, TypeOK
        <5> QED
          BY <5>1, <3>1, <2>1 DEF SpendWithinCeiling
      <4> QED
        BY <4>1, <4>2
    <3> QED
      BY <3>2, <3>3
  <2>3. (lost => uncertain)' /\ LostReplyIsRemembered'
    BY <2>1 DEF LostReplyIsRemembered
  <2>5. (active = Nobody <=> activeKind = "none")' /\ (pending > 0 => activeKind = "expert")'
    BY <2>1 DEF SpendInv
  <2> QED
    BY <2>2, <2>3, <2>5 DEF SpendInv
<1>22. ASSUME NEW c \in Callers, FailExpertCall(c)
       PROVE  SpendInv'
  <2>1. \A d \in Callers : task'[d] = "awaiting" => task[d] = "awaiting"
    BY <1>22 DEF FailExpertCall, TypeOK
  <2> QED
    BY <1>22, <2>1, SpendKept DEF FailExpertCall
<1>23. ASSUME NEW c \in Callers, NEW added \in 0..NewWarnings, NEW newStatus \in Statuses,
              AcceptOutput(c, added, newStatus)
       PROVE  SpendInv'
  <2>1. pending = 0
    BY <1>23 DEF AcceptOutput, CallInv
  <2> QED
    BY <1>23, <2>1, SpendReleased DEF AcceptOutput
<1>24. ASSUME NEW c \in Callers, RefuseOutput(c)
       PROVE  SpendInv'
  BY <1>24, SpendUntouched DEF RefuseOutput, TypeOK
<1>25. ASSUME NEW c \in Callers, NEW retry \in BOOLEAN, RejectOutput(c, retry)
       PROVE  SpendInv'
  <2>1. \A d \in Callers : task'[d] = "awaiting" => task[d] = "awaiting"
    BY <1>25 DEF RejectOutput, TypeOK
  <2> QED
    BY <1>25, <2>1, SpendKept DEF RejectOutput
<1>26. ASSUME NEW c \in Callers, StartSimulation(c)
       PROVE  SpendInv'
  <2>1. /\ active' = c /\ activeKind' = "simulation" /\ pending = 0
        /\ UNCHANGED <<spent, pending, uncertain, ceiling, billed, exposed, lost>>
    BY <1>26 DEF StartSimulation, SimulationReady, SpendInv, TypeOK
  <2> QED
    BY <2>1 DEF SpendInv, SpendCoversBills, SpendWithinCeiling, LostReplyIsRemembered, TypeOK
<1>27. ASSUME NEW c \in Callers, ReportSimulation(c)
       PROVE  SpendInv'
  <2>1. pending = 0
    BY <1>27 DEF ReportSimulation, Awaiting, SpendInv, TypeOK
  <2> QED
    BY <1>27, <2>1, SpendReleased DEF ReportSimulation
<1>28. ASSUME NEW c \in Callers, FailSimulation(c)
       PROVE  SpendInv'
  BY <1>28, SpendUntouched DEF FailSimulation, TypeOK
<1>29. ASSUME NEW q \in Recoverers, FinishRecovery(q)
       PROVE  SpendInv'
  <2>1. pending = 0
    BY <1>29 DEF FinishRecovery, CallInv, SpendInv, TypeOK
  <2> QED
    BY <1>29, <2>1, SpendReleased DEF FinishRecovery
<1>30. ASSUME NEW q \in Recoverers, FailRecovery(q)
       PROVE  SpendInv'
  BY <1>30, SpendUntouched DEF FailRecovery
<1>31. ASSUME NEW price \in 1..Reserve, LateBill(price)
       PROVE  SpendInv'
  <2>1. /\ billed' = billed + price /\ exposed' = exposed - Reserve
        /\ UNCHANGED <<active, activeKind, spent, pending, uncertain, ceiling, lost, task>>
    BY <1>31 DEF LateBill
  <2>2. SpendCoversBills'
    BY <2>1 DEF SpendInv, SpendCoversBills, TypeOK
  <2>3. ASSUME NEW d \in Callers, task'[d] = "awaiting"
        PROVE  exposed' >= pending' /\ (lost' => uncertain')
    <3>1. task[d] = "awaiting"
      BY <2>1, <2>3
    <3>2. exposed - pending >= Reserve
      BY <1>31, <3>1 DEF LateBill, LostExposure
    <3>3. exposed' >= pending'
      BY <2>1, <3>2 DEF TypeOK
    <3> QED
      BY <2>1, <3>1, <3>3 DEF SpendInv
  <2> QED
    BY <2>1, <2>2, <2>3 DEF SpendInv, SpendWithinCeiling, LostReplyIsRemembered
<1>32. CASE UNCHANGED vars
  BY <1>32, SpendUntouched
<1>33. ASSUME NEW added \in 0..NewWarnings, Propose(added)
       PROVE  SpendInv'
  BY <1>33, SpendUntouched DEF Propose
<1>34. ASSUME NEW c \in Callers, NEW newStatus \in Statuses, ReuseStage(c, newStatus)
       PROVE  SpendInv'
  BY <1>34, SpendUntouched DEF ReuseStage, TypeOK
<1> QED
  BY <1>1, <1>2, <1>3, <1>4, <1>5, <1>6, <1>7, <1>8, <1>9, <1>10, <1>11, <1>12, <1>13, <1>14, <1>15,
     <1>16, <1>17, <1>18, <1>19, <1>20, <1>21, <1>22, <1>23, <1>24, <1>25, <1>26, <1>27, <1>28, <1>29,
     <1>30, <1>31, <1>32, <1>33, <1>34
     DEF Next, StartProcess, Person, LoopStep, Answer

-----------------------------------------------------------------------------
(* Calls in progress *)

\* A step that leaves the active operation, its owner and the reservation alone,
\* brings no caller into a call, and starts no recovery, keeps CallInv.
LEMMA CallUntouched ==
  ASSUME CallInv,
         UNCHANGED <<active, activeKind, owned, pending>>,
         \A c \in Callers : task'[c] \in {"awaiting", "replied"} => task'[c] = task[c],
         \A q \in Recoverers : recovery'[q] = "fresh" => recovery[q] = "fresh"
  PROVE  CallInv'
BY DEF CallInv

\* A save leaves no recovery fresh.
LEMMA SavedIsStale ==
  ASSUME Saved
  PROVE  \A q \in Recoverers : recovery'[q] # "fresh"
BY DEF Saved

\* Recording an outcome never makes a recovery fresh.
LEMMA FinishIsStale ==
  ASSUME NEW r \in Requests, NEW outcome, Finish(r, outcome)
  PROVE  \A q \in Recoverers : recovery'[q] = "fresh" => recovery[q] = "fresh"
BY SavedIsStale DEF Finish

\* When the active operation ends and no call is left in progress, CallInv holds.
LEMMA CallEnded ==
  ASSUME NothingActive,
         \A c \in Callers : task'[c] \notin {"awaiting", "replied"},
         \A q \in Recoverers : recovery'[q] # "fresh"
  PROVE  CallInv'
BY DEF CallInv

\* Only the caller of the active operation is in a call.
LEMMA OnlyCaller ==
  ASSUME CallInv, NEW c \in Callers, active = c
  PROVE  \A d \in Callers : task[d] \in {"awaiting", "replied"} => d = c
BY DEF CallInv

\* Every step keeps CallInv.
LEMMA CallStep ==
  ASSUME TypeOK, SpendInv, CallInv, [Next]_vars
  PROVE  CallInv'
<1> USE Constants
<1> USE DEF vars, requestVars, sessionVars, settingVars, spendVars, processVars, taskVars, historyVars
<1>1. ASSUME NEW mode \in {"web", "cli"}, NEW newBudget \in CallBudgets,
             StartWithoutProvider(mode, newBudget)
      PROVE  CallInv'
  BY <1>1, CallUntouched DEF StartWithoutProvider, Start
<1>2. ASSUME NEW mode \in {"web", "cli"}, NEW newBudget \in CallBudgets,
             NEW newModel \in Models, NEW limit \in Ceilings \union {NoCeiling},
             StartWithProvider(mode, newBudget, newModel, limit)
      PROVE  CallInv'
  BY <1>2, CallUntouched DEF StartWithProvider, Start
<1>3. CASE Stop
  BY <1>3 DEF Stop, CallInv
<1>4. ASSUME NEW r \in Requests, NEW work \in Kinds, Submit(r, work)
      PROVE  CallInv'
  BY <1>4, SavedIsStale, CallUntouched DEF Submit, TypeOK, Callers
<1>5. ASSUME NEW r \in Requests, CancelOrphan(r)
      PROVE  CallInv'
  BY <1>5, FinishIsStale, CallUntouched DEF CancelOrphan
<1>6. ASSUME NEW r \in Requests, CancelQueued(r)
      PROVE  CallInv'
  BY <1>6, FinishIsStale, CallUntouched DEF CancelQueued, TypeOK, Callers
<1>7. ASSUME NEW r \in Requests, CancelActive(r)
      PROVE  CallInv'
  BY <1>7, SavedIsStale, CallUntouched DEF CancelActive, TypeOK, Callers
<1>8. ASSUME NEW work \in Kinds, InvokeCli(work)
      PROVE  CallInv'
  BY <1>8, CallUntouched DEF InvokeCli, TypeOK
<1>9. CASE AbandonExpertCall
  BY <1>9, SavedIsStale, CallEnded DEF AbandonExpertCall, Abandonable, CallInv
<1>10. ASSUME NEW q \in Recoverers, BeginRecovery(q)
       PROVE  CallInv'
  BY <1>10 DEF BeginRecovery, Abandonable, CallInv, TypeOK
<1>11. CASE ReconcileSpend
  BY <1>11, SavedIsStale, CallUntouched DEF ReconcileSpend
<1>12. ASSUME NEW newModel \in Models, NEW limit \in Ceilings \union {NoCeiling}, NEW enabled \in BOOLEAN,
              ConfigureProvider(newModel, limit, enabled)
       PROVE  CallInv'
  BY <1>12, SavedIsStale, CallUntouched DEF ConfigureProvider
<1>13. ASSUME NEW added \in 0..NewWarnings, NEW newStatus \in Statuses, ApproveReview(added, newStatus)
       PROVE  CallInv'
  BY <1>13, SavedIsStale, CallUntouched DEF ApproveReview
<1>14. CASE Revise
  BY <1>14, SavedIsStale, CallUntouched DEF Revise
<1>15. ASSUME NEW r \in Requests, BeginTask(r)
       PROVE  CallInv'
  BY <1>15, SavedIsStale, CallUntouched DEF BeginTask, TypeOK, Callers
<1>16. ASSUME NEW r \in Requests, EndCancelledTask(r)
       PROVE  CallInv'
  BY <1>16, FinishIsStale, CallUntouched DEF EndCancelledTask, TypeOK, Callers
<1>17. ASSUME NEW c \in Callers, FinishTask(c)
       PROVE  CallInv'
  BY <1>17, FinishIsStale, CallUntouched DEF FinishTask, TypeOK, Callers
<1>18. ASSUME NEW c \in Callers, FailTask(c)
       PROVE  CallInv'
  BY <1>18, FinishIsStale, CallUntouched DEF FailTask, TypeOK, Callers
<1>19. ASSUME NEW c \in Callers, StartExpertCall(c)
       PROVE  CallInv'
  <2>1. \A d \in Callers : task[d] \notin {"awaiting", "replied"}
    BY <1>19 DEF StartExpertCall, ExpertCallReady, CallInv
  <2>2. \A d \in Callers : task'[d] \in {"awaiting", "replied"} => d = c /\ task'[d] = "awaiting"
    BY <1>19, <2>1 DEF StartExpertCall, TypeOK
  <2> QED
    BY <1>19, <2>2, SavedIsStale DEF StartExpertCall, CallInv
<1>20. ASSUME NEW c \in Callers, RefuseCall(c)
       PROVE  CallInv'
  BY <1>20, SavedIsStale, CallUntouched DEF RefuseCall, TypeOK
<1>21. ASSUME NEW c \in Callers, NEW unused \in 0..pending, ReceiveReply(c, unused)
       PROVE  CallInv'
  BY <1>21, SavedIsStale DEF ReceiveReply, Awaiting, TypeOK, CallInv
<1>22. ASSUME NEW c \in Callers, FailExpertCall(c)
       PROVE  CallInv'
  <2>1. \A d \in Callers : task'[d] \notin {"awaiting", "replied"}
    BY <1>22, OnlyCaller DEF FailExpertCall, Awaiting, TypeOK
  <2> QED
    BY <1>22, <2>1, SavedIsStale, CallEnded DEF FailExpertCall
<1>23. ASSUME NEW c \in Callers, NEW added \in 0..NewWarnings, NEW newStatus \in Statuses,
              AcceptOutput(c, added, newStatus)
       PROVE  CallInv'
  <2>1. \A d \in Callers : task'[d] \notin {"awaiting", "replied"}
    BY <1>23, OnlyCaller DEF AcceptOutput, CallInv, TypeOK
  <2> QED
    BY <1>23, <2>1, SavedIsStale, CallEnded DEF AcceptOutput
<1>24. ASSUME NEW c \in Callers, RefuseOutput(c)
       PROVE  CallInv'
  BY <1>24, CallUntouched DEF RefuseOutput, TypeOK
<1>25. ASSUME NEW c \in Callers, NEW retry \in BOOLEAN, RejectOutput(c, retry)
       PROVE  CallInv'
  <2>1. \A d \in Callers : task'[d] \notin {"awaiting", "replied"}
    BY <1>25, OnlyCaller DEF RejectOutput, CallInv, TypeOK
  <2> QED
    BY <1>25, <2>1, SavedIsStale, CallEnded DEF RejectOutput
<1>26. ASSUME NEW c \in Callers, StartSimulation(c)
       PROVE  CallInv'
  <2>1. \A d \in Callers : task[d] \notin {"awaiting", "replied"}
    BY <1>26 DEF StartSimulation, SimulationReady, CallInv
  <2>2. \A d \in Callers : task'[d] \in {"awaiting", "replied"} => d = c /\ task'[d] = "awaiting"
    BY <1>26, <2>1 DEF StartSimulation, TypeOK
  <2> QED
    BY <1>26, <2>2, SavedIsStale DEF StartSimulation, CallInv
<1>27. ASSUME NEW c \in Callers, ReportSimulation(c)
       PROVE  CallInv'
  <2>1. \A d \in Callers : task'[d] \notin {"awaiting", "replied"}
    BY <1>27, OnlyCaller DEF ReportSimulation, Awaiting, TypeOK
  <2> QED
    BY <1>27, <2>1, SavedIsStale, CallEnded DEF ReportSimulation
<1>28. ASSUME NEW c \in Callers, FailSimulation(c)
       PROVE  CallInv'
  BY <1>28, SavedIsStale, CallUntouched DEF FailSimulation, TypeOK
<1>29. ASSUME NEW q \in Recoverers, FinishRecovery(q)
       PROVE  CallInv'
  <2>1. \A d \in Callers : task'[d] \notin {"awaiting", "replied"}
    BY <1>29 DEF FinishRecovery, CallInv
  <2>2. \A p \in Recoverers : recovery'[p] # "fresh"
    BY <1>29 DEF FinishRecovery
  <2> QED
    BY <1>29, <2>1, <2>2, CallEnded DEF FinishRecovery
<1>30. ASSUME NEW q \in Recoverers, FailRecovery(q)
       PROVE  CallInv'
  BY <1>30, CallUntouched DEF FailRecovery, TypeOK
<1>31. ASSUME NEW price \in 1..Reserve, LateBill(price)
       PROVE  CallInv'
  BY <1>31, CallUntouched DEF LateBill
<1>32. CASE UNCHANGED vars
  BY <1>32, CallUntouched
<1>33. ASSUME NEW added \in 0..NewWarnings, Propose(added)
       PROVE  CallInv'
  BY <1>33, SavedIsStale, CallUntouched DEF Propose
<1>34. ASSUME NEW c \in Callers, NEW newStatus \in Statuses, ReuseStage(c, newStatus)
       PROVE  CallInv'
  BY <1>34, SavedIsStale, CallUntouched DEF ReuseStage, TypeOK
<1> QED
  BY <1>1, <1>2, <1>3, <1>4, <1>5, <1>6, <1>7, <1>8, <1>9, <1>10, <1>11, <1>12, <1>13, <1>14, <1>15,
     <1>16, <1>17, <1>18, <1>19, <1>20, <1>21, <1>22, <1>23, <1>24, <1>25, <1>26, <1>27, <1>28, <1>29,
     <1>30, <1>31, <1>32, <1>33, <1>34
     DEF Next, StartProcess, Person, LoopStep, Answer

-----------------------------------------------------------------------------
(* The spend record implements the ledger *)

\* A step that touches nothing the ledger sees is a stuttering step of it.
LEMMA LedgerStutter ==
  ASSUME UNCHANGED <<ceiling, spent, pending, uncertain, billed, exposed>>
  PROVE  [Ledger!Next]_(Ledger!ledgerVars)
BY DEF Ledger!ledgerVars

\* Giving up an operation is a stuttering step, or leaves the ledger in doubt.
LEMMA LedgerKept ==
  ASSUME TypeOK, KeepReservation, UNCHANGED <<ceiling, billed, exposed>>
  PROVE  [Ledger!Next]_(Ledger!ledgerVars)
<1> USE Constants
<1>1. CASE pending = 0
  BY <1>1, LedgerStutter DEF KeepReservation, TypeOK
<1>2. CASE pending > 0
  <2>1. Ledger!Doubt
    BY <1>2 DEF KeepReservation, Ledger!Doubt, TypeOK
  <2> QED
    BY <2>1 DEF Ledger!Next
<1> QED
  BY <1>1, <1>2 DEF TypeOK

\* New settings are a new ceiling of the ledger: nothing is held then.
LEMMA LedgerSettings ==
  ASSUME TypeOK, SpendInv, NEW limit \in Ceilings \union {NoCeiling}, SettingsAdmissible(limit),
         ceiling' = limit, UNCHANGED <<spent, pending, uncertain, billed, exposed>>
  PROVE  [Ledger!Next]_(Ledger!ledgerVars)
<1>1. pending = 0
  BY Constants DEF SettingsAdmissible, WriterIdle, SpendInv, TypeOK
<1>2. Ledger!SetCeiling(limit)
  BY <1>1 DEF SettingsAdmissible, Ledger!SetCeiling, NoCeiling, Ledger!NoCeiling
<1> QED
  BY <1>2 DEF Ledger!Next, NoCeiling, Ledger!NoCeiling

\* Every step of the workspace is a step of the ledger or leaves it alone.
LEMMA LedgerSimulation ==
  ASSUME WorkspaceInv, [Next]_vars
  PROVE  [Ledger!Next]_(Ledger!ledgerVars)
<1> USE Constants DEF WorkspaceInv
<1> USE DEF vars, requestVars, sessionVars, settingVars, spendVars, processVars, taskVars, historyVars
<1>1. ASSUME NEW mode \in {"web", "cli"}, NEW newBudget \in CallBudgets,
             StartWithoutProvider(mode, newBudget)
      PROVE  [Ledger!Next]_(Ledger!ledgerVars)
  BY <1>1, LedgerStutter DEF StartWithoutProvider, Start
<1>2. ASSUME NEW mode \in {"web", "cli"}, NEW newBudget \in CallBudgets,
             NEW newModel \in Models, NEW limit \in Ceilings \union {NoCeiling},
             StartWithProvider(mode, newBudget, newModel, limit)
      PROVE  [Ledger!Next]_(Ledger!ledgerVars)
  <2>1. UNCHANGED <<spent, pending, uncertain, billed, exposed>> /\ ceiling' = limit
    BY <1>2 DEF StartWithProvider, Start
  <2>2. CASE SettingsAdmissible(limit)
    BY <2>1, <2>2, LedgerSettings
  <2>3. CASE ceiling = limit
    BY <2>1, <2>3, LedgerStutter
  <2> QED
    BY <1>2, <2>2, <2>3 DEF StartWithProvider
<1>3. CASE Stop
  BY <1>3, LedgerStutter DEF Stop
<1>4. ASSUME NEW r \in Requests, NEW work \in Kinds, Submit(r, work)
      PROVE  [Ledger!Next]_(Ledger!ledgerVars)
  BY <1>4, LedgerStutter DEF Submit
<1>5. ASSUME NEW r \in Requests, CancelOrphan(r) \/ CancelQueued(r) \/ CancelActive(r)
      PROVE  [Ledger!Next]_(Ledger!ledgerVars)
  BY <1>5, LedgerStutter DEF CancelOrphan, CancelQueued, CancelActive
<1>6. ASSUME NEW work \in Kinds, InvokeCli(work)
      PROVE  [Ledger!Next]_(Ledger!ledgerVars)
  BY <1>6, LedgerStutter DEF InvokeCli
<1>7. CASE AbandonExpertCall
  BY <1>7, LedgerKept DEF AbandonExpertCall
<1>8. ASSUME NEW q \in Recoverers, BeginRecovery(q) \/ FinishRecovery(q) \/ FailRecovery(q)
      PROVE  [Ledger!Next]_(Ledger!ledgerVars)
  BY <1>8, LedgerStutter DEF BeginRecovery, FinishRecovery, FailRecovery
<1>9. CASE ReconcileSpend
  <2>1. Ledger!Retain
    BY <1>9 DEF ReconcileSpend, Ledger!Retain
  <2> QED
    BY <2>1 DEF Ledger!Next
<1>10. ASSUME NEW newModel \in Models, NEW limit \in Ceilings \union {NoCeiling}, NEW enabled \in BOOLEAN,
              ConfigureProvider(newModel, limit, enabled)
       PROVE  [Ledger!Next]_(Ledger!ledgerVars)
  BY <1>10, LedgerSettings DEF ConfigureProvider
<1>11. ASSUME NEW added \in 0..NewWarnings, NEW newStatus \in Statuses, ApproveReview(added, newStatus)
       PROVE  [Ledger!Next]_(Ledger!ledgerVars)
  BY <1>11, LedgerStutter DEF ApproveReview
<1>12. CASE Revise
  BY <1>12, LedgerStutter DEF Revise
<1>13. ASSUME NEW r \in Requests, BeginTask(r) \/ EndCancelledTask(r)
       PROVE  [Ledger!Next]_(Ledger!ledgerVars)
  BY <1>13, LedgerStutter DEF BeginTask, EndCancelledTask
<1>14. ASSUME NEW c \in Callers, FinishTask(c) \/ FailTask(c) \/ RefuseCall(c)
       PROVE  [Ledger!Next]_(Ledger!ledgerVars)
  BY <1>14, LedgerStutter DEF FinishTask, FailTask, RefuseCall
<1>15. ASSUME NEW c \in Callers, StartExpertCall(c)
       PROVE  [Ledger!Next]_(Ledger!ledgerVars)
  <2>1. /\ pending = 0 /\ ~uncertain
        /\ UNCHANGED <<ceiling, uncertain, billed>>
    BY <1>15 DEF StartExpertCall, ExpertCallReady, ProviderReady
  <2>2. CASE model = "openai"
    <3>1. Ledger!Hold
      BY <1>15, <2>1, <2>2
         DEF StartExpertCall, ExpertCallReady, ProviderReady, Affordable, NoCeiling, Ledger!Hold, Ledger!NoCeiling
    <3> QED
      BY <3>1 DEF Ledger!Next
  <2>3. CASE model # "openai"
    <3>1. spent' = spent + 0 /\ pending' = 0 /\ exposed' = exposed + 0
      BY <1>15, <2>3 DEF StartExpertCall
    <3>2. UNCHANGED <<spent, pending, exposed>>
      BY <2>1, <3>1 DEF TypeOK
    <3> QED
      BY <2>1, <3>2, LedgerStutter
  <2> QED
    BY <2>2, <2>3
<1>16. ASSUME NEW c \in Callers, NEW unused \in 0..pending, ReceiveReply(c, unused)
       PROVE  [Ledger!Next]_(Ledger!ledgerVars)
  <2>1. /\ spent' = spent - unused /\ pending' = 0
        /\ billed' = billed + (pending - unused) /\ exposed' = exposed - pending
        /\ exposed >= pending /\ UNCHANGED <<ceiling, uncertain>>
    BY <1>16 DEF ReceiveReply, Awaiting, SpendInv
  <2>2. pending \in Nat /\ pending <= Reserve /\ unused \in Nat /\ unused <= pending
    BY DEF TypeOK
  <2>3. CASE pending = 0
    <3>1. UNCHANGED <<spent, pending, billed, exposed>>
      BY <2>1, <2>2, <2>3 DEF TypeOK
    <3> QED
      BY <2>1, <3>1, LedgerStutter
  <2>4. CASE pending > 0
    <3> DEFINE price == pending - unused
    <3>1. price \in 0..Reserve /\ spent' = spent - (pending - price)
      BY <2>1, <2>2 DEF TypeOK
    <3>2. Ledger!Settle(price)
      BY <2>1, <2>4, <3>1 DEF Ledger!Settle
    <3> QED
      BY <3>1, <3>2 DEF Ledger!Next
  <2> QED
    BY <2>2, <2>3, <2>4
<1>17. ASSUME NEW c \in Callers, FailExpertCall(c)
       PROVE  [Ledger!Next]_(Ledger!ledgerVars)
  BY <1>17, LedgerKept DEF FailExpertCall
<1>18. ASSUME NEW c \in Callers, NEW added \in 0..NewWarnings, NEW newStatus \in Statuses,
              AcceptOutput(c, added, newStatus)
       PROVE  [Ledger!Next]_(Ledger!ledgerVars)
  BY <1>18, LedgerStutter DEF AcceptOutput
<1>19. ASSUME NEW c \in Callers, RefuseOutput(c)
       PROVE  [Ledger!Next]_(Ledger!ledgerVars)
  BY <1>19, LedgerStutter DEF RefuseOutput
<1>20. ASSUME NEW c \in Callers, NEW retry \in BOOLEAN, RejectOutput(c, retry)
       PROVE  [Ledger!Next]_(Ledger!ledgerVars)
  BY <1>20, LedgerKept DEF RejectOutput
<1>21. ASSUME NEW c \in Callers, StartSimulation(c) \/ ReportSimulation(c) \/ FailSimulation(c)
       PROVE  [Ledger!Next]_(Ledger!ledgerVars)
  BY <1>21, LedgerStutter DEF StartSimulation, ReportSimulation, FailSimulation
<1>22. ASSUME NEW price \in 1..Reserve, LateBill(price)
       PROVE  [Ledger!Next]_(Ledger!ledgerVars)
  <2>1. exposed >= Reserve
    BY <1>22 DEF LateBill, LostExposure, TypeOK
  <2>2. Ledger!LateBill(price)
    BY <1>22, <2>1 DEF LateBill, Ledger!LateBill
  <2> QED
    BY <2>2 DEF Ledger!Next
<1>23. CASE UNCHANGED vars
  BY <1>23, LedgerStutter
<1>24. ASSUME NEW added \in 0..NewWarnings, Propose(added)
       PROVE  [Ledger!Next]_(Ledger!ledgerVars)
  BY <1>24, LedgerStutter DEF Propose
<1>25. ASSUME NEW c \in Callers, NEW newStatus \in Statuses, ReuseStage(c, newStatus)
       PROVE  [Ledger!Next]_(Ledger!ledgerVars)
  BY <1>25, LedgerStutter DEF ReuseStage
<1> QED
  BY <1>1, <1>2, <1>3, <1>4, <1>5, <1>6, <1>7, <1>8, <1>9, <1>10, <1>11, <1>12, <1>13, <1>14, <1>15,
     <1>16, <1>17, <1>18, <1>19, <1>20, <1>21, <1>22, <1>23, <1>24, <1>25
     DEF Next, StartProcess, Person, LoopStep, Answer

-----------------------------------------------------------------------------
(* Requests and their tasks *)

\* Why one call runs at a time: an open request has the writer to itself, a task in
\* the middle of its call works for an open request, and a command of the command
\* line and tasks of the web workspace are never in one process.
RequestInv ==
    /\ \A r \in Requests :
         /\ task[r] = "scheduled" => phase[r] = "queued"
         /\ task[r] \in {"calling", "awaiting", "replied", "returned"} => phase[r] = "active"
         /\ task[r] = "raised" => phase[r] \in {"queued", "active"}
    /\ \A r, s \in Requests : phase[r] \in OpenPhases /\ phase[s] \in OpenPhases => r = s
    /\ process # "web" => \A r \in Requests : task[r] = "none"
    /\ process # "cli" => task[Cli] = "none"

\* Why an outcome is true: until a task begins nothing is sent, a call in progress
\* was sent, and one that returned is over.
OutcomeInv ==
    \A r \in Requests :
        /\ phase[r] \in {"absent", "queued", "cancelled"} => r \notin dispatched
        /\ task[r] \in {"awaiting", "replied"} => r \in dispatched
        /\ task[r] = "returned" => active # r /\ (kind[r] # "generation" => r \in dispatched)
        /\ phase[r] = "completed" =>
             active # r /\ (kind[r] # "generation" => r \in dispatched)

\* The steps of a call, from its start to its return.
InCall == {"calling", "awaiting", "replied"}
AfterCallStep == {"calling", "awaiting", "replied", "returned", "raised"}

LEMMA RequestUntouched ==
  ASSUME RequestInv, UNCHANGED <<phase, task, process>>
  PROVE  RequestInv'
BY DEF RequestInv

\* A call moves on under its open request.
LEMMA RequestInCall ==
  ASSUME TypeOK, RequestInv, NEW c \in Callers, task[c] \in InCall, NEW t \in AfterCallStep,
         task' = [task EXCEPT ![c] = t], UNCHANGED <<phase, process>>
  PROVE  RequestInv'
<1>1. \A d \in Callers : task'[d] = IF d = c THEN t ELSE task[d]
  BY DEF TypeOK
<1>2. \A r \in Requests : r = c => phase[r] = "active"
  BY DEF RequestInv, InCall
<1>3. c = Cli => process = "cli"
  BY DEF RequestInv, InCall
<1>4. c # Cli => process = "web"
  BY DEF RequestInv, InCall, Callers
<1> QED
  BY <1>1, <1>2, <1>3, <1>4, Constants DEF RequestInv, AfterCallStep, Callers

\* A task ends; its request may be settled.
LEMMA RequestEnds ==
  ASSUME TypeOK, RequestInv, NEW c \in Callers,
         task' = [task EXCEPT ![c] = "none"],
         \A r \in Requests : phase'[r] = phase[r] \/ (r = c /\ phase'[r] \in SettledPhases),
         UNCHANGED process
  PROVE  RequestInv'
<1>1. \A d \in Callers : task'[d] = IF d = c THEN "none" ELSE task[d]
  BY DEF TypeOK
<1>2. \A r \in Requests : phase'[r] \in OpenPhases => phase[r] \in OpenPhases
  BY DEF OpenPhases, SettledPhases
<1> QED
  BY <1>1, <1>2 DEF RequestInv, Callers

\* Recording an outcome changes the phase of no other request, and of no settled one.
LEMMA FinishOnlyOpen ==
  ASSUME TypeOK, NEW r \in Requests, NEW outcome \in SettledPhases, Finish(r, outcome)
  PROVE  /\ \A s \in Requests : s # r => phase'[s] = phase[s]
         /\ phase[r] \in SettledPhases => phase'[r] = phase[r]
         /\ phase[r] \notin SettledPhases => phase'[r] = outcome
BY DEF TypeOK, Finish

\* No request is open after a restart of the web workspace.
LEMMA ReconciledPhases ==
  ASSUME TypeOK, NEW r \in Requests
  PROVE  /\ Reconciled(phase[r]) \notin OpenPhases
         /\ phase[r] \in SettledPhases \union {"absent"} => Reconciled(phase[r]) = phase[r]
         /\ Reconciled(phase[r]) = "absent" => phase[r] = "absent"
         /\ Reconciled(phase[r]) = "cancelled" => phase[r] \in {"queued", "cancelled"}
         /\ Reconciled(phase[r]) = "completed" => phase[r] = "completed"
<1>1. phase[r] \in {"absent", "queued", "active", "cancellation_requested", "completed",
                    "failed", "cancelled", "reconciliation_needed"}
  BY DEF TypeOK, Phases, OpenPhases, SettledPhases
<1> QED
  BY <1>1 DEF Reconciled, OpenPhases, SettledPhases

LEMMA RequestStarts ==
  ASSUME TypeOK, RequestInv, NEW mode \in {"web", "cli"}, NEW newBudget, Start(mode, newBudget)
  PROVE  RequestInv'
<1> USE DEF taskVars
<1>1. \A c \in Callers : task'[c] = "none"
  BY DEF Start, RequestInv, Callers
<1>2. process' = mode
  BY DEF Start
<1>3. CASE mode = "web"
  <2>1. \A r \in Requests : phase'[r] \notin OpenPhases
    BY <1>3, ReconciledPhases DEF Start
  <2> QED
    BY <1>1, <2>1 DEF RequestInv, Callers
<1>4. CASE mode = "cli"
  <2>1. phase' = phase
    BY <1>4 DEF Start
  <2> QED
    BY <1>1, <2>1 DEF RequestInv, Callers
<1> QED
  BY <1>3, <1>4

LEMMA RequestStep ==
  ASSUME TypeOK, RequestInv, [Next]_vars
  PROVE  RequestInv'
<1> USE DEF requestVars, processVars, taskVars
<1>1. CASE StartProcess
  BY <1>1, RequestStarts DEF StartProcess, StartWithoutProvider, StartWithProvider
<1>2. CASE Stop
  BY <1>2 DEF Stop, RequestInv, Callers
<1>3. ASSUME NEW r \in Requests, NEW work \in Kinds, Submit(r, work)
      PROVE  RequestInv'
  <2>1. /\ phase' = [phase EXCEPT ![r] = "queued"] /\ task' = [task EXCEPT ![r] = "scheduled"]
        /\ process = "web" /\ process' = process /\ OpenRequests = {} /\ r # Cli
    BY <1>3, Constants DEF Submit, WriterIdle
  <2>2. \A s \in Requests : phase[s] \notin OpenPhases
    BY <2>1 DEF OpenRequests
  <2>3. \A s \in Requests : phase'[s] \in OpenPhases => s = r
    BY <2>1, <2>2 DEF TypeOK
  <2>4. /\ \A s \in Requests \ {r} : task'[s] = task[s] /\ phase'[s] = phase[s]
        /\ task'[Cli] = task[Cli] /\ task'[r] = "scheduled" /\ phase'[r] = "queued"
    BY <2>1 DEF TypeOK, Callers
  <2> QED
    BY <2>1, <2>3, <2>4 DEF RequestInv
<1>4. ASSUME NEW r \in Requests, CancelOrphan(r)
      PROVE  RequestInv'
  <2>1. /\ UNCHANGED <<task, process>>
        /\ task[r] = "none" /\ Finish(r, "reconciliation_needed")
    BY <1>4 DEF CancelOrphan
  <2>2. task' = [task EXCEPT ![r] = "none"]
    BY <2>1 DEF TypeOK
  <2>3. \A s \in Requests : phase'[s] = phase[s] \/ (s = r /\ phase'[s] \in SettledPhases)
    BY <2>1, FinishOnlyOpen DEF SettledPhases
  <2>4. r \in Callers
    BY DEF Callers
  <2> QED
    BY <2>1, <2>2, <2>3, <2>4, RequestEnds
<1>5. ASSUME NEW r \in Requests, CancelQueued(r)
      PROVE  RequestInv'
  <2>1. /\ task' = [task EXCEPT ![r] = "cancelling"] /\ UNCHANGED process
        /\ process = "web" /\ phase[r] = "queued" /\ Finish(r, "cancelled")
    BY <1>5 DEF CancelQueued
  <2>2. /\ \A s \in Requests : s # r => phase'[s] = phase[s]
        /\ phase'[r] = "cancelled"
    BY <2>1, FinishOnlyOpen DEF SettledPhases
  <2>3. /\ \A s \in Requests \ {r} : task'[s] = task[s]
        /\ task'[Cli] = task[Cli] /\ task'[r] = "cancelling"
    BY <2>1, Constants DEF TypeOK, Callers
  <2> QED
    BY <2>1, <2>2, <2>3 DEF RequestInv, OpenPhases
<1>6. ASSUME NEW r \in Requests, CancelActive(r)
      PROVE  RequestInv'
  <2>1. /\ task' = [task EXCEPT ![r] = "cancelling"] /\ UNCHANGED process
        /\ process = "web" /\ phase[r] = "active"
        /\ phase' = [phase EXCEPT ![r] = "cancellation_requested"]
    BY <1>6 DEF CancelActive
  <2>2. /\ \A s \in Requests \ {r} : task'[s] = task[s] /\ phase'[s] = phase[s]
        /\ task'[Cli] = task[Cli] /\ task'[r] = "cancelling"
        /\ phase'[r] = "cancellation_requested"
    BY <2>1, Constants DEF TypeOK, Callers
  <2> QED
    BY <2>1, <2>2 DEF RequestInv, OpenPhases
<1>7. ASSUME NEW r \in Requests, BeginTask(r)
      PROVE  RequestInv'
  <2>1. /\ task[r] = "scheduled" /\ UNCHANGED process
        /\ \/ task' = [task EXCEPT ![r] = "calling"] /\ phase' = [phase EXCEPT ![r] = "active"]
           \/ task' = [task EXCEPT ![r] = "raised"] /\ phase' = [phase EXCEPT ![r] = "queued"]
        /\ phase[r] = "queued"
    BY <1>7 DEF BeginTask
  <2>2. /\ \A s \in Requests \ {r} : task'[s] = task[s] /\ phase'[s] = phase[s]
        /\ task'[Cli] = task[Cli]
        /\ \/ task'[r] = "calling" /\ phase'[r] = "active"
           \/ task'[r] = "raised" /\ phase'[r] = "queued"
    BY <2>1, Constants DEF TypeOK, Callers
  <2> QED
    BY <2>1, <2>2 DEF RequestInv, OpenPhases
<1>8. ASSUME NEW work \in Kinds, InvokeCli(work)
      PROVE  RequestInv'
  <2>1. /\ task' = [task EXCEPT ![Cli] = "calling"] /\ UNCHANGED <<phase, process>>
        /\ process = "cli"
    BY <1>8 DEF InvokeCli, CommandFree
  <2>2. \A r \in Requests : task'[r] = task[r]
    BY <2>1, Constants DEF TypeOK, Callers
  <2> QED
    BY <2>1, <2>2 DEF RequestInv
<1>9. ASSUME NEW r \in Requests, EndCancelledTask(r)
      PROVE  RequestInv'
  <2>1. /\ task' = [task EXCEPT ![r] = "none"] /\ UNCHANGED process
        /\ Finish(r, "reconciliation_needed")
    BY <1>9 DEF EndCancelledTask
  <2>2. \A s \in Requests : phase'[s] = phase[s] \/ (s = r /\ phase'[s] \in SettledPhases)
    BY <2>1, FinishOnlyOpen DEF SettledPhases
  <2>3. r \in Callers
    BY DEF Callers
  <2> QED
    BY <2>1, <2>2, <2>3, RequestEnds
<1>10. ASSUME NEW c \in Callers, FinishTask(c) \/ FailTask(c)
       PROVE  RequestInv'
  <2>1. /\ task' = [task EXCEPT ![c] = "none"] /\ UNCHANGED process
        /\ \/ UNCHANGED phase
           \/ c \in Requests /\ Finish(c, "completed")
           \/ c \in Requests /\ Finish(c, FailurePhase(c))
    BY <1>10 DEF FinishTask, FailTask, Callers
  <2>2. FailurePhase(c) \in SettledPhases /\ "completed" \in SettledPhases
    BY DEF FailurePhase, SettledPhases
  <2>3. \A s \in Requests : phase'[s] = phase[s] \/ (s = c /\ phase'[s] \in SettledPhases)
    BY <2>1, <2>2, FinishOnlyOpen
  <2> QED
    BY <2>1, <2>3, RequestEnds
<1>11. ASSUME NEW c \in Callers, NEW t \in AfterCallStep, task[c] \in InCall,
              task' = [task EXCEPT ![c] = t], UNCHANGED <<phase, process>>
       PROVE  RequestInv'
  BY <1>11, RequestInCall
<1>12. ASSUME NEW c \in Callers, LoopStep(c)
       PROVE  RequestInv'
  <2>1. \/ FinishTask(c) \/ FailTask(c)
        \/ /\ task[c] \in InCall /\ UNCHANGED <<phase, process>>
           /\ \E t \in AfterCallStep : task' = [task EXCEPT ![c] = t]
    BY <1>12 DEF LoopStep, StartExpertCall, RefuseCall, ReuseStage, AcceptOutput, RefuseOutput,
                 RejectOutput, StartSimulation, InCall, AfterCallStep
  <2> QED
    BY <2>1, <1>10, <1>11
<1>13. ASSUME NEW c \in Callers, Answer(c)
       PROVE  RequestInv'
  <2>1. /\ task[c] \in InCall /\ UNCHANGED <<phase, process>>
        /\ \E t \in AfterCallStep : task' = [task EXCEPT ![c] = t]
    BY <1>13 DEF Answer, ReceiveReply, FailExpertCall, ReportSimulation, FailSimulation,
                 Awaiting, InCall, AfterCallStep
  <2> QED
    BY <2>1, <1>11
<1>14. CASE UNCHANGED <<phase, task, process>>
  BY <1>14, RequestUntouched
<1>15. CASE Person
  <2>1. \/ UNCHANGED <<phase, task, process>>
        \/ \E r \in Requests, work \in Kinds : Submit(r, work)
        \/ \E r \in Requests : CancelOrphan(r) \/ CancelQueued(r) \/ CancelActive(r)
        \/ \E work \in Kinds : InvokeCli(work)
    BY <1>15 DEF Person, AbandonExpertCall, BeginRecovery, ReconcileSpend, ConfigureProvider,
                 ApproveReview, Propose, Revise
  <2> QED
    BY <2>1, <1>3, <1>4, <1>5, <1>6, <1>8, <1>14
<1>16. ASSUME \/ \E q \in Recoverers : FinishRecovery(q) \/ FailRecovery(q)
              \/ \E price \in 1..Reserve : LateBill(price)
              \/ UNCHANGED vars
       PROVE  RequestInv'
  BY <1>14, <1>16 DEF FinishRecovery, FailRecovery, LateBill, vars
<1> QED
  BY <1>1, <1>2, <1>7, <1>9, <1>12, <1>13, <1>15, <1>16 DEF Next

-----------------------------------------------------------------------------
(* Outcomes *)

\* Outside a call nothing is sent; a phase changes to one that claims nothing, or
\* to one that is true.
LEMMA OutcomeRecorded ==
  ASSUME TypeOK, RequestInv, OutcomeInv, UNCHANGED <<active, kind, dispatched>>,
         \A r \in Requests :
            task'[r] \in {task[r], "none", "cancelling", "calling", "raised"},
         \A r \in Requests :
            \/ phase'[r] \in {phase[r], "failed", "reconciliation_needed", "active",
                              "cancellation_requested"}
            \/ phase'[r] = "cancelled" /\ phase[r] = "queued"
            \/ phase'[r] = "completed" /\ task[r] = "returned"
  PROVE  OutcomeInv'
<1> SUFFICES ASSUME NEW r \in Requests
             PROVE  /\ phase'[r] \in {"absent", "queued", "cancelled"} => r \notin dispatched
                    /\ task'[r] \in {"awaiting", "replied"} => r \in dispatched
                    /\ task'[r] = "returned" =>
                         active # r /\ (kind[r] # "generation" => r \in dispatched)
                    /\ phase'[r] = "completed" =>
                         active # r /\ (kind[r] # "generation" => r \in dispatched)
  BY DEF OutcomeInv
<1>1. phase'[r] \in {"absent", "queued", "cancelled"} => r \notin dispatched
  BY DEF OutcomeInv
<1>2. task'[r] \in {"awaiting", "replied"} => r \in dispatched
  BY DEF OutcomeInv
<1>3. task'[r] = "returned" => active # r /\ (kind[r] # "generation" => r \in dispatched)
  BY DEF OutcomeInv
<1>4. phase'[r] = "completed" => active # r /\ (kind[r] # "generation" => r \in dispatched)
  BY DEF OutcomeInv
<1> QED
  BY <1>1, <1>2, <1>3, <1>4

\* A call is sent before it is awaited, and is over when it returns.
LEMMA OutcomeInCall ==
  ASSUME TypeOK, RequestInv, OutcomeInv, NEW c \in Callers, task[c] \in InCall,
         NEW t \in AfterCallStep, task' = [task EXCEPT ![c] = t], UNCHANGED <<phase, kind>>,
         active' \in {active, Nobody, c},
         dispatched' \in {dispatched, dispatched \union ({c} \ {Cli})},
         t = "awaiting" => dispatched' = dispatched \union ({c} \ {Cli}),
         t = "replied" => task[c] = "awaiting",
         t = "returned" => /\ active' = Nobody
                           /\ task[c] \in {"awaiting", "replied"} \/ KindOf(c) = "generation"
  PROVE  OutcomeInv'
<1>1. \A d \in Callers : task'[d] = IF d = c THEN t ELSE task[d]
  BY DEF TypeOK
<1>2. ASSUME NEW r \in Requests, r # c
      PROVE  /\ task'[r] = task[r] /\ (r \in dispatched' <=> r \in dispatched)
             /\ active' = r => active = r
  BY <1>1, <1>2, Constants DEF Callers
<1>3. ASSUME c \in Requests
      PROVE  /\ phase[c] = "active" /\ task'[c] = t
             /\ t \in {"awaiting", "replied"} => c \in dispatched'
             /\ t = "returned" => active' # c /\ (kind[c] # "generation" => c \in dispatched')
  <2>1. phase[c] = "active" /\ task'[c] = t /\ c # Cli
    BY <1>1, <1>3, Constants DEF RequestInv, InCall
  <2>2. t \in {"awaiting", "replied"} => c \in dispatched'
    BY <1>3, <2>1 DEF OutcomeInv
  <2>3. t = "returned" => active' # c
    BY <1>3, Constants
  <2>4. t = "returned" /\ kind[c] # "generation" => c \in dispatched'
    BY <1>3, <2>1 DEF OutcomeInv, KindOf
  <2> QED
    BY <2>1, <2>2, <2>3, <2>4
<1>4. ASSUME NEW r \in Requests
      PROVE  /\ phase'[r] \in {"absent", "queued", "cancelled"} => r \notin dispatched'
             /\ task'[r] \in {"awaiting", "replied"} => r \in dispatched'
             /\ task'[r] = "returned" =>
                  active' # r /\ (kind'[r] # "generation" => r \in dispatched')
             /\ phase'[r] = "completed" =>
                  active' # r /\ (kind'[r] # "generation" => r \in dispatched')
  <2>1. CASE r = c
    BY <1>3, <2>1
  <2>2. CASE r # c
    BY <1>2, <2>2 DEF OutcomeInv
  <2> QED
    BY <2>1, <2>2
<1> QED
  BY <1>4 DEF OutcomeInv

LEMMA OutcomeStep ==
  ASSUME TypeOK, CallInv, RequestInv, OutcomeInv, [Next]_vars
  PROVE  OutcomeInv'
<1> USE DEF requestVars, sessionVars, taskVars, historyVars
<1>1. CASE StartProcess
  <2>1. PICK mode \in {"web", "cli"}, newBudget \in CallBudgets : Start(mode, newBudget)
    BY <1>1 DEF StartProcess, StartWithoutProvider, StartWithProvider
  <2>2. /\ UNCHANGED <<active, kind, dispatched, task>>
        /\ \A r \in Requests : phase'[r] \in {phase[r], Reconciled(phase[r])}
    BY <2>1 DEF Start
  <2>3. \A r \in Requests :
           \/ phase'[r] \in {phase[r], "failed", "reconciliation_needed", "active",
                             "cancellation_requested"}
           \/ phase'[r] = "cancelled" /\ phase[r] = "queued"
    BY <2>2 DEF Reconciled, OpenPhases
  <2> QED
    BY <2>2, <2>3, OutcomeRecorded
<1>2. CASE Stop
  <2>1. UNCHANGED <<active, kind, dispatched, phase>> /\ \A r \in Requests : task'[r] = "none"
    BY <1>2 DEF Stop, Callers
  <2> QED
    BY <2>1, OutcomeRecorded
<1>3. ASSUME NEW r \in Requests, NEW work \in Kinds, Submit(r, work)
      PROVE  OutcomeInv'
  <2>1. /\ phase' = [phase EXCEPT ![r] = "queued"] /\ task' = [task EXCEPT ![r] = "scheduled"]
        /\ kind' = [kind EXCEPT ![r] = work] /\ phase[r] = "absent"
        /\ UNCHANGED <<active, dispatched>>
    BY <1>3 DEF Submit
  <2>2. /\ \A s \in Requests \ {r} : task'[s] = task[s] /\ phase'[s] = phase[s] /\ kind'[s] = kind[s]
        /\ task'[r] = "scheduled" /\ phase'[r] = "queued" /\ r \notin dispatched
    BY <2>1 DEF TypeOK, Callers, OutcomeInv
  <2> QED
    BY <2>1, <2>2 DEF OutcomeInv
<1>4. ASSUME NEW r \in Requests,
             CancelOrphan(r) \/ CancelQueued(r) \/ CancelActive(r) \/ BeginTask(r)
             \/ EndCancelledTask(r)
      PROVE  OutcomeInv'
  <2>1. /\ UNCHANGED <<active, kind, dispatched>>
        /\ \/ UNCHANGED task
           \/ \E t \in {"none", "cancelling", "calling", "raised"} : task' = [task EXCEPT ![r] = t]
        /\ \/ Finish(r, "reconciliation_needed")
           \/ Finish(r, "cancelled") /\ phase[r] = "queued"
           \/ phase' = [phase EXCEPT ![r] = "cancellation_requested"]
           \/ phase' = [phase EXCEPT ![r] = "active"]
           \/ phase' = [phase EXCEPT ![r] = "queued"] /\ phase[r] = "queued"
    BY <1>4 DEF CancelOrphan, CancelQueued, CancelActive, BeginTask, EndCancelledTask
  <2>2. \A s \in Requests : task'[s] \in {task[s], "none", "cancelling", "calling", "raised"}
    BY <2>1 DEF TypeOK, Callers
  <2>3. \A s \in Requests :
           \/ phase'[s] \in {phase[s], "failed", "reconciliation_needed", "active",
                             "cancellation_requested"}
           \/ phase'[s] = "cancelled" /\ phase[s] = "queued"
    BY <2>1, FinishOnlyOpen DEF TypeOK, SettledPhases
  <2> QED
    BY <2>1, <2>2, <2>3, OutcomeRecorded
<1>5. ASSUME NEW work \in Kinds, InvokeCli(work)
      PROVE  OutcomeInv'
  <2>1. UNCHANGED <<active, kind, dispatched, phase>> /\ task' = [task EXCEPT ![Cli] = "calling"]
    BY <1>5 DEF InvokeCli
  <2>2. \A s \in Requests : task'[s] = task[s]
    BY <2>1, Constants DEF TypeOK, Callers
  <2> QED
    BY <2>1, <2>2, OutcomeRecorded
<1>6. ASSUME NEW c \in Callers, FinishTask(c) \/ FailTask(c)
      PROVE  OutcomeInv'
  <2>1. /\ UNCHANGED <<active, kind, dispatched>> /\ task' = [task EXCEPT ![c] = "none"]
        /\ \/ UNCHANGED phase
           \/ c \in Requests /\ Finish(c, "completed") /\ task[c] = "returned"
           \/ c \in Requests /\ Finish(c, FailurePhase(c))
    BY <1>6 DEF FinishTask, FailTask, Callers
  <2>2. FailurePhase(c) \in {"failed", "reconciliation_needed"}
    BY DEF FailurePhase
  <2>3. \A s \in Requests : task'[s] \in {task[s], "none", "cancelling", "calling", "raised"}
    BY <2>1 DEF TypeOK, Callers
  <2>4. \A s \in Requests :
           \/ phase'[s] \in {phase[s], "failed", "reconciliation_needed", "active",
                             "cancellation_requested"}
           \/ phase'[s] = "completed" /\ task[s] = "returned"
    BY <2>1, <2>2, FinishOnlyOpen DEF SettledPhases
  <2> QED
    BY <2>1, <2>3, <2>4, OutcomeRecorded
<1>7. ASSUME NEW c \in Callers, LoopStep(c)
      PROVE  OutcomeInv'
  <2>1. CASE StartExpertCall(c) \/ StartSimulation(c)
    <3>1. /\ task[c] \in InCall /\ task' = [task EXCEPT ![c] = "awaiting"]
          /\ UNCHANGED <<phase, kind>> /\ active' = c
          /\ dispatched' = dispatched \union ({c} \ {Cli})
      BY <2>1 DEF StartExpertCall, StartSimulation, InCall
    <3> QED
      BY <3>1, OutcomeInCall DEF AfterCallStep
  <2>2. CASE RefuseCall(c) \/ RefuseOutput(c) \/ \E retry \in BOOLEAN : RejectOutput(c, retry)
    <3>1. /\ task[c] \in InCall /\ UNCHANGED <<phase, kind, dispatched>>
          /\ active' \in {active, Nobody}
          /\ \E t \in {"calling", "raised"} : task' = [task EXCEPT ![c] = t]
      BY <2>2 DEF RefuseCall, RefuseOutput, RejectOutput, NothingActive, InCall
    <3> QED
      BY <3>1, OutcomeInCall DEF AfterCallStep
  <2>3. ASSUME NEW newStatus \in Statuses, ReuseStage(c, newStatus)
        PROVE  OutcomeInv'
    <3>1. /\ task[c] \in InCall /\ UNCHANGED <<phase, kind, dispatched>>
          /\ active' = Nobody /\ KindOf(c) = "generation"
          /\ task' = [task EXCEPT ![c] = "returned"]
      BY <2>3 DEF ReuseStage, InCall
    <3> QED
      BY <3>1, OutcomeInCall DEF AfterCallStep
  <2>4. ASSUME NEW added \in 0..NewWarnings, NEW newStatus \in Statuses,
               AcceptOutput(c, added, newStatus)
        PROVE  OutcomeInv'
    <3>1. /\ task[c] = "replied" /\ UNCHANGED <<phase, kind, dispatched>>
          /\ active' = Nobody /\ task' = [task EXCEPT ![c] = "returned"]
      BY <2>4 DEF AcceptOutput, NothingActive
    <3> QED
      BY <3>1, OutcomeInCall DEF AfterCallStep, InCall
  <2> QED
    BY <1>6, <1>7, <2>1, <2>2, <2>3, <2>4 DEF LoopStep
<1>8. ASSUME NEW c \in Callers, Answer(c)
      PROVE  OutcomeInv'
  <2>1. task[c] = "awaiting" /\ UNCHANGED <<phase, kind, dispatched>>
    BY <1>8 DEF Answer, ReceiveReply, FailExpertCall, ReportSimulation, FailSimulation, Awaiting
  <2>2. \/ active' = Nobody /\ task' = [task EXCEPT ![c] = "returned"]
        \/ /\ active' \in {active, Nobody}
           /\ \E t \in {"replied", "raised"} : task' = [task EXCEPT ![c] = t]
    BY <1>8 DEF Answer, ReceiveReply, FailExpertCall, ReportSimulation, FailSimulation,
                NothingActive
  <2> QED
    BY <2>1, <2>2, OutcomeInCall DEF AfterCallStep, InCall
<1>9. ASSUME UNCHANGED <<phase, kind, task, dispatched>>, active' \in {active, Nobody}
      PROVE  OutcomeInv'
  BY <1>9, Constants DEF OutcomeInv, Callers
<1>10. CASE Person
  <2>1. \/ UNCHANGED <<phase, kind, task, dispatched>> /\ active' \in {active, Nobody}
        \/ \E r \in Requests, work \in Kinds : Submit(r, work)
        \/ \E r \in Requests : CancelOrphan(r) \/ CancelQueued(r) \/ CancelActive(r)
        \/ \E work \in Kinds : InvokeCli(work)
    BY <1>10 DEF Person, AbandonExpertCall, NothingActive, BeginRecovery, ReconcileSpend,
                 ConfigureProvider, ApproveReview, Propose, Revise
  <2> QED
    BY <2>1, <1>3, <1>4, <1>5, <1>9
<1>11. ASSUME \/ \E q \in Recoverers : FinishRecovery(q) \/ FailRecovery(q)
              \/ \E price \in 1..Reserve : LateBill(price)
              \/ UNCHANGED vars
       PROVE  OutcomeInv'
  BY <1>9, <1>11 DEF FinishRecovery, FailRecovery, NothingActive, LateBill, vars
<1> QED
  BY <1>1, <1>2, <1>4, <1>7, <1>8, <1>10, <1>11 DEF Next

-----------------------------------------------------------------------------
(* Queued plans, single calls, final outcomes *)

\* Nothing that a queued request was reviewed against changes.
LEMMA QueuedKept ==
  ASSUME RequestInv, QueuedPlanHolds,
         UNCHANGED <<kind, active, status, model, ceiling, spent, pending, uncertain,
                     calls, callLimit, budget, expert>>,
         \A r \in Requests : task'[r] = "scheduled" => task[r] = "scheduled"
  PROVE  QueuedPlanHolds'
BY DEF QueuedPlanHolds, RequestInv, StatusAllows, GenerationReady, ProviderReady, Affordable,
       CallAllowance

\* Without a queued task there is no plan to hold.
LEMMA NothingQueued ==
  ASSUME \A r \in Requests : task'[r] # "scheduled"
  PROVE  QueuedPlanHolds'
BY DEF QueuedPlanHolds

\* A task that waits for its turn is the only work of its process.
LEMMA QueuedAlone ==
  ASSUME RequestInv, NEW r \in Requests, task[r] = "scheduled"
  PROVE  /\ process = "web" /\ r \in OpenRequests
         /\ \A c \in Callers : task[c] \notin InCall \union {"returned", "raised"}
<1>1. phase[r] = "queued" /\ process = "web"
  BY DEF RequestInv
<1>2. \A s \in Requests : task[s] \notin InCall \union {"returned", "raised"}
  <2> SUFFICES ASSUME NEW s \in Requests, task[s] \in InCall \union {"returned", "raised"}
               PROVE  FALSE
    OBVIOUS
  <2>1. phase[s] \in OpenPhases /\ s # r
    BY DEF RequestInv, InCall, OpenPhases
  <2> QED
    BY <1>1, <2>1 DEF RequestInv, OpenPhases
<1>3. task[Cli] \notin InCall \union {"returned", "raised"}
  BY <1>1 DEF RequestInv, InCall
<1> QED
  BY <1>1, <1>2, <1>3 DEF OpenRequests, OpenPhases, Callers

LEMMA QueuedStep ==
  ASSUME TypeOK, CallInv, SpendInv, RequestInv, QueuedPlanHolds, [Next]_vars
  PROVE  QueuedPlanHolds'
<1> USE DEF requestVars, sessionVars, settingVars, spendVars, processVars, taskVars, historyVars
<1>1. CASE StartProcess
  <2>1. process = "down" /\ task' = task
    BY <1>1 DEF StartProcess, StartWithoutProvider, StartWithProvider, Start
  <2> QED
    BY <2>1, NothingQueued DEF RequestInv
<1>2. CASE Stop
  BY <1>2, NothingQueued DEF Stop, Callers
<1>3. ASSUME NEW r \in Requests, NEW work \in Kinds, Submit(r, work)
      PROVE  QueuedPlanHolds'
  <2>1. /\ active = Nobody /\ OpenRequests = {} /\ StatusAllows(work)
        /\ work = "generation" => GenerationReady
        /\ kind' = [kind EXCEPT ![r] = work] /\ task' = [task EXCEPT ![r] = "scheduled"]
        /\ UNCHANGED <<active, status, model, ceiling, spent, pending, uncertain,
                       calls, callLimit, budget, expert>>
    BY <1>3 DEF Submit, WriterIdle
  <2>2. \A s \in Requests : task'[s] = "scheduled" => s = r
    BY <2>1, QueuedAlone DEF TypeOK, Callers
  <2>3. kind'[r] = work
    BY <2>1 DEF TypeOK
  <2> QED
    BY <2>1, <2>2, <2>3 DEF QueuedPlanHolds, StatusAllows, GenerationReady, ProviderReady,
                            Affordable, CallAllowance
<1>4. ASSUME NEW r \in Requests,
             CancelOrphan(r) \/ CancelQueued(r) \/ CancelActive(r) \/ BeginTask(r)
             \/ EndCancelledTask(r)
      PROVE  QueuedPlanHolds'
  <2>1. /\ UNCHANGED <<kind, active, status, model, ceiling, spent, pending, uncertain,
                       calls, callLimit, budget, expert>>
        /\ \/ UNCHANGED task
           \/ \E t \in {"none", "cancelling", "calling", "raised"} : task' = [task EXCEPT ![r] = t]
    BY <1>4 DEF CancelOrphan, CancelQueued, CancelActive, BeginTask, EndCancelledTask
  <2>2. \A s \in Requests : task'[s] = "scheduled" => task[s] = "scheduled"
    BY <2>1 DEF TypeOK, Callers
  <2> QED
    BY <2>1, <2>2, QueuedKept
<1>5. ASSUME CommandFree \/ WriterIdle, UNCHANGED task
      PROVE  QueuedPlanHolds'
  <2>1. \A r \in Requests : task[r] # "scheduled"
    BY <1>5, QueuedAlone DEF CommandFree, WriterIdle
  <2> QED
    BY <1>5, <2>1, NothingQueued
<1>6. ASSUME NEW work \in Kinds, InvokeCli(work)
      PROVE  QueuedPlanHolds'
  <2>1. process = "cli" /\ task' = [task EXCEPT ![Cli] = "calling"]
    BY <1>6 DEF InvokeCli, CommandFree
  <2>2. \A r \in Requests : task'[r] # "scheduled"
    BY <2>1, Constants DEF RequestInv, TypeOK, Callers
  <2> QED
    BY <2>2, NothingQueued
<1>7. ASSUME NEW c \in Callers, LoopStep(c) \/ Answer(c)
      PROVE  QueuedPlanHolds'
  <2>1. /\ task[c] \in InCall \union {"returned", "raised"}
        /\ \E t \in AfterCallStep \union {"none"} : task' = [task EXCEPT ![c] = t]
    BY <1>7 DEF LoopStep, Answer, FinishTask, FailTask, StartExpertCall, RefuseCall, ReuseStage,
                AcceptOutput, RefuseOutput, RejectOutput, StartSimulation, ReceiveReply,
                FailExpertCall, ReportSimulation, FailSimulation, Awaiting, InCall, AfterCallStep
  <2>2. \A r \in Requests : task[r] # "scheduled"
    BY <2>1, QueuedAlone
  <2>3. \A r \in Requests : task'[r] # "scheduled"
    BY <2>1, <2>2 DEF TypeOK, Callers, AfterCallStep
  <2> QED
    BY <2>3, NothingQueued
<1>8. ASSUME UNCHANGED <<kind, active, status, model, ceiling, spent, pending, uncertain,
                         calls, callLimit, budget, expert, task>>
      PROVE  QueuedPlanHolds'
  BY <1>8, QueuedKept
<1>9. CASE Person
  <2>1. CASE AbandonExpertCall \/ ReconcileSpend \/ Revise
    BY <1>5, <2>1 DEF AbandonExpertCall, ReconcileSpend, Revise
  <2>2. CASE \E q \in Recoverers : BeginRecovery(q)
    BY <1>8, <2>2 DEF BeginRecovery
  <2>3. CASE \/ \E newModel \in Models, limit \in Ceilings \union {NoCeiling}, enabled \in BOOLEAN :
                   ConfigureProvider(newModel, limit, enabled)
             \/ \E added \in 0..NewWarnings, newStatus \in Statuses : ApproveReview(added, newStatus)
             \/ \E added \in 0..NewWarnings : Propose(added)
    BY <1>5, <2>3 DEF ConfigureProvider, SettingsAdmissible, ApproveReview, Propose
  <2> QED
    BY <1>3, <1>4, <1>6, <1>9, <2>1, <2>2, <2>3 DEF Person
<1>10. ASSUME NEW q \in Recoverers, FinishRecovery(q)
       PROVE  QueuedPlanHolds'
  <2>1. active # Nobody /\ task' = task
    BY <1>10 DEF FinishRecovery, CallInv, SpendInv
  <2>2. \A r \in Requests : task[r] # "scheduled"
    BY <2>1 DEF QueuedPlanHolds, RequestInv
  <2> QED
    BY <2>1, <2>2, NothingQueued
<1>11. ASSUME \/ \E q \in Recoverers : FailRecovery(q)
              \/ \E price \in 1..Reserve : LateBill(price)
              \/ UNCHANGED vars
       PROVE  QueuedPlanHolds'
  BY <1>8, <1>11 DEF FailRecovery, LateBill, vars
<1> QED
  BY <1>1, <1>2, <1>4, <1>7, <1>9, <1>10, <1>11 DEF Next

\* A settled request is left alone by every step.
LEMMA SettledStays ==
  ASSUME TypeOK, RequestInv, [Next]_vars, NEW r \in Requests, phase[r] \in SettledPhases
  PROVE  phase'[r] = phase[r] /\ kind'[r] = kind[r] /\ (active' = r => active = r)
<1> DEFINE Goal == phase'[r] = phase[r] /\ kind'[r] = kind[r] /\ (active' = r => active = r)
<1> USE DEF requestVars, sessionVars, taskVars
<1>1. phase[r] \notin OpenPhases \union {"absent"} /\ r # Nobody /\ r \in Callers
  BY Constants DEF SettledPhases, OpenPhases, Callers
<1>2. task[r] \notin InCall \union {"returned", "raised", "scheduled"}
  BY <1>1 DEF RequestInv, InCall, OpenPhases
<1>3. ASSUME UNCHANGED <<phase, kind>>, active' \in {active, Nobody}
      PROVE  Goal
  BY <1>1, <1>3
<1>4. CASE StartProcess
  <2>1. /\ UNCHANGED <<kind, active>>
        /\ phase'[r] \in {phase[r], Reconciled(phase[r])}
    BY <1>4 DEF StartProcess, StartWithoutProvider, StartWithProvider, Start
  <2> QED
    BY <2>1, ReconciledPhases
<1>5. ASSUME NEW s \in Requests, NEW work \in Kinds, Submit(s, work)
      PROVE  Goal
  <2>1. /\ phase' = [phase EXCEPT ![s] = "queued"] /\ kind' = [kind EXCEPT ![s] = work]
        /\ phase[s] = "absent" /\ UNCHANGED active
    BY <1>5 DEF Submit
  <2> QED
    BY <1>1, <2>1 DEF TypeOK
<1>6. ASSUME NEW s \in Requests,
             CancelOrphan(s) \/ CancelQueued(s) \/ CancelActive(s) \/ BeginTask(s)
             \/ EndCancelledTask(s)
      PROVE  Goal
  <2>1. /\ UNCHANGED <<active, kind>>
        /\ \/ \E outcome \in SettledPhases : Finish(s, outcome)
           \/ /\ phase[s] \in OpenPhases
              /\ \E p \in OpenPhases : phase' = [phase EXCEPT ![s] = p]
    BY <1>6 DEF CancelOrphan, CancelQueued, CancelActive, BeginTask, EndCancelledTask,
                SettledPhases, OpenPhases
  <2>2. phase'[r] = phase[r]
    BY <1>1, <2>1, FinishOnlyOpen DEF TypeOK
  <2> QED
    BY <2>1, <2>2
<1>7. ASSUME NEW c \in Callers, FinishTask(c) \/ FailTask(c)
      PROVE  Goal
  <2>1. /\ UNCHANGED <<active, kind>>
        /\ \/ UNCHANGED phase
           \/ c \in Requests /\ \E outcome \in SettledPhases : Finish(c, outcome)
    BY <1>7 DEF FinishTask, FailTask, FailurePhase, SettledPhases, Callers
  <2>2. phase'[r] = phase[r]
    BY <2>1, FinishOnlyOpen
  <2> QED
    BY <2>1, <2>2
<1>8. ASSUME NEW c \in Callers, LoopStep(c) \/ Answer(c)
      PROVE  Goal
  <2>1. \/ FinishTask(c) \/ FailTask(c)
        \/ UNCHANGED <<phase, kind>> /\ active' \in {active, Nobody}
        \/ UNCHANGED <<phase, kind>> /\ task[c] = "calling" /\ active' = c
    BY <1>8 DEF LoopStep, Answer, StartExpertCall, RefuseCall, ReuseStage, AcceptOutput,
                RefuseOutput, RejectOutput, StartSimulation, ReceiveReply, FailExpertCall,
                ReportSimulation, FailSimulation, NothingActive
  <2> QED
    BY <1>2, <1>3, <1>7, <2>1 DEF InCall
<1>9. CASE Person
  <2>1. \/ UNCHANGED <<phase, kind>> /\ active' \in {active, Nobody}
        \/ \E s \in Requests, work \in Kinds : Submit(s, work)
        \/ \E s \in Requests : CancelOrphan(s) \/ CancelQueued(s) \/ CancelActive(s)
    BY <1>9 DEF Person, InvokeCli, AbandonExpertCall, NothingActive, BeginRecovery,
                 ReconcileSpend, ConfigureProvider, ApproveReview, Propose, Revise
  <2> QED
    BY <2>1, <1>3, <1>5, <1>6
<1>10. ASSUME \/ Stop
              \/ \E q \in Recoverers : FinishRecovery(q) \/ FailRecovery(q)
              \/ \E price \in 1..Reserve : LateBill(price)
              \/ UNCHANGED vars
       PROVE  Goal
  BY <1>3, <1>10 DEF Stop, FinishRecovery, FailRecovery, NothingActive, LateBill, vars
<1> QED
  BY <1>4, <1>6, <1>8, <1>9, <1>10 DEF Next

-----------------------------------------------------------------------------
(* Theorems *)

\* Types, spend record and calls in progress hold in every reachable state.
LEMMA WorkspaceInductive == Spec => []WorkspaceInv
<1>1. Init => WorkspaceInv
  BY WorkspaceInit
<1>2. WorkspaceInv /\ [Next]_vars => WorkspaceInv'
  BY TypeStep, SpendStep, CallStep DEF WorkspaceInv
<1> QED
  BY <1>1, <1>2, PTL DEF Spec

\* Every variable keeps its type, and every counter its bound, for every instance.
THEOREM WorkspaceTypes == Spec => []TypeOK
<1>1. WorkspaceInv => TypeOK
  BY DEF WorkspaceInv
<1> QED
  BY <1>1, WorkspaceInductive, PTL

\* The recorded spend covers what was billed and what may still be billed, whatever
\* replies are lost and whenever processes stop and restart.
THEOREM WorkspaceSpendCoversBills == Spec => []SpendCoversBills
<1>1. WorkspaceInv => SpendCoversBills
  BY DEF WorkspaceInv, SpendInv
<1> QED
  BY <1>1, WorkspaceInductive, PTL

\* The recorded spend stays within the limit that a person selected.
THEOREM WorkspaceSpendWithinCeiling == Spec => []SpendWithinCeiling
<1>1. WorkspaceInv => SpendWithinCeiling
  BY DEF WorkspaceInv, SpendInv
<1> QED
  BY <1>1, WorkspaceInductive, PTL

\* A lost priced reply is remembered by the session until a person reconciles it.
THEOREM WorkspaceRemembersLostReply == Spec => []LostReplyIsRemembered
<1>1. WorkspaceInv => LostReplyIsRemembered
  BY DEF WorkspaceInv, SpendInv
<1> QED
  BY <1>1, WorkspaceInductive, PTL

\* The session's spend record implements the abstract ledger: each of its steps is
\* one of the ledger's, or leaves the ledger as it is.
THEOREM WorkspaceImplementsLedger == Spec => LedgerSpec
<1>1. Init => Ledger!Init
  BY DEF Init, Ledger!Init, NoCeiling, Ledger!NoCeiling
<1>2. WorkspaceInv /\ [Next]_vars => [Ledger!Next]_(Ledger!ledgerVars)
  BY LedgerSimulation
<1> QED
  BY <1>1, <1>2, WorkspaceInductive, PTL DEF Spec, LedgerSpec, Ledger!Spec

\* Only the answer of its own call, or an abandonment by another writer, ends the
\* active operation; no step replaces it.
LEMMA ActiveEnds ==
  ASSUME WorkspaceInv, [Next]_vars, active # Nobody
  PROVE  /\ active' \in {active, Nobody}
         /\ active' = Nobody /\ owned => task[active] \in {"awaiting", "replied"}
<1> DEFINE Goal == /\ active' \in {active, Nobody}
                   /\ active' = Nobody /\ owned => task[active] \in {"awaiting", "replied"}
<1> USE DEF vars, requestVars, sessionVars, settingVars, spendVars, processVars, taskVars, historyVars
<1>1. ASSUME UNCHANGED active PROVE Goal
  BY <1>1
<1>2. ASSUME StartProcess \/ Stop PROVE Goal
  BY <1>2, <1>1 DEF StartProcess, StartWithoutProvider, StartWithProvider, Start, Stop
<1>3. CASE AbandonExpertCall
  BY <1>3 DEF AbandonExpertCall, Abandonable, NothingActive
<1>4. ASSUME NEW r \in Requests, NEW work \in Kinds,
             Submit(r, work) \/ InvokeCli(work) \/ CancelOrphan(r) \/ CancelQueued(r) \/ CancelActive(r)
             \/ BeginTask(r) \/ EndCancelledTask(r)
      PROVE  Goal
  BY <1>4, <1>1 DEF Submit, InvokeCli, CancelOrphan, CancelQueued, CancelActive, BeginTask, EndCancelledTask
<1>5. ASSUME Person PROVE Goal
  <2>1. ASSUME ReconcileSpend \/ Revise \/ \E added \in 0..NewWarnings : Propose(added)
        PROVE  Goal
    BY <2>1, <1>1 DEF ReconcileSpend, Revise, Propose
  <2>2. ASSUME NEW newModel \in Models, NEW limit \in Ceilings \union {NoCeiling}, NEW enabled \in BOOLEAN,
               ConfigureProvider(newModel, limit, enabled)
        PROVE  Goal
    BY <2>2, <1>1 DEF ConfigureProvider
  <2>3. ASSUME NEW added \in 0..NewWarnings, NEW newStatus \in Statuses, ApproveReview(added, newStatus) PROVE Goal
    BY <2>3, <1>1 DEF ApproveReview
  <2>4. ASSUME NEW q \in Recoverers, BeginRecovery(q) PROVE Goal
    BY <2>4, <1>1 DEF BeginRecovery
  <2>5. ASSUME NEW work \in Kinds, InvokeCli(work) PROVE Goal
    BY <2>5, <1>1 DEF InvokeCli
  <2> QED
    BY <1>5, <1>3, <1>4, <2>1, <2>2, <2>3, <2>4, <2>5 DEF Person, Kinds
<1>6. ASSUME NEW c \in Callers, LoopStep(c) PROVE Goal
  <2>1. ASSUME FinishTask(c) \/ FailTask(c) \/ RefuseCall(c) \/ RefuseOutput(c)
               \/ \E newStatus \in Statuses : ReuseStage(c, newStatus)
        PROVE  Goal
    BY <2>1, <1>1 DEF FinishTask, FailTask, RefuseCall, RefuseOutput, ReuseStage
  <2>2. ~StartExpertCall(c) /\ ~StartSimulation(c)
    BY DEF StartExpertCall, ExpertCallReady, StartSimulation, SimulationReady
  <2>3. ASSUME task[c] = "replied", NothingActive PROVE Goal
    BY <2>3 DEF NothingActive, WorkspaceInv, CallInv
  <2>4. ASSUME NEW added \in 0..NewWarnings, NEW newStatus \in Statuses, AcceptOutput(c, added, newStatus)
        PROVE  Goal
    BY <2>4, <2>3 DEF AcceptOutput
  <2>5. ASSUME NEW retry \in BOOLEAN, RejectOutput(c, retry) PROVE Goal
    BY <2>5, <2>3 DEF RejectOutput
  <2> QED
    BY <1>6, <2>1, <2>2, <2>4, <2>5 DEF LoopStep
<1>7. ASSUME NEW c \in Callers, Answer(c) PROVE Goal
  <2>1. ASSUME NEW unused \in 0..pending, ReceiveReply(c, unused) PROVE Goal
    BY <2>1, <1>1 DEF ReceiveReply
  <2>2. ASSUME FailSimulation(c) PROVE Goal
    BY <2>2, <1>1 DEF FailSimulation
  <2>3. ASSUME FailExpertCall(c) \/ ReportSimulation(c) PROVE Goal
    BY <2>3 DEF FailExpertCall, ReportSimulation, Awaiting, NothingActive
  <2> QED
    BY <1>7, <2>1, <2>2, <2>3 DEF Answer
<1>8. ASSUME NEW q \in Recoverers, FinishRecovery(q) \/ FailRecovery(q) PROVE Goal
  BY <1>8 DEF FinishRecovery, FailRecovery, NothingActive, WorkspaceInv, CallInv
<1>9. ASSUME NEW price \in 1..Reserve, LateBill(price) PROVE Goal
  BY <1>9, <1>1 DEF LateBill
<1>10. ASSUME NEW r \in Requests, BeginTask(r) \/ EndCancelledTask(r) PROVE Goal
  BY <1>10, <1>1 DEF BeginTask, EndCancelledTask
<1>11. CASE UNCHANGED vars
  BY <1>11
<1> QED
  BY <1>2, <1>5, <1>6, <1>7, <1>8, <1>9, <1>10, <1>11 DEF Next

\* The active operation is never replaced, and the writer that started it never
\* abandons it: only the answer of its own call ends it.
THEOREM WorkspaceActiveEndsWithItsCall == Spec => ActiveEndsWithItsCall
<1>1. ASSUME WorkspaceInv, [Next]_vars, active # Nobody
      PROVE  /\ active' \in {active, Nobody}
             /\ active' = Nobody /\ owned => task[active] \in {"awaiting", "replied"}
  BY <1>1, ActiveEnds
<1> QED
  BY <1>1, WorkspaceInductive, PTL DEF Spec, ActiveEndsWithItsCall

\* Calls are counted within the limit in force and none starts while the cost of a
\* lost reply is unknown; the limit only narrows.
LEMMA CallsGated ==
  ASSUME WorkspaceInv, [Next]_vars
  PROVE  /\ calls' >= calls
         /\ callLimit' <= callLimit
         /\ calls' > calls => ~lost /\ calls' <= callLimit' /\ calls' <= budget
<1> DEFINE Goal == /\ calls' >= calls
                   /\ callLimit' <= callLimit
                   /\ calls' > calls => ~lost /\ calls' <= callLimit' /\ calls' <= budget
<1> USE DEF vars, requestVars, sessionVars, settingVars, spendVars, processVars, taskVars, historyVars
<1>1. calls \in Nat /\ callLimit \in Nat /\ budget \in Nat
  BY Constants DEF WorkspaceInv, TypeOK
<1>2. /\ CallAllowance \in Nat
      /\ CallAllowance <= callLimit
      /\ CallAllowance <= budget
  BY AllowanceBounds, Constants DEF WorkspaceInv
<1>3. ASSUME UNCHANGED <<calls, callLimit>> PROVE Goal
  BY <1>1, <1>3
<1>4. ASSUME NEW c \in Callers, StartExpertCall(c) PROVE Goal
  <2>1. calls' = calls + 1 /\ callLimit' = CallAllowance /\ calls < CallAllowance
    BY <1>4 DEF StartExpertCall, ExpertCallReady
  <2>2. ~lost
    BY <1>4 DEF StartExpertCall, ExpertCallReady, ProviderReady, WorkspaceInv, SpendInv, LostReplyIsRemembered
  <2> QED
    BY <1>1, <1>2, <2>1, <2>2
<1>5. ASSUME NEW c \in Callers, RefuseCall(c) PROVE Goal
  <2>1. calls' = calls /\ callLimit' \in {callLimit, CallAllowance}
    BY <1>5 DEF RefuseCall
  <2> QED
    BY <1>1, <1>2, <2>1
<1>6. ASSUME StartProcess \/ Stop PROVE Goal
  BY <1>6, <1>3 DEF StartProcess, StartWithoutProvider, StartWithProvider, Start, Stop
<1>7. ASSUME Person PROVE Goal
  <2>1. ASSUME NEW r \in Requests, NEW work \in Kinds,
               Submit(r, work) \/ CancelOrphan(r) \/ CancelQueued(r) \/ CancelActive(r)
        PROVE  Goal
    BY <2>1, <1>3 DEF Submit, CancelOrphan, CancelQueued, CancelActive
  <2>2. ASSUME AbandonExpertCall \/ ReconcileSpend \/ Revise \/ \E added \in 0..NewWarnings : Propose(added)
        PROVE  Goal
    BY <2>2, <1>3 DEF AbandonExpertCall, ReconcileSpend, Revise, Propose
  <2>3. ASSUME NEW newModel \in Models, NEW limit \in Ceilings \union {NoCeiling}, NEW enabled \in BOOLEAN,
               ConfigureProvider(newModel, limit, enabled)
        PROVE  Goal
    BY <2>3, <1>3 DEF ConfigureProvider
  <2>4. ASSUME NEW added \in 0..NewWarnings, NEW newStatus \in Statuses, ApproveReview(added, newStatus) PROVE Goal
    BY <2>4, <1>3 DEF ApproveReview
  <2>5. ASSUME NEW q \in Recoverers, BeginRecovery(q) PROVE Goal
    BY <2>5, <1>3 DEF BeginRecovery
  <2>6. ASSUME NEW work \in Kinds, InvokeCli(work) PROVE Goal
    BY <2>6, <1>3 DEF InvokeCli
  <2> QED
    BY <1>7, <2>1, <2>2, <2>3, <2>4, <2>5, <2>6 DEF Person, Kinds
<1>8. ASSUME NEW c \in Callers, LoopStep(c) PROVE Goal
  <2>1. ASSUME FinishTask(c) \/ FailTask(c) \/ RefuseOutput(c) \/ StartSimulation(c)
               \/ \E newStatus \in Statuses : ReuseStage(c, newStatus)
        PROVE  Goal
    BY <2>1, <1>3 DEF FinishTask, FailTask, RefuseOutput, StartSimulation, ReuseStage
  <2>2. ASSUME NEW added \in 0..NewWarnings, NEW newStatus \in Statuses, AcceptOutput(c, added, newStatus)
        PROVE  Goal
    BY <2>2, <1>3 DEF AcceptOutput
  <2>3. ASSUME NEW retry \in BOOLEAN, RejectOutput(c, retry) PROVE Goal
    BY <2>3, <1>3 DEF RejectOutput
  <2> QED
    BY <1>4, <1>5, <1>8, <2>1, <2>2, <2>3 DEF LoopStep
<1>9. ASSUME NEW c \in Callers, Answer(c) PROVE Goal
  <2>1. ASSUME NEW unused \in 0..pending, ReceiveReply(c, unused) PROVE Goal
    BY <2>1, <1>3 DEF ReceiveReply
  <2>2. ASSUME FailExpertCall(c) \/ ReportSimulation(c) \/ FailSimulation(c) PROVE Goal
    BY <2>2, <1>3 DEF FailExpertCall, ReportSimulation, FailSimulation
  <2> QED
    BY <1>9, <2>1, <2>2 DEF Answer
<1>10. ASSUME NEW q \in Recoverers, FinishRecovery(q) \/ FailRecovery(q) PROVE Goal
  BY <1>10, <1>3 DEF FinishRecovery, FailRecovery
<1>11. ASSUME NEW price \in 1..Reserve, LateBill(price) PROVE Goal
  BY <1>11, <1>3 DEF LateBill
<1>12. ASSUME NEW r \in Requests, BeginTask(r) \/ EndCancelledTask(r) PROVE Goal
  BY <1>12, <1>3 DEF BeginTask, EndCancelledTask
<1>13. ASSUME UNCHANGED vars PROVE Goal
  BY <1>13, <1>3
<1> QED
  BY <1>6, <1>7, <1>8, <1>9, <1>10, <1>11, <1>12, <1>13 DEF Next

\* No provider work starts while a lost reply is unaccounted for, nor beyond the
\* call limit in force.
THEOREM WorkspaceCallsAreGated == Spec => CallsAreGated
<1>1. WorkspaceInv /\ [Next]_vars =>
        /\ calls' >= calls
        /\ callLimit' <= callLimit
        /\ calls' > calls => ~lost /\ calls' <= callLimit' /\ calls' <= budget
  BY CallsGated
<1> QED
  BY <1>1, WorkspaceInductive, PTL DEF Spec, CallsAreGated

\* The requests, with what the two parts above say of them.
RequestsInv == RequestInv /\ OutcomeInv /\ QueuedPlanHolds

LEMMA RequestsInductive == Spec => []RequestsInv
<1>1. Init => RequestsInv
  BY Constants DEF Init, RequestsInv, RequestInv, OutcomeInv, QueuedPlanHolds, OpenPhases, Callers
<1>2. WorkspaceInv /\ RequestsInv /\ [Next]_vars => RequestsInv'
  BY RequestStep, OutcomeStep, QueuedStep DEF WorkspaceInv, RequestsInv
<1> QED
  BY <1>1, <1>2, WorkspaceInductive, PTL DEF Spec

\* A call in progress is the saved active operation and the only one, for any
\* number of requests (_writer_idle, _idle).
THEOREM WorkspaceOneRunningCall == Spec => []OneRunningCall
<1>1. WorkspaceInv /\ RequestsInv => OneRunningCall
  <2> SUFFICES ASSUME WorkspaceInv, RequestsInv, NEW c \in Callers,
                      task[c] \in {"awaiting", "replied"}
               PROVE  /\ active = c /\ owned
                      /\ c = Cli \/ OpenRequests = {c}
                      /\ \A d \in Callers \ {c} :
                           task[d] \notin {"awaiting", "calling"} \union LoopSteps
    BY DEF OneRunningCall
  <2>1. active = c /\ owned
    BY DEF WorkspaceInv, CallInv
  <2>2. \A r \in Requests :
           task[r] \in {"awaiting", "calling"} \union LoopSteps => phase[r] \in OpenPhases
    BY DEF RequestsInv, RequestInv, LoopSteps, OpenPhases
  <2>3. \A r, s \in Requests : phase[r] \in OpenPhases /\ phase[s] \in OpenPhases => r = s
    BY DEF RequestsInv, RequestInv
  <2>4. c # Cli => task[Cli] = "none"
    BY DEF RequestsInv, RequestInv, Callers
  <2>5. c = Cli => \A r \in Requests : task[r] = "none"
    BY DEF RequestsInv, RequestInv
  <2>6. c = Cli \/ OpenRequests = {c}
    BY <2>2, <2>3 DEF OpenRequests, Callers, LoopSteps
  <2>7. ASSUME NEW d \in Callers \ {c}
        PROVE  task[d] \notin {"awaiting", "calling"} \union LoopSteps
    BY <2>2, <2>3, <2>4, <2>5, <2>7 DEF Callers, LoopSteps
  <2> QED
    BY <2>1, <2>6, <2>7
<1> QED
  BY <1>1, WorkspaceInductive, RequestsInductive, PTL

\* What is recorded as cancelled was never sent, and what is recorded as completed
\* is over and was (reconcile_interrupted, request_cancellation).
THEOREM WorkspaceOutcomesAreTruthful == Spec => []OutcomesAreTruthful
<1>1. RequestsInv => OutcomesAreTruthful
  BY DEF RequestsInv, OutcomeInv, OutcomesAreTruthful
<1> QED
  BY <1>1, RequestsInductive, PTL

\* A queued request begins in the state it was reviewed in.
THEOREM WorkspaceQueuedPlanHolds == Spec => []QueuedPlanHolds
<1>1. RequestsInv => QueuedPlanHolds
  BY DEF RequestsInv
<1> QED
  BY <1>1, RequestsInductive, PTL

\* A settled request is final (_finish, submit_discussion).
THEOREM WorkspaceSettledIsFinal == Spec => SettledIsFinal
<1>1. WorkspaceInv /\ RequestsInv /\ [Next]_vars =>
        \A r \in Requests : phase[r] \in SettledPhases =>
          /\ phase'[r] = phase[r]
          /\ kind'[r] = kind[r]
          /\ active' = r => active = r
  BY SettledStays DEF WorkspaceInv, RequestsInv
<1> QED
  BY <1>1, WorkspaceInductive, RequestsInductive, PTL DEF Spec, SettledIsFinal
===============================================================================
