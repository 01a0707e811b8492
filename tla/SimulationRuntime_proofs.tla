----------------------- MODULE SimulationRuntime_proofs -----------------------
(***************************************************************************)
(* For every set of operations, profiles and guests: the types hold, an    *)
(* interrupted self-test keeps its selection, a session simulates only     *)
(* what was tested, design code runs only where its inputs are seen, what  *)
(* is adopted is complete, and what is settled is clean.                   *)
(***************************************************************************)
EXTENDS SimulationRuntime, TLAPS

\* Why a selection cannot change under a self-test: a command that holds the lock
\* works on a receipt of the selected profile, and only one that is not settled
\* is unsafe to leave.
SelectionInv ==
    /\ writer # "free" =>
         /\ receipt # None /\ receipt.profile = selection
         /\ receipt.status \in {"not-started"} \union Unsettled
    /\ UnsettledKeepsSelection

\* Nothing has been done for the operation, by anyone.
Untouched(o) ==
    /\ o \notin intents \union probed \union guestCopy \union abandoned
    /\ evidence[o] = "none" /\ cleaning[o] = "no"
    /\ \A n \in Names : container[o][n] = "none"
    /\ \A command \in Commands : <<o, command>> \notin late

\* Why operations are not confused: the one the session has active, the one whose
\* report it holds and the one of the receipt differ, and only one that has not
\* begun can become any of them.
RolesInv ==
    /\ \A o \in Operations : phase[o] = "new" => Untouched(o)
    /\ \A o \in Operations : active = o =>
         phase[o] # "new" /\ adopted # o /\ ~Testing(o) /\ o \notin abandoned
    /\ \A o \in Operations : adopted = o =>
         phase[o] = "done" /\ evidence[o] # "none" /\ ~Testing(o) /\ o \notin abandoned
    /\ \A o \in Operations : Testing(o) =>
         /\ (receipt.status = "not-started") <=> (phase[o] = "new")
         /\ receipt.status = "passed" => phase[o] = "done" /\ evidence[o] # "none"
         /\ receipt.status # "recovered" => o \notin abandoned

\* Why only the tested is simulated: what the receipt, the session and its active
\* operation name was tested when they began to name it, or is of version 1 and
\* was named with the local daemon.
TestedInv ==
    /\ receipt # None /\ receipt.status = "passed" =>
         <<receipt.profile, receipt.transport>> \in tested
    /\ SimulatesOnlyTested

\* Why design code runs only where its inputs are seen: no command about the
\* design's container, now or late, precedes the probe, and what needs no probe
\* runs on the local daemon.
SeesInv ==
    \A o \in Operations :
        /\ run[o] # None /\ run[o].profile \notin Profiles => run[o].transport = HostLocal
        /\ run[o] # None /\ run[o].transport = HostLocal => run[o].sees
        /\ o \in probed => run[o].sees
        /\ phase[o] \in {"create", "start"} => run[o].sees
        /\ container[o]["design"] # "none" => run[o].sees
        /\ <<o, "create">> \in late \/ <<o, "start">> \in late => run[o].sees

\* Why a report means that all is gone: a lost command leads away from the report,
\* and every command on the way to it leaves what the next one needs.
BeforeProbe == {"begun", "inspect", "copy", "probeCreate", "probeStart"}
BeforeReport == BeforeProbe \union {"probeRemove", "create", "start"}
Hopeless(o) ==
    \/ phase[o] \in {"raised", "dead"}
    \/ phase[o] = "probeRemove" /\ o \notin probed
    \/ phase[o] \in {"remove", "release"} /\ evidence[o] = "none"
PathInv ==
    \A o \in Operations :
        /\ phase[o] \in BeforeProbe => o \notin probed
        /\ phase[o] \in BeforeReport => evidence[o] = "none"
        /\ phase[o] = "done" => evidence[o] # "none" /\ o \notin guestCopy
        /\ \A command \in Commands :
             <<o, command>> \in late => Hopeless(o)
        /\ phase[o] \notin {"probeStart", "probeRemove"} =>
             Hopeless(o) \/ container[o]["probe"] = "none"
        /\ phase[o] \in (BeforeReport \ {"start"}) \union {"release", "done"} =>
             Hopeless(o) \/ container[o]["design"] = "none"
        /\ phase[o] # "new" /\ ~UsesGuest(o) =>
             /\ phase[o] \notin {"copy", "probeCreate", "probeStart", "probeRemove", "release"}
             /\ o \notin guestCopy /\ container[o]["probe"] = "none"
             /\ \A command \in Commands :
                  <<o, command>> \in late => command \in {"create", "start", "remove"}

\* The container of a name is not running and cannot be made to run any more; it
\* is there only if a late command brought it back.
StartOf(n) == IF n = "probe" THEN "probeStart" ELSE "start"
CreateOf(n) == IF n = "probe" THEN "probeCreate" ELSE "create"
Gone(o, n) ==
    /\ container[o][n] # "running"
    /\ container[o][n] = "created" => <<o, StartOf(n)>> \notin late
    /\ o \in straggled \/ container[o][n] = "none"

\* Why a lost start has nothing left to start: no creation is outstanding with it.
CreatesInv ==
    \A o \in Operations, n \in Names :
        <<o, CreateOf(n)>> \in late =>
            phase[o] \in {"raised", "dead"} /\ <<o, StartOf(n)>> \notin late

\* Why a settled operation stays clean: only an unresolved one is recovered, when
\* its client is gone, and a recovery ends after it has removed both containers.
SettledAt(o) ==
    /\ ~Unresolved(o) =>
         /\ phase[o] \notin InFlight /\ cleaning[o] = "no"
         /\ \A n \in Names : Gone(o, n)
         /\ o \in straggled \/ o \notin guestCopy
    /\ active = o /\ cleaning[o] # "no" => phase[o] = "dead"
    /\ Testing(o) /\ cleaning[o] # "no" => writer = "recovering"
    /\ Testing(o) /\ writer # "testing" => phase[o] \notin InFlight
    /\ cleaning[o] = "design" => Gone(o, "probe")
    /\ cleaning[o] = "release" => \A n \in Names : Gone(o, n)
SettledInv == \A o \in Operations : SettledAt(o)

RuntimeInv ==
    /\ TypeOK /\ SelectionInv /\ RolesInv /\ TestedInv
    /\ SeesInv /\ PathInv /\ CreatesInv /\ SettledInv

-----------------------------------------------------------------------------
(* Helpers *)

\* What a command does to the containers: nothing outside the name it is about,
\* and to that one what its kind says.
LEMMA CommandEffect ==
  ASSUME TypeOK, NEW o \in Operations, NEW command \in Commands, CarryOut(o, command)
  PROVE  /\ container' \in [Operations -> [Names -> {"none", "created", "running", "exited"}]]
         /\ \A x \in Operations, n \in Names :
              x # o \/ n # NameOf(command) => container'[x][n] = container[x][n]
         /\ NameOf(command) \in Names
         /\ command \in Removes => container'[o][NameOf(command)] = "none"
         /\ command \in Creates =>
              container'[o][NameOf(command)] =
                IF container[o][NameOf(command)] = "none" THEN "created"
                                                          ELSE container[o][NameOf(command)]
         /\ command \in Starts =>
              container'[o][NameOf(command)] =
                IF container[o][NameOf(command)] = "created" THEN "running"
                                                             ELSE container[o][NameOf(command)]
         /\ command \in {"inspect", "copy", "release"} =>
              container'[o][NameOf(command)] = container[o][NameOf(command)]
<1>1. NameOf(command) \in Names
  BY DEF NameOf, Names
<1>2. container \in [Operations -> [Names -> {"none", "created", "running", "exited"}]]
  BY DEF TypeOK
<1> DEFINE n == NameOf(command)
           old == container[o][n]
           state == CASE command \in Creates /\ old = "none"   -> "created"
                      [] command \in Starts /\ old = "created" -> "running"
                      [] command \in Removes                   -> "none"
                      [] OTHER                                 -> old
<1>3. container' = [container EXCEPT ![o][n] = state]
  BY DEF CarryOut, ContainerAfter
<1>4. state \in {"none", "created", "running", "exited"}
  BY <1>1, <1>2
<1>5. container'[o][n] = state
  BY <1>1, <1>2, <1>3
<1>6. /\ \A x \in Operations, m \in Names : x # o \/ m # n => container'[x][m] = container[x][m]
      /\ container' \in [Operations -> [Names -> {"none", "created", "running", "exited"}]]
  <2> HIDE DEF state, n
  <2> QED
    BY <1>1, <1>2, <1>3, <1>4
<1> QED
  BY <1>1, <1>5, <1>6 DEF Removes, Creates, Starts

\* A lost command belongs to its own operation and was the last one asked.
LEMMA PendingCommands ==
  ASSUME NEW o \in Operations
  PROVE  \A x \in Operations, command \in Commands :
           <<x, command>> \in Pending(o) =>
             /\ x = o /\ command = phase[o] /\ phase[o] # "inspect"
             /\ command \in Starts => container[o][NameOf(command)] = "created"
BY DEF Pending, Commands, Starts

\* What is pending is a command of the operation.
LEMMA PendingType ==
  ASSUME NEW o \in Operations
  PROVE  Pending(o) \subseteq Operations \X Commands
BY DEF Pending

\* The next phase is a phase.
LEMMA NextPhases ==
  ASSUME NEW o \in Operations, phase[o] \in Commands
  PROVE  /\ AfterFailure(o) \in Phases
         /\ phase[o] \notin Starts => Following(o) \in Phases
BY DEF AfterFailure, Following, AfterInspect, AfterProbe, Finished, Phases, InFlight, Commands, Starts

-----------------------------------------------------------------------------
(* Types *)

\* The empty state has the right types.
LEMMA TypeInit == ASSUME Init PROVE TypeOK
BY DEF Init, TypeOK, Phases

\* Beginning an operation keeps the types of what belongs to operations.
LEMMA BeginRunTypes ==
  ASSUME TypeOK, NEW o \in Operations, NEW p \in Written, NEW t \in Transports, BeginRun(o, p, t)
  PROVE  /\ run' \in [Operations -> Runs \union {None}]
         /\ phase' \in [Operations -> Phases]
         /\ \A x \in Operations : (run'[x] = None) <=> (phase'[x] = "new")
<1>1. PICK sees \in BOOLEAN :
        run' = [run EXCEPT ![o] = [profile |-> p, transport |-> t, sees |-> sees]]
  BY DEF BeginRun
<1>2. /\ [profile |-> p, transport |-> t, sees |-> sees] \in Runs
      /\ [profile |-> p, transport |-> t, sees |-> sees] # None
  BY DistinctMarks DEF Runs
<1>3. "begun" \in Phases
  BY DEF Phases, InFlight
<1> QED
  BY <1>1, <1>2, <1>3 DEF TypeOK, BeginRun

\* The end of a process keeps the types.
LEMMA OrphanTypes ==
  ASSUME TypeOK, NEW o \in Operations, Orphan(o)
  PROVE  /\ phase' \in [Operations -> Phases]
         /\ late' \subseteq Operations \X Commands
         /\ cleaning' \in [Operations -> {"no", "probe", "design", "release"}]
         /\ \A x \in Operations : (run'[x] = None) <=> (phase'[x] = "new")
<1>1. "dead" \in Phases
  BY DEF Phases
<1> QED
  BY <1>1, PendingType DEF TypeOK, Orphan

\* Every step keeps the types.
LEMMA TypeStep ==
  ASSUME TypeOK, SelectionInv, [Next]_vars
  PROVE  TypeOK'
<1> USE DEF vars, runtimeVars, sessionVars, runVars, daemonVars, historyVars
<1>1. ASSUME NEW p \in Profiles, Select(p)
      PROVE  TypeOK'
  BY <1>1 DEF TypeOK, Select
<1>2. ASSUME NEW o \in Operations, NEW t \in Transports, BeginSelfTest(o, t)
      PROVE  TypeOK'
  <2>1. receipt' \in Receipts
    BY <1>2 DEF TypeOK, BeginSelfTest, Receipts, Statuses
  <2> QED
    BY <1>2, <2>1 DEF TypeOK, BeginSelfTest
<1>3. ASSUME NEW o \in Operations, StartSelfTest(o)
      PROVE  TypeOK'
  <2>1. receipt \in Receipts /\ receipt.profile \in Profiles /\ receipt.transport \in Transports
    BY <1>3 DEF TypeOK, StartSelfTest, Testing, Receipts
  <2>2. receipt' \in Receipts
    BY <1>3, <2>1 DEF StartSelfTest, Receipts, Statuses, Unsettled
  <2>3. UNCHANGED <<intents, probed, evidence>>
    BY <1>3 DEF StartSelfTest, BeginRun
  <2> QED
    BY <1>3, <2>1, <2>2, <2>3, BeginRunTypes DEF TypeOK, StartSelfTest, Written
<1>4. ASSUME NEW o \in Operations, PassSelfTest(o) \/ FailSelfTest(o)
      PROVE  TypeOK'
  <2>1. PICK status \in {"passed", "needs-recovery"} : EndSelfTest(o, status)
    BY <1>4 DEF PassSelfTest, FailSelfTest
  <2>2. receipt \in Receipts /\ <<receipt.profile, receipt.transport>> \in Profiles \X Transports
    BY <2>1 DEF TypeOK, EndSelfTest, Testing, Receipts
  <2>3. receipt' \in Receipts
    BY <2>1, <2>2 DEF EndSelfTest, Receipts, Statuses, Unsettled
  <2>4. tested' \subseteq Profiles \X Transports
    BY <1>4, <2>2 DEF PassSelfTest, FailSelfTest, TypeOK
  <2> QED
    BY <2>1, <2>3, <2>4 DEF TypeOK, EndSelfTest
<1>5. CASE RefuseSelfTest
  BY <1>5 DEF TypeOK, RefuseSelfTest
<1>6. ASSUME NEW t \in Transports, BeginRecovery(t)
      PROVE  TypeOK'
  BY <1>6 DEF TypeOK, BeginRecovery, BeginCleaning
<1>7. CASE StopRuntimeCommand
  <2>1. receipt.operation \in Operations /\ Orphan(receipt.operation)
    BY <1>7 DEF StopRuntimeCommand, TypeOK, SelectionInv, Receipts
  <2>2. /\ phase' \in [Operations -> Phases]
        /\ late' \subseteq Operations \X Commands
        /\ cleaning' \in [Operations -> {"no", "probe", "design", "release"}]
        /\ \A x \in Operations : (run'[x] = None) <=> (phase'[x] = "new")
    BY <2>1, OrphanTypes
  <2>3. UNCHANGED <<run, intents, probed, evidence, container, guestCopy>>
    BY <2>1 DEF Orphan
  <2> QED
    BY <1>7, <2>2, <2>3 DEF TypeOK, StopRuntimeCommand
<1>8. ASSUME NEW t \in Transports, OpenDesign(t)
      PROVE  TypeOK'
  BY <1>8 DEF TypeOK, OpenDesign, Open, Ready, Bindings, Written
<1>8a. ASSUME NEW p \in Written, OpenExplicit(p)
       PROVE  TypeOK'
  BY <1>8a DEF TypeOK, OpenExplicit, Open, Bindings, Transports
<1>9. ASSUME NEW o \in Operations, Simulate(o)
      PROVE  TypeOK'
  <2>1. design.profile \in Written /\ design.transport \in Transports
    BY <1>9 DEF TypeOK, Simulate, Bindings
  <2>2. UNCHANGED <<intents, probed, evidence>>
    BY <1>9 DEF Simulate, BeginRun
  <2> QED
    BY <1>9, <2>1, <2>2, BeginRunTypes DEF TypeOK, Simulate
<1>10. ASSUME NEW o \in Operations, AcceptReport(o)
       PROVE  TypeOK'
  BY <1>10 DEF TypeOK, AcceptReport
<1>11. CASE BeginAbandon
  BY <1>11 DEF TypeOK, BeginAbandon, BeginCleaning
<1>12. CASE StopDesign
  <2>1. CASE active = None
    BY <1>12, <2>1 DEF TypeOK, StopDesign
  <2>2. CASE active # None
    <3>1. active \in Operations /\ Orphan(active)
      BY <1>12, <2>2 DEF StopDesign, TypeOK
    <3> QED
      BY <1>12, <3>1, OrphanTypes DEF TypeOK, StopDesign, Orphan
  <2> QED
    BY <2>1, <2>2
<1>13. ASSUME NEW o \in Operations, WriteIntent(o) \/ FailStaging(o)
       PROVE  TypeOK'
  <2>1. {FirstCommand(o), "raised"} \subseteq Phases \ {"new"}
    BY DEF FirstCommand, Phases, InFlight, Commands
  <2> QED
    BY <1>13, <2>1 DEF TypeOK, WriteIntent, FailStaging, Advance
<1>14. ASSUME NEW o \in Operations, Complete(o)
       PROVE  TypeOK'
  <2>1. /\ phase[o] \in Commands \ Starts /\ CarryOut(o, phase[o])
        /\ phase' = [phase EXCEPT ![o] = Following(o)]
        /\ UNCHANGED <<runtimeVars, sessionVars, run, intents, probed, evidence, cleaning, late,
                       historyVars>>
    BY <1>14 DEF Complete, Advance
  <2>2. Following(o) \in Phases \ {"new"}
    BY <2>1 DEF Following, AfterInspect, AfterProbe, Finished, Phases, InFlight, Commands, Starts
  <2>3. phase[o] # "new"
    BY <2>1 DEF Commands
  <2>4. guestCopy' \subseteq Operations
    BY <2>1 DEF CarryOut, GuestAfter, TypeOK
  <2> QED
    BY <2>1, <2>2, <2>3, <2>4, CommandEffect DEF TypeOK
<1>15. ASSUME NEW o \in Operations, ReceiveProbe(o) \/ ReceiveResults(o)
       PROVE  TypeOK'
  <2>1. {"probeRemove", "remove"} \subseteq Phases
    BY DEF Phases, InFlight, Commands
  <2>2. CASE ReceiveProbe(o)
    BY <2>1, <2>2 DEF TypeOK, ReceiveProbe, Advance
  <2>3. CASE ReceiveResults(o)
    BY <2>1, <2>3 DEF TypeOK, ReceiveResults, Advance
  <2> QED
    BY <1>15, <2>2, <2>3
<1>16. ASSUME NEW o \in Operations, LoseCommand(o)
       PROVE  TypeOK'
  <2>1. AfterFailure(o) \in Phases \ {"new"}
    BY <1>16 DEF LoseCommand, AfterFailure, Phases, InFlight, Commands
  <2>2. phase[o] # "new"
    BY <1>16 DEF LoseCommand, Commands
  <2> QED
    BY <1>16, <2>1, <2>2, PendingType DEF TypeOK, LoseCommand, Advance
<1>17. ASSUME NEW o \in Operations, CleanContainer(o)
       PROVE  TypeOK'
  BY <1>17 DEF TypeOK, CleanContainer, RemoveListed, Names
<1>18. ASSUME NEW o \in Operations, FailCleaning(o)
       PROVE  TypeOK'
  BY <1>18 DEF TypeOK, FailCleaning
<1>19. ASSUME NEW o \in Operations, Recover(o)
       PROVE  TypeOK'
  <2>1. receipt \in Receipts /\ receipt' \in Receipts
    BY <1>19 DEF TypeOK, Recover, Testing, Receipts, Statuses
  <2> QED
    BY <1>19, <2>1 DEF TypeOK, Recover, EndCleaning
<1>20. ASSUME NEW o \in Operations, Abandon(o)
       PROVE  TypeOK'
  BY <1>20 DEF TypeOK, Abandon, EndCleaning
<1>21. ASSUME NEW o \in Operations, DaemonStarts(o)
       PROVE  TypeOK'
  <2>1. phase[o] \in Commands /\ CarryOut(o, phase[o])
    BY <1>21 DEF DaemonStarts, Starts, Commands
  <2>2. guestCopy' \subseteq Operations
    BY <2>1 DEF CarryOut, GuestAfter, TypeOK
  <2> QED
    BY <1>21, <2>1, <2>2, CommandEffect DEF TypeOK, DaemonStarts
<1>22. ASSUME NEW o \in Operations, NEW n \in Names, ContainerExits(o, n)
       PROVE  TypeOK'
  BY <1>22 DEF TypeOK, ContainerExits
<1>23. ASSUME NEW o \in Operations, NEW command \in Commands, CarryOutLate(o, command)
       PROVE  TypeOK'
  <2>1. CarryOut(o, command) /\ guestCopy' \subseteq Operations
    BY <1>23 DEF CarryOutLate, CarryOut, GuestAfter, TypeOK
  <2> QED
    BY <1>23, <2>1, CommandEffect DEF TypeOK, CarryOutLate
<1>24. CASE UNCHANGED vars
  BY <1>24 DEF TypeOK
<1> QED
  BY <1>1, <1>2, <1>3, <1>4, <1>5, <1>6, <1>7, <1>8, <1>8a, <1>9, <1>10, <1>11, <1>12, <1>13, <1>14,
     <1>15, <1>16, <1>17, <1>18, <1>19, <1>20, <1>21, <1>22, <1>23, <1>24
     DEF Next, RuntimeCommand, SessionStep, ClientStep, RecoveryStep, DaemonStep

-----------------------------------------------------------------------------
(* The selection *)

\* Only the commands under the lock, and the end of a recovery, change what the
\* runtime keeps.
LEMMA ElsewhereRuntime ==
  ASSUME [Next]_vars
  PROVE  \/ UNCHANGED runtimeVars
         \/ RuntimeCommand
         \/ \E o \in Operations : FailCleaning(o) \/ Recover(o)
<1> USE DEF vars, runtimeVars
<1>1. CASE SessionStep
  BY <1>1 DEF SessionStep, OpenDesign, OpenExplicit, Open, Simulate, AcceptReport, BeginAbandon, StopDesign
<1>2. ASSUME NEW o \in Operations, ClientStep(o)
      PROVE  UNCHANGED runtimeVars
  BY <1>2 DEF ClientStep, WriteIntent, FailStaging, Complete, ReceiveProbe, ReceiveResults, LoseCommand
<1>3. ASSUME NEW o \in Operations, CleanContainer(o) \/ Abandon(o)
      PROVE  UNCHANGED runtimeVars
  BY <1>3 DEF CleanContainer, Abandon, EndCleaning
<1>4. ASSUME NEW o \in Operations, DaemonStep(o)
      PROVE  UNCHANGED runtimeVars
  BY <1>4 DEF DaemonStep, DaemonStarts, ContainerExits, CarryOutLate
<1> QED
  BY <1>1, <1>2, <1>3, <1>4 DEF Next, RecoveryStep

\* Every step keeps an unsettled self-test and the selection together.
LEMMA SelectionStep ==
  ASSUME TypeOK, SelectionInv, [Next]_vars
  PROVE  SelectionInv'
<1> USE DEF SelectionInv, UnsettledKeepsSelection, Unsettled
<1>1. CASE UNCHANGED runtimeVars
  BY <1>1 DEF runtimeVars
<1>2. ASSUME NEW p \in Profiles, Select(p)
      PROVE  SelectionInv'
  BY <1>2 DEF Select, NoActiveReceipt
<1>3. ASSUME NEW o \in Operations, NEW t \in Transports, BeginSelfTest(o, t)
      PROVE  SelectionInv'
  <2>1. receipt' \in Receipts /\ receipt' # None
    BY <1>3, DistinctMarks DEF BeginSelfTest, TypeOK, Receipts, Statuses
  <2> QED
    BY <1>3, <2>1 DEF BeginSelfTest
<1>4. ASSUME NEW o \in Operations, StartSelfTest(o)
      PROVE  SelectionInv'
  <2>1. receipt \in Receipts
    BY <1>4 DEF StartSelfTest, Testing, TypeOK
  <2>2. receipt' \in Receipts /\ receipt' # None
    BY <1>4, <2>1, DistinctMarks DEF StartSelfTest, Receipts, Statuses
  <2> QED
    BY <1>4, <2>1, <2>2 DEF StartSelfTest, Receipts
<1>5. ASSUME NEW o \in Operations, PassSelfTest(o) \/ FailSelfTest(o)
      PROVE  SelectionInv'
  <2>1. receipt \in Receipts /\ receipt.status \in Unsettled
    BY <1>5 DEF PassSelfTest, FailSelfTest, EndSelfTest, Testing, TypeOK
  <2> QED
    BY <1>5, <2>1 DEF PassSelfTest, FailSelfTest, EndSelfTest, Receipts
<1>6. CASE RefuseSelfTest
  BY <1>6 DEF RefuseSelfTest
<1>7. ASSUME NEW t \in Transports, BeginRecovery(t)
      PROVE  SelectionInv'
  BY <1>7 DEF BeginRecovery, NoActiveReceipt
<1>8. CASE StopRuntimeCommand
  BY <1>8 DEF StopRuntimeCommand
<1>9. ASSUME NEW o \in Operations, FailCleaning(o)
      PROVE  SelectionInv'
  BY <1>9 DEF FailCleaning
<1>10. ASSUME NEW o \in Operations, Recover(o)
       PROVE  SelectionInv'
  <2>1. receipt \in Receipts
    BY <1>10 DEF Recover, Testing, TypeOK
  <2> QED
    BY <1>10, <2>1 DEF Recover, EndCleaning, Receipts
<1> QED
  BY ElsewhereRuntime, <1>1, <1>2, <1>3, <1>4, <1>5, <1>6, <1>7, <1>8, <1>9, <1>10
     DEF RuntimeCommand

-----------------------------------------------------------------------------
(* Which operation is which *)

\* Every step keeps the roles of the operations apart.
LEMMA RolesStep ==
  ASSUME TypeOK, SelectionInv, RolesInv, PathInv, [Next]_vars
  PROVE  RolesInv'
<1> USE DEF vars, runtimeVars, sessionVars, runVars, daemonVars, historyVars, RolesInv, Untouched, Testing
<1>1. ASSUME NEW p \in Profiles, Select(p)
      PROVE  RolesInv'
  BY <1>1 DEF Select
<1>2. ASSUME NEW o \in Operations, NEW t \in Transports, BeginSelfTest(o, t)
      PROVE  RolesInv'
  BY <1>2, DistinctMarks DEF TypeOK, BeginSelfTest
<1>3. ASSUME NEW o \in Operations, StartSelfTest(o)
      PROVE  RolesInv'
  <2>1. receipt \in Receipts /\ receipt'.status = "running" /\ receipt'.operation = o
    BY <1>3 DEF StartSelfTest, TypeOK, Receipts
  <2> QED
    BY <1>3, <2>1 DEF TypeOK, StartSelfTest, BeginRun
<1>4. ASSUME NEW o \in Operations, PassSelfTest(o) \/ FailSelfTest(o)
      PROVE  RolesInv'
  <2>1. receipt \in Receipts /\ receipt'.operation = receipt.operation
    BY <1>4 DEF PassSelfTest, FailSelfTest, EndSelfTest, TypeOK, Receipts
  <2>2. CASE PassSelfTest(o)
    BY <2>1, <2>2 DEF PassSelfTest, EndSelfTest, Receipts
  <2>3. CASE FailSelfTest(o)
    BY <2>1, <2>3 DEF FailSelfTest, EndSelfTest, Receipts
  <2> QED
    BY <1>4, <2>2, <2>3
<1>5. CASE RefuseSelfTest
  BY <1>5 DEF RefuseSelfTest
<1>6. ASSUME NEW t \in Transports, BeginRecovery(t)
      PROVE  RolesInv'
  <2>1. receipt.operation \in Operations /\ phase[receipt.operation] # "new"
    BY <1>6 DEF BeginRecovery, NoActiveReceipt, Unsettled, TypeOK, Receipts
  <2> QED
    BY <1>6, <2>1 DEF BeginRecovery, BeginCleaning, TypeOK
<1>7. CASE StopRuntimeCommand
  <2>1. receipt.operation \in Operations /\ receipt # None
    BY <1>7 DEF StopRuntimeCommand, SelectionInv, TypeOK, Receipts
  <2>2. receipt.status # "passed"
    BY <1>7 DEF StopRuntimeCommand, SelectionInv, Unsettled
  <2>3. /\ \A x \in Operations :
             phase'[x] = IF x = receipt.operation /\ phase[x] # "new" THEN "dead" ELSE phase[x]
        /\ \A x \in Operations : cleaning'[x] = "no" \/ cleaning'[x] = cleaning[x]
        /\ UNCHANGED <<intents, probed, evidence, container, guestCopy, active, adopted,
                       receipt, abandoned>>
    BY <1>7, <2>1 DEF StopRuntimeCommand, Orphan, TypeOK
  <2>4. \A x \in Operations, command \in Commands :
          <<x, command>> \in late' => <<x, command>> \in late \/ phase[x] # "new"
    <3>1. late' = late \union Pending(receipt.operation)
      BY <1>7 DEF StopRuntimeCommand, Orphan
    <3> QED
      BY <2>1, <3>1, PendingCommands DEF Commands
  <2> QED
    BY <2>1, <2>2, <2>3, <2>4
<1>8. ASSUME NEW t \in Transports, OpenDesign(t)
      PROVE  RolesInv'
  BY <1>8 DEF OpenDesign, Open
<1>8a. ASSUME NEW p \in Written, OpenExplicit(p)
       PROVE  RolesInv'
  BY <1>8a DEF OpenExplicit, Open
<1>9. ASSUME NEW o \in Operations, Simulate(o)
      PROVE  RolesInv'
  <2>1. /\ active' = o /\ phase[o] = "new" /\ phase' = [phase EXCEPT ![o] = "begun"]
        /\ UNCHANGED <<receipt, adopted, intents, probed, evidence, cleaning, container,
                       guestCopy, late, abandoned>>
    BY <1>9 DEF Simulate, BeginRun
  <2>2. receipt = None \/ receipt.operation # o
    BY <1>9 DEF Simulate
  <2> QED
    BY <2>1, <2>2 DEF TypeOK
<1>10. ASSUME NEW o \in Operations, AcceptReport(o)
       PROVE  RolesInv'
  <2>1. evidence[o] # "none"
    BY <1>10 DEF AcceptReport, PathInv
  <2> QED
    BY <1>10, <2>1, DistinctMarks DEF TypeOK, AcceptReport
<1>11. CASE BeginAbandon
  BY <1>11 DEF TypeOK, BeginAbandon, Abandonable, AbandonableByAnyone, BeginCleaning
<1>12. CASE StopDesign
  <2>1. CASE active = None
    BY <1>12, <2>1 DEF StopDesign
  <2>2. CASE active # None
    BY <1>12, <2>2, PendingCommands DEF TypeOK, StopDesign, Orphan
  <2> QED
    BY <2>1, <2>2
<1>13. ASSUME NEW o \in Operations, WriteIntent(o) \/ FailStaging(o)
       PROVE  RolesInv'
  <2>1. FirstCommand(o) \notin {"new", "done"}
    BY DEF FirstCommand
  <2> QED
    BY <1>13, <2>1 DEF TypeOK, WriteIntent, FailStaging, Advance
<1>14. ASSUME NEW o \in Operations, Complete(o)
       PROVE  RolesInv'
  <2>1. Following(o) # "new" /\ phase[o] \notin {"new", "done"} /\ phase[o] \in Commands
    BY <1>14 DEF Complete, Following, AfterInspect, AfterProbe, Finished, Commands, Starts
  <2>2. \A x \in Operations : x # o => x \in guestCopy' <=> x \in guestCopy
    BY <1>14 DEF Complete, CarryOut, GuestAfter
  <2> QED
    BY <1>14, <2>1, <2>2, CommandEffect DEF TypeOK, Complete, Advance
<1>15. ASSUME NEW o \in Operations, ReceiveProbe(o) \/ ReceiveResults(o)
       PROVE  RolesInv'
  BY <1>15 DEF TypeOK, ReceiveProbe, ReceiveResults, Advance
<1>16. ASSUME NEW o \in Operations, LoseCommand(o)
       PROVE  RolesInv'
  <2>1. AfterFailure(o) # "new" /\ phase[o] \notin {"new", "done"}
    BY <1>16 DEF LoseCommand, AfterFailure, Commands
  <2> QED
    BY <1>16, <2>1, PendingCommands DEF TypeOK, LoseCommand, Advance
<1>17. ASSUME NEW o \in Operations, CleanContainer(o)
       PROVE  RolesInv'
  BY <1>17 DEF TypeOK, CleanContainer, RemoveListed, Names
<1>18. ASSUME NEW o \in Operations, FailCleaning(o)
       PROVE  RolesInv'
  BY <1>18 DEF TypeOK, FailCleaning
<1>19. ASSUME NEW o \in Operations, Recover(o)
       PROVE  RolesInv'
  <2>1. receipt \in Receipts /\ receipt'.operation = o /\ receipt'.status = "recovered"
    BY <1>19 DEF TypeOK, Recover, Receipts
  <2>2. cleaning[o] # "no"
    BY <1>19 DEF Recover, EndCleaning
  <2> QED
    BY <1>19, <2>1, <2>2 DEF TypeOK, Recover, EndCleaning
<1>20. ASSUME NEW o \in Operations, Abandon(o)
       PROVE  RolesInv'
  BY <1>20, DistinctMarks DEF TypeOK, Abandon, EndCleaning
<1>21. ASSUME NEW o \in Operations, DaemonStarts(o)
       PROVE  RolesInv'
  <2>1. phase[o] \in Commands /\ phase[o] \in Starts /\ phase[o] # "new"
    BY <1>21 DEF DaemonStarts, Starts, Commands
  <2>2. guestCopy' = guestCopy
    BY <1>21 DEF DaemonStarts, CarryOut, GuestAfter, Starts
  <2>3. CarryOut(o, phase[o])
    BY <1>21 DEF DaemonStarts
  <2>4. \A x \in Operations, n \in Names : x # o => container'[x][n] = container[x][n]
    BY <2>1, <2>3, CommandEffect
  <2>5. UNCHANGED <<receipt, active, adopted, intents, phase, probed, evidence, cleaning, late,
                    abandoned>>
    BY <1>21 DEF DaemonStarts
  <2> QED
    BY <2>1, <2>2, <2>4, <2>5
<1>22. ASSUME NEW o \in Operations, NEW n \in Names, ContainerExits(o, n)
       PROVE  RolesInv'
  BY <1>22 DEF TypeOK, ContainerExits
<1>23. ASSUME NEW o \in Operations, NEW command \in Commands, CarryOutLate(o, command)
       PROVE  RolesInv'
  <2>1. \A x \in Operations : x # o => x \in guestCopy' <=> x \in guestCopy
    BY <1>23 DEF CarryOutLate, CarryOut, GuestAfter
  <2> QED
    BY <1>23, <2>1, CommandEffect DEF TypeOK, CarryOutLate
<1>24. CASE UNCHANGED vars
  BY <1>24
<1> QED
  BY <1>1, <1>2, <1>3, <1>4, <1>5, <1>6, <1>7, <1>8, <1>8a, <1>9, <1>10, <1>11, <1>12, <1>13, <1>14,
     <1>15, <1>16, <1>17, <1>18, <1>19, <1>20, <1>21, <1>22, <1>23, <1>24
     DEF Next, RuntimeCommand, SessionStep, ClientStep, RecoveryStep, DaemonStep

-----------------------------------------------------------------------------
(* What is simulated was tested, or needs no test *)

\* Every step keeps what is named tested.
LEMMA TestedStep ==
  ASSUME TypeOK, RolesInv, TestedInv, [Next]_vars
  PROVE  TestedInv'
<1> USE DEF vars, runtimeVars, sessionVars, runVars, daemonVars, historyVars, TestedInv, SimulatesOnlyTested,
        Qualified
<1>1. CASE UNCHANGED <<receipt, design, active, run, tested>>
  BY <1>1
<1>2. ASSUME NEW o \in Operations, NEW t \in Transports, BeginSelfTest(o, t)
      PROVE  TestedInv'
  BY <1>2 DEF BeginSelfTest
<1>3. ASSUME NEW o \in Operations, StartSelfTest(o)
      PROVE  TestedInv'
  <2>1. receipt'.status = "running"
    BY <1>3 DEF StartSelfTest, Testing, TypeOK, Receipts
  <2>2. UNCHANGED <<design, active, tested>>
    BY <1>3 DEF StartSelfTest
  <2>3. active # None => run'[active] = run[active]
    <3>1. active \in Operations => active # o
      BY <1>3 DEF StartSelfTest, RolesInv
    <3> QED
      BY <1>3, <3>1 DEF StartSelfTest, BeginRun, TypeOK
  <2> QED
    BY <2>1, <2>2, <2>3
<1>4. ASSUME NEW o \in Operations, PassSelfTest(o)
      PROVE  TestedInv'
  BY <1>4 DEF PassSelfTest, EndSelfTest, Testing, TypeOK, Receipts
<1>5. ASSUME NEW o \in Operations, FailSelfTest(o)
      PROVE  TestedInv'
  <2>1. receipt'.status = "needs-recovery"
    BY <1>5 DEF FailSelfTest, EndSelfTest, Testing, TypeOK, Receipts
  <2> QED
    BY <1>5, <2>1 DEF FailSelfTest, EndSelfTest
<1>6. ASSUME NEW t \in Transports, OpenDesign(t)
      PROVE  TestedInv'
  BY <1>6 DEF OpenDesign, Open, Ready, TypeOK, Receipts
<1>6a. ASSUME NEW p \in Written, OpenExplicit(p)
       PROVE  TestedInv'
  BY <1>6a DEF OpenExplicit, Open
<1>7. ASSUME NEW o \in Operations, Simulate(o)
      PROVE  TestedInv'
  <2>1. run'[o].profile = design.profile /\ run'[o].transport = design.transport
    BY <1>7 DEF Simulate, BeginRun, TypeOK
  <2> QED
    BY <1>7, <2>1 DEF Simulate
<1>8. ASSUME NEW o \in Operations, AcceptReport(o)
      PROVE  TestedInv'
  BY <1>8 DEF AcceptReport
<1>9. CASE StopDesign
  <2>1. UNCHANGED <<receipt, active, run, tested>> /\ design' = None
    BY <1>9 DEF StopDesign, Orphan
  <2> QED
    BY <2>1
<1>10. ASSUME NEW o \in Operations, Recover(o)
       PROVE  TestedInv'
  <2>1. receipt'.status = "recovered"
    BY <1>10 DEF Recover, Testing, TypeOK, Receipts
  <2> QED
    BY <1>10, <2>1 DEF Recover, EndCleaning
<1>11. ASSUME NEW o \in Operations, Abandon(o)
       PROVE  TestedInv'
  BY <1>11 DEF Abandon, EndCleaning
<1>12. \/ \E p \in Profiles : Select(p)
       \/ RefuseSelfTest \/ StopRuntimeCommand \/ BeginAbandon
       \/ \E t \in Transports : BeginRecovery(t)
       \/ \E o \in Operations : ClientStep(o) \/ CleanContainer(o) \/ FailCleaning(o) \/ DaemonStep(o)
       => TestedInv'
  BY <1>1 DEF Select, RefuseSelfTest, StopRuntimeCommand, Orphan, BeginAbandon, BeginRecovery,
     ClientStep, WriteIntent, FailStaging, Complete, ReceiveProbe, ReceiveResults, LoseCommand,
     CleanContainer, FailCleaning, DaemonStep, DaemonStarts, ContainerExits, CarryOutLate
<1> QED
  BY <1>1, <1>2, <1>3, <1>4, <1>5, <1>6, <1>6a, <1>7, <1>8, <1>9, <1>10, <1>11, <1>12
     DEF Next, RuntimeCommand, SessionStep, RecoveryStep

-----------------------------------------------------------------------------
(* The progress of operations *)

\* A step begins an operation, ends a process, is one of an operation's client, of
\* its recovery or of the daemon, or leaves the operations as they are.
LEMMA StepKinds ==
  ASSUME TypeOK, SelectionInv, TestedInv, [Next]_vars
  PROVE  \/ UNCHANGED <<run, phase, probed, evidence, container, late>> /\ guestCopy' \subseteq guestCopy
         \/ \E o \in Operations, p \in Written, t \in Transports :
              /\ BeginRun(o, p, t) /\ UNCHANGED daemonVars
              /\ p \notin Profiles => t = HostLocal
         \/ \E o \in Operations : Orphan(o)
         \/ \E o \in Operations : ClientStep(o) \/ CleanContainer(o) \/ DaemonStep(o)
<1> USE DEF vars, runtimeVars, sessionVars, runVars, daemonVars, historyVars
<1>1. ASSUME NEW o \in Operations, StartSelfTest(o)
      PROVE  \E p \in Written, t \in Transports :
               /\ BeginRun(o, p, t) /\ UNCHANGED daemonVars
               /\ p \notin Profiles => t = HostLocal
  <2>1. receipt.profile \in Profiles /\ receipt.transport \in Transports
    BY <1>1 DEF StartSelfTest, Testing, TypeOK, Receipts
  <2> QED
    BY <1>1, <2>1 DEF StartSelfTest, Written
<1>2. ASSUME NEW o \in Operations, Simulate(o)
      PROVE  \E p \in Written, t \in Transports :
               /\ BeginRun(o, p, t) /\ UNCHANGED daemonVars
               /\ p \notin Profiles => t = HostLocal
  <2>1. /\ design.profile \in Written /\ design.transport \in Transports
        /\ design.profile \notin Profiles => design.transport = HostLocal
    BY <1>2 DEF Simulate, TypeOK, Bindings, TestedInv, SimulatesOnlyTested, Qualified
  <2> QED
    BY <1>2, <2>1 DEF Simulate
<1>3. CASE StopRuntimeCommand
  <2>1. receipt.operation \in Operations
    BY <1>3 DEF StopRuntimeCommand, SelectionInv, TypeOK, Receipts
  <2> QED
    BY <1>3, <2>1 DEF StopRuntimeCommand
<1>4. CASE StopDesign
  BY <1>4 DEF StopDesign, TypeOK
<1>5. CASE \/ \E p \in Profiles : Select(p)
           \/ \E o \in Operations, t \in Transports : BeginSelfTest(o, t)
           \/ \E o \in Operations : PassSelfTest(o) \/ FailSelfTest(o)
           \/ RefuseSelfTest
           \/ \E t \in Transports : BeginRecovery(t) \/ OpenDesign(t)
           \/ \E p \in Written : OpenExplicit(p)
           \/ \E o \in Operations : AcceptReport(o)
           \/ BeginAbandon
           \/ \E o \in Operations : FailCleaning(o) \/ Recover(o) \/ Abandon(o)
           \/ UNCHANGED vars
  BY <1>5 DEF Select, BeginSelfTest, PassSelfTest, FailSelfTest, EndSelfTest, RefuseSelfTest,
     BeginRecovery, OpenDesign, OpenExplicit, Open, AcceptReport, BeginAbandon, FailCleaning, Recover, Abandon, EndCleaning
<1> QED
  BY <1>1, <1>2, <1>3, <1>4, <1>5 DEF Next, RuntimeCommand, SessionStep, RecoveryStep

\* The end of a process kills the client of one operation and leaves its last
\* command with the daemon.
LEMMA OrphanEffect ==
  ASSUME TypeOK, NEW o \in Operations, Orphan(o)
  PROVE  /\ \A x \in Operations :
              phase'[x] = IF x = o /\ phase[x] # "new" THEN "dead" ELSE phase[x]
         /\ \A x \in Operations, command \in Commands : <<x, command>> \in late' =>
              \/ <<x, command>> \in late
              \/ /\ x = o /\ command = phase[o] /\ phase[o] # "inspect"
                 /\ command \in Starts => container[o][NameOf(command)] = "created"
         /\ UNCHANGED <<run, intents, probed, evidence, container, guestCopy>>
BY PendingCommands DEF Orphan, TypeOK

\* So does a lost command, and its client goes on to clean up or gives up.
LEMMA LossEffect ==
  ASSUME TypeOK, NEW o \in Operations, LoseCommand(o)
  PROVE  /\ \A x \in Operations : phase'[x] = IF x = o THEN AfterFailure(o) ELSE phase[x]
         /\ \A x \in Operations, command \in Commands : <<x, command>> \in late' =>
              \/ <<x, command>> \in late
              \/ /\ x = o /\ command = phase[o] /\ phase[o] # "inspect"
                 /\ command \in Starts => container[o][NameOf(command)] = "created"
         /\ UNCHANGED <<run, intents, probed, evidence, container, guestCopy>>
BY PendingCommands DEF LoseCommand, Advance, TypeOK

\* Design code stays behind the probe.
LEMMA SeesStep ==
  ASSUME TypeOK, SelectionInv, RolesInv, TestedInv, SeesInv, [Next]_vars
  PROVE  SeesInv'
<1> USE DEF vars, runtimeVars, sessionVars, runVars, daemonVars, historyVars, SeesInv
<1>1. CASE UNCHANGED <<run, phase, probed, evidence, container, late>>
  BY <1>1
<1>2. ASSUME NEW o \in Operations, NEW p \in Written, NEW t \in Transports,
             BeginRun(o, p, t), UNCHANGED daemonVars, p \notin Profiles => t = HostLocal
      PROVE  SeesInv'
  <2>1. /\ phase[o] = "new" /\ Untouched(o) /\ phase' = [phase EXCEPT ![o] = "begun"]
        /\ UNCHANGED <<probed, container, late>>
        /\ \A x \in Operations : x # o => run'[x] = run[x]
        /\ run'[o].transport = HostLocal => run'[o].sees
        /\ run'[o].profile \notin Profiles => run'[o].transport = HostLocal
    BY <1>2 DEF BeginRun, RolesInv, TypeOK
  <2>2. \A x \in Operations : run'[x] # None /\ run'[x].profile \notin Profiles =>
          run'[x].transport = HostLocal
    BY <2>1
  <2> QED
    BY <2>1, <2>2 DEF Untouched, TypeOK, Names, Commands
<1>3. ASSUME NEW o \in Operations, Orphan(o)
      PROVE  SeesInv'
  <2>1. /\ UNCHANGED <<run, probed, container>>
        /\ \A x \in Operations : phase'[x] \in {phase[x], "dead"}
    BY <1>3, OrphanEffect
  <2>2. \A x \in Operations, command \in {"create", "start"} :
          <<x, command>> \in late' => <<x, command>> \in late \/ phase[x] = command
    BY <1>3, OrphanEffect DEF Commands
  <2> QED
    BY <2>1, <2>2
<1>4. ASSUME NEW o \in Operations, WriteIntent(o) \/ FailStaging(o)
      PROVE  SeesInv'
  <2>1. FirstCommand(o) = "create" => run[o].sees
    BY <1>4 DEF FirstCommand, WriteIntent, FailStaging, TypeOK
  <2>2. FirstCommand(o) \in {"inspect", "create"}
    BY DEF FirstCommand
  <2> QED
    BY <1>4, <2>1, <2>2 DEF WriteIntent, FailStaging, Advance, TypeOK
<1>5. ASSUME NEW o \in Operations, Complete(o)
      PROVE  SeesInv'
  <2>1. /\ phase[o] \in Commands \ Starts /\ CarryOut(o, phase[o])
        /\ phase' = [phase EXCEPT ![o] = Following(o)]
        /\ UNCHANGED <<run, probed, late>>
    BY <1>5 DEF Complete, Advance
  <2>2. Following(o) = "create" => run[o].sees
    <3>1. phase[o] = "inspect" /\ Following(o) = "create" => run[o].transport = HostLocal /\ run[o] # None
      BY <2>1 DEF Following, AfterInspect, UsesGuest, TypeOK
    <3>2. phase[o] = "probeRemove" /\ Following(o) = "create" => o \in probed
      BY DEF Following, AfterProbe
    <3>3. Following(o) = "create" => phase[o] \in {"inspect", "probeRemove"}
      BY <2>1 DEF Following, AfterInspect, AfterProbe, Finished, Commands, Starts
    <3> QED
      BY <3>1, <3>2, <3>3
  <2>3. Following(o) = "start" => phase[o] = "create"
    BY <2>1 DEF Following, AfterInspect, AfterProbe, Finished, Commands, Starts
  <2>4. \A x \in Operations : container'[x]["design"] # "none" =>
          container[x]["design"] # "none" \/ (x = o /\ phase[o] = "create")
    BY <2>1, CommandEffect DEF Names, NameOf, Removes, Creates, Starts, Commands
  <2> QED
    BY <2>1, <2>2, <2>3, <2>4 DEF TypeOK
<1>6. ASSUME NEW o \in Operations, ReceiveProbe(o) \/ ReceiveResults(o)
      PROVE  SeesInv'
  <2>1. CASE ReceiveProbe(o)
    BY <2>1 DEF ReceiveProbe, Advance, TypeOK
  <2>2. CASE ReceiveResults(o)
    BY <2>2 DEF ReceiveResults, Advance, TypeOK
  <2> QED
    BY <1>6, <2>1, <2>2
<1>7. ASSUME NEW o \in Operations, LoseCommand(o)
      PROVE  SeesInv'
  <2>1. AfterFailure(o) \notin {"create", "start"}
    BY DEF AfterFailure
  <2>2. /\ \A x \in Operations : phase'[x] \in {"create", "start"} => phase[x] = phase'[x]
        /\ UNCHANGED <<run, probed, container>>
    BY <1>7, <2>1, LossEffect
  <2>3. \A x \in Operations, command \in {"create", "start"} :
          <<x, command>> \in late' => <<x, command>> \in late \/ phase[x] = command
    BY <1>7, LossEffect DEF Commands
  <2> QED
    BY <2>2, <2>3
<1>8. ASSUME NEW o \in Operations, CleanContainer(o)
      PROVE  SeesInv'
  <2>1. \A x \in Operations : container'[x]["design"] # "none" => container[x]["design"] # "none"
    BY <1>8 DEF CleanContainer, RemoveListed, TypeOK, Names
  <2> QED
    BY <1>8, <2>1 DEF CleanContainer
<1>9. ASSUME NEW o \in Operations, DaemonStarts(o)
      PROVE  SeesInv'
  <2>1. phase[o] \in Commands /\ phase[o] \in Starts /\ CarryOut(o, phase[o])
    BY <1>9 DEF DaemonStarts, Starts, Commands
  <2>2. \A x \in Operations : container'[x]["design"] # "none" => container[x]["design"] # "none"
    BY <2>1, CommandEffect DEF Names
  <2> QED
    BY <1>9, <2>2 DEF DaemonStarts
<1>10. ASSUME NEW o \in Operations, NEW n \in Names, ContainerExits(o, n)
       PROVE  SeesInv'
  <2>1. \A x \in Operations : container'[x]["design"] # "none" => container[x]["design"] # "none"
    BY <1>10 DEF ContainerExits, TypeOK, Names
  <2> QED
    BY <1>10, <2>1 DEF ContainerExits
<1>11. ASSUME NEW o \in Operations, NEW command \in Commands, CarryOutLate(o, command)
       PROVE  SeesInv'
  <2>1. <<o, command>> \in late /\ CarryOut(o, command) /\ late' \subseteq late
    BY <1>11 DEF CarryOutLate
  <2>2. \A x \in Operations : container'[x]["design"] # "none" =>
          container[x]["design"] # "none" \/ (x = o /\ command = "create")
    BY <2>1, CommandEffect DEF Names, NameOf, Removes, Creates, Starts, Commands
  <2> QED
    BY <1>11, <2>1, <2>2 DEF CarryOutLate
<1> QED
  BY StepKinds, <1>1, <1>2, <1>3, <1>4, <1>5, <1>6, <1>7, <1>8, <1>9, <1>10, <1>11
     DEF ClientStep, DaemonStep

\* A client that completes a command.
LEMMA CompletionEffect ==
  ASSUME TypeOK, NEW o \in Operations, Complete(o)
  PROVE  /\ phase[o] \in Commands \ Starts /\ CarryOut(o, phase[o])
         /\ \A x \in Operations : phase'[x] = IF x = o THEN Following(o) ELSE phase[x]
         /\ UNCHANGED <<run, probed, evidence, late>>
BY DEF Complete, Advance, TypeOK

\* A command outstanding or asked for belongs to an operation that has begun, and
\* with no guest it is about the design's container.
LEMMA OutstandingCommands ==
  ASSUME RolesInv, PathInv, NEW x \in Operations, NEW command \in Commands,
         <<x, command>> \in late \/ (command = phase[x] /\ phase[x] # "inspect")
  PROVE  /\ phase[x] # "new"
         /\ ~UsesGuest(x) => command \in {"create", "start", "remove"}
<1>1. phase[x] # "new"
  BY DEF RolesInv, Untouched, Commands
<1>2. CASE <<x, command>> \in late
  BY <1>1, <1>2 DEF PathInv
<1>3. CASE command = phase[x] /\ phase[x] # "inspect"
  <2>1. ~UsesGuest(x) =>
          command \notin {"copy", "probeCreate", "probeStart", "probeRemove", "release"}
    BY <1>1, <1>3 DEF PathInv
  <2> QED
    BY <1>1, <1>3, <2>1 DEF Commands
<1> QED
  BY <1>2, <1>3

\* Every step of an operation keeps it on the path that its report tells of.
LEMMA PathStep ==
  ASSUME TypeOK, SelectionInv, RolesInv, TestedInv, PathInv, [Next]_vars
  PROVE  PathInv'
<1> USE DEF daemonVars, runVars, PathInv, Hopeless, BeforeReport, BeforeProbe, UsesGuest
<1>1. CASE UNCHANGED <<run, phase, probed, evidence, container, late>> /\ guestCopy' \subseteq guestCopy
  BY <1>1
<1>2. ASSUME NEW o \in Operations, NEW p \in Written, NEW t \in Transports,
             BeginRun(o, p, t), UNCHANGED daemonVars
      PROVE  PathInv'
  <2>1. /\ phase[o] = "new" /\ Untouched(o) /\ phase' = [phase EXCEPT ![o] = "begun"]
        /\ UNCHANGED <<probed, evidence, container, guestCopy, late>>
        /\ \A x \in Operations : x # o => run'[x] = run[x]
    BY <1>2 DEF BeginRun, RolesInv, TypeOK
  <2> QED
    BY <2>1 DEF Untouched, TypeOK, Names
<1>3. ASSUME NEW o \in Operations, Orphan(o)
      PROVE  PathInv'
  <2>1. /\ \A x \in Operations : phase'[x] = IF x = o /\ phase[x] # "new" THEN "dead" ELSE phase[x]
        /\ UNCHANGED <<run, probed, evidence, container, guestCopy>>
    BY <1>3, OrphanEffect
  <2>2. \A x \in Operations, command \in Commands : <<x, command>> \in late' =>
          <<x, command>> \in late \/ (x = o /\ command = phase[o] /\ phase[o] # "inspect")
    BY <1>3, OrphanEffect
  <2>3. \A x \in Operations, command \in Commands : <<x, command>> \in late' =>
          /\ phase[x] # "new"
          /\ ~UsesGuest(x) => command \in {"create", "start", "remove"}
    BY <2>2, OutstandingCommands
  <2>4. \A x \in Operations, command \in Commands : <<x, command>> \in late' => Hopeless(x)'
    BY <2>1, <2>2, <2>3
  <2> QED
    BY <2>1, <2>3, <2>4
<1>4. ASSUME NEW o \in Operations, WriteIntent(o) \/ FailStaging(o)
      PROVE  PathInv'
  <2>1. /\ phase[o] = "begun"
        /\ UNCHANGED <<run, probed, evidence, container, guestCopy, late>>
        /\ \E next \in {"inspect", "create", "raised"} : phase' = [phase EXCEPT ![o] = next]
    BY <1>4 DEF WriteIntent, FailStaging, FirstCommand, Advance
  <2> QED
    BY <2>1 DEF TypeOK
<1>5. ASSUME NEW o \in Operations, Complete(o)
      PROVE  PathInv'
  <2>1. /\ phase[o] \in Commands \ Starts /\ CarryOut(o, phase[o])
        /\ \A x \in Operations : phase'[x] = IF x = o THEN Following(o) ELSE phase[x]
        /\ UNCHANGED <<run, probed, evidence, late>>
    BY <1>5, CompletionEffect
  <2>2. \A x \in Operations, n \in Names :
          x # o \/ n # NameOf(phase[o]) => container'[x][n] = container[x][n]
    BY <2>1, CommandEffect
  <2>3. \A x \in Operations : x # o => x \in guestCopy' <=> x \in guestCopy
    BY <2>1 DEF CarryOut, GuestAfter
  <2>4. CASE phase[o] = "inspect"
    <3>1. (Following(o) = "copy" /\ UsesGuest(o)) \/ Following(o) = "create"
      BY <2>4 DEF Following, AfterInspect
    <3>2. container'[o]["probe"] = container[o]["probe"] /\ container'[o]["design"] = container[o]["design"]
      BY <2>1, <2>4, CommandEffect DEF NameOf, Names
    <3>3. guestCopy' = guestCopy
      BY <2>1, <2>4 DEF CarryOut, GuestAfter
    <3> QED
      BY <2>1, <2>2, <2>3, <2>4, <3>1, <3>2, <3>3 DEF Names
  <2>5. CASE phase[o] = "copy"
    <3>1. Following(o) = "probeCreate"
      BY <2>5 DEF Following
    <3>2. container'[o]["probe"] = container[o]["probe"] /\ container'[o]["design"] = container[o]["design"]
      BY <2>1, <2>5, CommandEffect DEF NameOf, Names
    <3> QED
      BY <2>1, <2>2, <2>3, <2>5, <3>1, <3>2 DEF Names
  <2>6. CASE phase[o] = "probeCreate"
    <3>1. Following(o) = "probeStart"
      BY <2>6 DEF Following
    <3>2. container'[o]["design"] = container[o]["design"]
      BY <2>1, <2>6, CommandEffect DEF NameOf, Names
    <3> QED
      BY <2>1, <2>2, <2>3, <2>6, <3>1, <3>2 DEF Names
  <2>7. CASE phase[o] = "probeRemove"
    <3>1. Following(o) = IF o \in probed THEN "create" ELSE "raised"
      BY <2>7 DEF Following, AfterProbe
    <3>2. container'[o]["probe"] = "none" /\ container'[o]["design"] = container[o]["design"]
      BY <2>1, <2>7, CommandEffect DEF NameOf, Names, Removes
    <3> QED
      BY <2>1, <2>2, <2>3, <2>7, <3>1, <3>2 DEF Names
  <2>8. CASE phase[o] = "create"
    <3>1. Following(o) = "start"
      BY <2>8 DEF Following
    <3>2. container'[o]["probe"] = container[o]["probe"]
      BY <2>1, <2>8, CommandEffect DEF NameOf, Names
    <3>3. guestCopy' = guestCopy
      BY <2>1, <2>8 DEF CarryOut, GuestAfter
    <3> QED
      BY <2>1, <2>2, <2>3, <2>8, <3>1, <3>2, <3>3 DEF Names
  <2>9. CASE phase[o] = "remove"
    <3>1. Following(o) = IF UsesGuest(o) THEN "release" ELSE Finished(o)
      BY <2>9 DEF Following
    <3>2. Finished(o) = IF evidence[o] = "none" THEN "raised" ELSE "done"
      BY DEF Finished
    <3>3. container'[o]["probe"] = container[o]["probe"] /\ container'[o]["design"] = "none"
      BY <2>1, <2>9, CommandEffect DEF NameOf, Names, Removes
    <3>4. guestCopy' = guestCopy
      BY <2>1, <2>9 DEF CarryOut, GuestAfter
    <3>5. run[o] # None
      BY <2>9 DEF TypeOK
    <3> QED
      BY <2>1, <2>2, <2>3, <2>9, <3>1, <3>2, <3>3, <3>4, <3>5 DEF Names
  <2>10. CASE phase[o] = "release"
    <3>1. Following(o) = IF evidence[o] = "none" THEN "raised" ELSE "done"
      BY <2>10 DEF Following, Finished
    <3>2. container'[o]["probe"] = container[o]["probe"] /\ container'[o]["design"] = container[o]["design"]
      BY <2>1, <2>10, CommandEffect DEF NameOf, Names
    <3>3. guestCopy' = guestCopy \ {o}
      BY <2>1, <2>10 DEF CarryOut, GuestAfter
    <3> QED
      BY <2>1, <2>2, <2>3, <2>10, <3>1, <3>2, <3>3 DEF Names
  <2> QED
    BY <2>1, <2>4, <2>5, <2>6, <2>7, <2>8, <2>9, <2>10 DEF Commands, Starts
<1>6. ASSUME NEW o \in Operations, ReceiveProbe(o)
      PROVE  PathInv'
  <2>1. /\ phase[o] = "probeStart" /\ phase' = [phase EXCEPT ![o] = "probeRemove"]
        /\ \A x \in Operations : x # o => x \in probed' <=> x \in probed
        /\ UNCHANGED <<run, evidence, container, guestCopy, late>>
    BY <1>6 DEF ReceiveProbe, Advance
  <2> QED
    BY <2>1 DEF TypeOK
<1>7. ASSUME NEW o \in Operations, ReceiveResults(o)
      PROVE  PathInv'
  <2>1. /\ phase[o] = "start" /\ phase' = [phase EXCEPT ![o] = "remove"]
        /\ \A x \in Operations : x # o => evidence'[x] = evidence[x]
        /\ UNCHANGED <<run, probed, container, guestCopy, late>>
    BY <1>7 DEF ReceiveResults, Advance, TypeOK
  <2> QED
    BY <2>1 DEF TypeOK
<1>8. ASSUME NEW o \in Operations, LoseCommand(o)
      PROVE  PathInv'
  <2>1. /\ \A x \in Operations : phase'[x] = IF x = o THEN AfterFailure(o) ELSE phase[x]
        /\ UNCHANGED <<run, probed, evidence, container, guestCopy>>
    BY <1>8, LossEffect
  <2>2. \A x \in Operations, command \in Commands : <<x, command>> \in late' =>
          <<x, command>> \in late \/ (x = o /\ command = phase[o] /\ phase[o] # "inspect")
    BY <1>8, LossEffect
  <2>3. \/ phase[o] = "probeStart" /\ AfterFailure(o) = "probeRemove"
        \/ phase[o] = "start" /\ AfterFailure(o) = "remove"
        \/ phase[o] \in Commands /\ AfterFailure(o) = "raised"
    BY <1>8 DEF LoseCommand, AfterFailure
  <2>4. \A x \in Operations, command \in Commands : <<x, command>> \in late' =>
          /\ phase[x] # "new"
          /\ ~UsesGuest(x) => command \in {"create", "start", "remove"}
    BY <2>2, OutstandingCommands
  <2>5. Hopeless(o)'
    BY <2>1, <2>3
  <2>6. \A x \in Operations, command \in Commands : <<x, command>> \in late' => Hopeless(x)'
    BY <2>1, <2>2, <2>5
  <2>7. phase[o] \notin {"new", "done"}
    BY <2>3 DEF Commands
  <2> QED
    BY <2>1, <2>3, <2>4, <2>5, <2>6, <2>7
<1>9. ASSUME NEW o \in Operations, CleanContainer(o)
      PROVE  PathInv'
  <2>1. \A x \in Operations, n \in Names : container[x][n] = "none" => container'[x][n] = "none"
    BY <1>9 DEF CleanContainer, RemoveListed, TypeOK
  <2>2. UNCHANGED <<run, phase, probed, evidence, guestCopy, late>>
    BY <1>9 DEF CleanContainer
  <2> QED
    BY <2>1, <2>2 DEF Names
<1>10. ASSUME NEW o \in Operations, DaemonStarts(o)
       PROVE  PathInv'
  <2>1. /\ phase[o] \in Commands /\ phase[o] \in Starts /\ CarryOut(o, phase[o])
        /\ UNCHANGED <<run, phase, probed, evidence, late>>
    BY <1>10 DEF DaemonStarts, Starts, Commands
  <2>2. guestCopy' = guestCopy
    BY <2>1 DEF CarryOut, GuestAfter, Starts
  <2>3. \A x \in Operations, n \in Names : container[x][n] = "none" => container'[x][n] = "none"
    BY <2>1, CommandEffect
  <2> QED
    BY <2>1, <2>2, <2>3 DEF Names
<1>11. ASSUME NEW o \in Operations, NEW n \in Names, ContainerExits(o, n)
       PROVE  PathInv'
  <2>1. \A x \in Operations, m \in Names : container[x][m] = "none" => container'[x][m] = "none"
    BY <1>11 DEF ContainerExits, TypeOK
  <2>2. UNCHANGED <<run, phase, probed, evidence, guestCopy, late>>
    BY <1>11 DEF ContainerExits
  <2> QED
    BY <2>1, <2>2 DEF Names
<1>12. ASSUME NEW o \in Operations, NEW command \in Commands, CarryOutLate(o, command)
       PROVE  PathInv'
  <2>1. /\ <<o, command>> \in late /\ CarryOut(o, command) /\ late' \subseteq late
        /\ UNCHANGED <<run, phase, probed, evidence>>
    BY <1>12 DEF CarryOutLate
  <2>2. /\ \A x \in Operations, n \in Names :
             x # o \/ n # NameOf(command) => container'[x][n] = container[x][n]
        /\ \A x \in Operations : x # o => x \in guestCopy' <=> x \in guestCopy
    BY <2>1, CommandEffect DEF CarryOut, GuestAfter
  <2>3. Hopeless(o) /\ phase[o] # "done"
    BY <2>1
  <2>4. phase[o] # "new" /\ ~UsesGuest(o) =>
          o \notin guestCopy' /\ container'[o]["probe"] = "none"
    <3>1. phase[o] # "new" /\ ~UsesGuest(o) => command \in {"create", "start", "remove"}
      BY <2>1
    <3>2. command \in {"create", "start", "remove"} => NameOf(command) = "design" /\ guestCopy' = guestCopy
      BY <2>1 DEF NameOf, CarryOut, GuestAfter
    <3> QED
      BY <2>2, <3>1, <3>2 DEF Names
  <2> QED
    BY <2>1, <2>2, <2>3, <2>4 DEF Names
<1> QED
  BY StepKinds, <1>1, <1>2, <1>3, <1>4, <1>5, <1>6, <1>7, <1>8, <1>9, <1>10, <1>11, <1>12
     DEF ClientStep, DaemonStep

\* The two commands about a name are commands, and about that name.
LEMMA CommandsOfNames ==
  ASSUME NEW n \in Names
  PROVE  /\ CreateOf(n) \in Commands /\ StartOf(n) \in Commands
         /\ CreateOf(n) # "inspect" /\ CreateOf(n) # StartOf(n)
         /\ NameOf(CreateOf(n)) = n /\ NameOf(StartOf(n)) = n
         /\ StartOf(n) \in Starts /\ CreateOf(n) \in Creates
BY DEF Names, CreateOf, StartOf, Commands, NameOf, Starts, Creates

\* Every step keeps a creation and a start from being outstanding together.
LEMMA CreatesStep ==
  ASSUME TypeOK, SelectionInv, RolesInv, TestedInv, PathInv, CreatesInv, [Next]_vars
  PROVE  CreatesInv'
<1> USE DEF CreatesInv
<1> USE CommandsOfNames
<1>1. CASE UNCHANGED <<run, phase, probed, evidence, container, late>>
  BY <1>1
<1>2. ASSUME NEW o \in Operations, phase[o] \notin {"raised", "dead"},
             \A x \in Operations : x # o => phase'[x] = phase[x],
             late' \subseteq late
      PROVE  CreatesInv'
  BY <1>2
<1>3. ASSUME NEW o \in Operations, NEW next \in {"dead", AfterFailure(o)},
             \A x \in Operations : phase'[x] = IF x = o /\ phase[x] # "new" THEN next ELSE phase[x],
             \A x \in Operations, command \in Commands : <<x, command>> \in late' =>
               \/ <<x, command>> \in late
               \/ x = o /\ command = phase[o] /\ phase[o] # "inspect",
             next = "dead" \/ phase[o] \in Commands
      PROVE  CreatesInv'
  <2> SUFFICES ASSUME NEW x \in Operations, NEW n \in Names, <<x, CreateOf(n)>> \in late'
               PROVE  phase'[x] \in {"raised", "dead"} /\ <<x, StartOf(n)>> \notin late'
    OBVIOUS
  <2>1. CASE <<x, CreateOf(n)>> \in late
    <3>1. phase[x] \in {"raised", "dead"} /\ <<x, StartOf(n)>> \notin late
      BY <2>1
    <3>2. phase[x] \notin Commands
      BY <3>1 DEF Commands
    <3> QED
      BY <1>3, <3>1, <3>2
  <2>2. CASE <<x, CreateOf(n)>> \notin late
    <3>1. x = o /\ CreateOf(n) = phase[o]
      BY <1>3, <2>2
    <3>2. phase[o] \in {"probeCreate", "create"} /\ phase[o] # "new"
      BY <3>1 DEF CreateOf
    <3>3. <<o, StartOf(n)>> \notin late
      BY <3>2 DEF PathInv, Hopeless
    <3>4. next \in {"raised", "dead"}
      BY <1>3, <3>2 DEF AfterFailure
    <3> QED
      BY <1>3, <3>1, <3>2, <3>3, <3>4
  <2> QED
    BY <2>1, <2>2
<1>4. ASSUME NEW o \in Operations, NEW p \in Written, NEW t \in Transports,
             BeginRun(o, p, t), UNCHANGED daemonVars
      PROVE  CreatesInv'
  BY <1>2, <1>4 DEF BeginRun, daemonVars, TypeOK
<1>5. ASSUME NEW o \in Operations, Orphan(o)
      PROVE  CreatesInv'
  <2>1. /\ \A x \in Operations : phase'[x] = IF x = o /\ phase[x] # "new" THEN "dead" ELSE phase[x]
        /\ \A x \in Operations, command \in Commands : <<x, command>> \in late' =>
             \/ <<x, command>> \in late
             \/ x = o /\ command = phase[o] /\ phase[o] # "inspect"
    BY <1>5, OrphanEffect
  <2> QED
    BY <1>3, <2>1
<1>6. ASSUME NEW o \in Operations, LoseCommand(o)
      PROVE  CreatesInv'
  <2>1. phase[o] \in Commands /\ phase[o] # "new"
    BY <1>6 DEF LoseCommand, Commands
  <2>2. /\ \A x \in Operations : phase'[x] = IF x = o THEN AfterFailure(o) ELSE phase[x]
        /\ \A x \in Operations, command \in Commands : <<x, command>> \in late' =>
             \/ <<x, command>> \in late
             \/ x = o /\ command = phase[o] /\ phase[o] # "inspect"
    BY <1>6, LossEffect
  <2> QED
    BY <1>3, <2>1, <2>2
<1>7. ASSUME NEW o \in Operations,
             WriteIntent(o) \/ FailStaging(o) \/ Complete(o) \/ ReceiveProbe(o) \/ ReceiveResults(o)
      PROVE  CreatesInv'
  <2>1. phase[o] \notin {"raised", "dead"} /\ late' = late
    BY <1>7 DEF WriteIntent, FailStaging, Complete, ReceiveProbe, ReceiveResults, daemonVars, Commands
  <2>2. \A x \in Operations : x # o => phase'[x] = phase[x]
    BY <1>7 DEF WriteIntent, FailStaging, Complete, ReceiveProbe, ReceiveResults, Advance, TypeOK
  <2> QED
    BY <1>2, <2>1, <2>2
<1>8. ASSUME NEW o \in Operations, CleanContainer(o) \/ DaemonStep(o)
      PROVE  CreatesInv'
  <2>1. phase' = phase /\ late' \subseteq late
    BY <1>8 DEF CleanContainer, DaemonStep, DaemonStarts, ContainerExits, CarryOutLate, runVars
  <2> QED
    BY <2>1
<1> QED
  BY StepKinds, <1>1, <1>4, <1>5, <1>6, <1>7, <1>8 DEF ClientStep

-----------------------------------------------------------------------------
(* What is settled stays clean *)

\* A step leaves an operation alone.
LeavesAlone(x) ==
    /\ phase'[x] = phase[x] /\ cleaning'[x] = cleaning[x]
    /\ \A n \in Names : container'[x][n] = container[x][n]
    /\ x \in straggled' <=> x \in straggled
    /\ x \in guestCopy' => x \in guestCopy
    /\ \A command \in Commands : <<x, command>> \in late' => <<x, command>> \in late
    /\ Unresolved(x) => Unresolved(x)'
    /\ active' = x => active = x
    /\ Testing(x)' =>
         Testing(x) /\ (writer' = writer \/ (cleaning[x] = "no" /\ phase[x] \notin InFlight))

\* An operation that a step leaves alone stays as settled as it was.
LEMMA SettledElsewhere ==
  ASSUME NEW x \in Operations, SettledAt(x), LeavesAlone(x)
  PROVE  SettledAt(x)'
<1> USE DEF LeavesAlone
<1>1. \A n \in Names : Gone(x, n) => Gone(x, n)'
  BY CommandsOfNames DEF Gone
<1>2. "probe" \in Names
  BY DEF Names
<1>3. cleaning'[x] = "design" => Gone(x, "probe")'
  BY <1>1, <1>2 DEF SettledAt
<1>4. cleaning'[x] = "release" => \A n \in Names : Gone(x, n)'
  BY <1>1 DEF SettledAt
<1>5. ~Unresolved(x)' =>
        /\ phase'[x] \notin InFlight /\ cleaning'[x] = "no"
        /\ \A n \in Names : Gone(x, n)'
        /\ x \in straggled' \/ x \notin guestCopy'
  BY <1>1 DEF SettledAt
<1>6. /\ active' = x /\ cleaning'[x] # "no" => phase'[x] = "dead"
      /\ Testing(x)' /\ cleaning'[x] # "no" => writer' = "recovering"
      /\ Testing(x)' /\ writer' # "testing" => phase'[x] \notin InFlight
  BY DEF SettledAt
<1> QED
  BY <1>3, <1>4, <1>5, <1>6 DEF SettledAt

\* An operation whose client is at work is unresolved and not being recovered;
\* what its client or the daemon does to it cannot spoil that.
LEMMA SettledInFlight ==
  ASSUME NEW o \in Operations, SettledAt(o), phase[o] \in InFlight, cleaning' = cleaning,
         UNCHANGED <<receipt, writer, active>>
  PROVE  SettledAt(o)'
<1>1. "dead" \notin InFlight
  BY DEF InFlight, Commands
<1>2. Unresolved(o) /\ (Testing(o) => writer = "testing")
  BY DEF SettledAt
<1>3. cleaning[o] = "no"
  BY <1>1, <1>2 DEF SettledAt, Unresolved
<1> QED
  BY <1>2, <1>3 DEF SettledAt, Unresolved, Testing

\* An operation nobody has touched is settled.
LEMMA SettledFresh ==
  ASSUME NEW o \in Operations, Untouched(o)', phase'[o] \notin InFlight
  PROVE  SettledAt(o)'
BY DEF Untouched, SettledAt, Gone, Names

\* An operation that is unresolved and not being recovered is no threat, unless a
\* finished command left it in flight.
LEMMA SettledUnresolved ==
  ASSUME NEW o \in Operations, Unresolved(o)', cleaning'[o] = "no",
         Testing(o)' /\ writer' # "testing" => phase'[o] \notin InFlight
  PROVE  SettledAt(o)'
BY DEF SettledAt

\* An operation that ended by itself with a report has left nothing.
LEMMA SettledDone ==
  ASSUME PathInv, NEW o \in Operations, phase[o] = "done", cleaning[o] = "no",
         UNCHANGED <<phase, cleaning, container, straggled, guestCopy, late>>
  PROVE  SettledAt(o)'
<1>1. "done" \notin InFlight
  BY DEF InFlight, Commands
<1>2. ~Hopeless(o)
  BY DEF Hopeless
<1>3. o \notin guestCopy /\ \A n \in Names : container[o][n] = "none"
  BY <1>2 DEF PathInv, Names
<1> QED
  BY <1>1, <1>3 DEF SettledAt, Gone

\* A recovery that begins at the design's container has no probe to remove.
LEMMA SettledCleaning ==
  ASSUME TypeOK, PathInv, NEW o \in Operations, NEW p \in Written, NEW t \in Transports,
         BeginCleaning(o, p, t), phase[o] # "new", phase[o] \notin InFlight,
         UNCHANGED <<receipt, active, phase, container, guestCopy, late>>,
         Unresolved(o), active = o => phase[o] = "dead",
         Testing(o) => writer' = "recovering"
  PROVE  SettledAt(o)'
<1>1. cleaning'[o] = IF UsesGuest(o) THEN "probe" ELSE "design"
  BY DEF BeginCleaning, TypeOK
<1>2. ~UsesGuest(o) => container[o]["probe"] = "none"
  BY DEF PathInv
<1>3. cleaning'[o] = "design" => Gone(o, "probe")'
  BY <1>1, <1>2 DEF Gone
<1> QED
  BY <1>1, <1>3 DEF SettledAt, Unresolved, Testing

\* What a client at work, and what the daemon does for it, leaves alone.
LEMMA ClientEffect ==
  ASSUME TypeOK, NEW o \in Operations, ClientStep(o) \/ DaemonStarts(o)
  PROVE  /\ phase[o] \in InFlight
         /\ UNCHANGED <<receipt, writer, active, cleaning, straggled>>
         /\ \A x \in Operations : x # o =>
              /\ phase'[x] = phase[x] /\ (x \in guestCopy' => x \in guestCopy)
              /\ \A n \in Names : container'[x][n] = container[x][n]
              /\ \A command \in Commands : <<x, command>> \in late' => <<x, command>> \in late
<1> USE DEF runtimeVars, sessionVars, daemonVars, historyVars
<1>1. CASE WriteIntent(o) \/ FailStaging(o)
  BY <1>1 DEF WriteIntent, FailStaging, Advance, InFlight, TypeOK
<1>2. CASE Complete(o)
  <2>1. phase[o] \in Commands /\ CarryOut(o, phase[o])
    BY <1>2 DEF Complete
  <2>2. \A x \in Operations : x # o => (x \in guestCopy' <=> x \in guestCopy)
    BY <2>1 DEF CarryOut, GuestAfter
  <2>3. \A x \in Operations, n \in Names : x # o => container'[x][n] = container[x][n]
    BY <2>1, CommandEffect
  <2>4. \A x \in Operations : x # o => phase'[x] = phase[x]
    BY <1>2, CompletionEffect
  <2>5. UNCHANGED <<receipt, writer, active, cleaning, straggled, late>>
    BY <1>2 DEF Complete
  <2> QED
    BY <2>1, <2>2, <2>3, <2>4, <2>5 DEF InFlight
<1>3. CASE ReceiveProbe(o) \/ ReceiveResults(o)
  BY <1>3 DEF ReceiveProbe, ReceiveResults, Advance, InFlight, Commands, TypeOK
<1>4. CASE LoseCommand(o)
  <2>1. phase[o] \in InFlight /\ UNCHANGED <<receipt, writer, active, cleaning, straggled>>
    BY <1>4 DEF LoseCommand, InFlight
  <2> QED
    BY <1>4, <2>1, LossEffect
<1>5. CASE DaemonStarts(o)
  <2>1. phase[o] \in Commands /\ CarryOut(o, phase[o])
    BY <1>5 DEF DaemonStarts, Starts, Commands
  <2>2. \A x \in Operations : x # o => (x \in guestCopy' <=> x \in guestCopy)
    BY <2>1 DEF CarryOut, GuestAfter
  <2>3. \A x \in Operations, n \in Names : x # o => container'[x][n] = container[x][n]
    BY <2>1, CommandEffect
  <2>4. UNCHANGED <<receipt, writer, active, cleaning, straggled, late, phase>>
    BY <1>5 DEF DaemonStarts, runVars
  <2> QED
    BY <2>1, <2>2, <2>3, <2>4 DEF InFlight
<1> QED
  BY <1>1, <1>2, <1>3, <1>4, <1>5 DEF ClientStep

\* A late command never makes a container run that is gone: the start has nothing
\* to start, and a creation has no start outstanding.
LEMMA LateLeavesGone ==
  ASSUME TypeOK, CreatesInv, NEW o \in Operations, NEW command \in Commands,
         CarryOutLate(o, command), o \in straggled', NEW n \in Names, Gone(o, n)
  PROVE  Gone(o, n)'
<1>1. <<o, command>> \in late /\ CarryOut(o, command) /\ late' \subseteq late
  BY DEF CarryOutLate
<1>2. CASE n # NameOf(command)
  <2>1. container'[o][n] = container[o][n]
    BY <1>1, <1>2, CommandEffect
  <2> QED
    BY <1>1, <2>1 DEF Gone
<1>3. CASE n = NameOf(command)
  <2>1. CASE command \in Creates
    <3>1. command = CreateOf(n)
      BY <1>3, <2>1 DEF Creates, NameOf, CreateOf
    <3>2. <<o, StartOf(n)>> \notin late
      BY <1>1, <3>1 DEF CreatesInv
    <3>3. container'[o][n] = "created" \/ container'[o][n] = container[o][n]
      BY <1>1, <1>3, <2>1, CommandEffect
    <3> QED
      BY <1>1, <3>2, <3>3 DEF Gone
  <2>2. CASE command \in Starts
    <3>1. command = StartOf(n)
      BY <1>3, <2>2 DEF Starts, NameOf, StartOf
    <3>2. container[o][n] # "created"
      BY <1>1, <3>1 DEF Gone
    <3>3. container'[o][n] = container[o][n]
      BY <1>1, <1>3, <2>2, <3>2, CommandEffect
    <3> QED
      BY <1>1, <3>2, <3>3 DEF Gone
  <2>3. CASE command \in Removes
    <3>1. container'[o][n] = "none"
      BY <1>1, <1>3, <2>3, CommandEffect
    <3> QED
      BY <3>1 DEF Gone
  <2>4. CASE command \in {"inspect", "copy", "release"}
    <3>1. container'[o][n] = container[o][n]
      BY <1>1, <1>3, <2>4, CommandEffect
    <3> QED
      BY <1>1, <3>1 DEF Gone
  <2> QED
    BY <2>1, <2>2, <2>3, <2>4 DEF Commands, Creates, Starts, Removes
<1> QED
  BY <1>2, <1>3

\* Every step keeps settled operations clean.
LEMMA SettledStep ==
  ASSUME TypeOK, SelectionInv, RolesInv, PathInv, CreatesInv, SettledInv, [Next]_vars
  PROVE  SettledInv'
<1> SUFFICES ASSUME NEW x \in Operations PROVE SettledAt(x)'
  BY DEF SettledInv
<1> USE DEF vars, runtimeVars, sessionVars, runVars, daemonVars, historyVars
<1>0. SettledAt(x)
  BY DEF SettledInv
<1>1. CASE UNCHANGED <<receipt, writer, active, phase, cleaning, container, guestCopy, late, straggled>>
  <2>1. LeavesAlone(x)
    BY <1>1 DEF LeavesAlone, Unresolved, Testing
  <2> QED
    BY <1>0, <2>1, SettledElsewhere
<1>2. ASSUME NEW o \in Operations, NEW t \in Transports, BeginSelfTest(o, t)
      PROVE  SettledAt(x)'
  <2>1. /\ phase[o] = "new" /\ receipt' # None /\ receipt'.operation = o
        /\ receipt # None => receipt.status \notin Unsettled
        /\ UNCHANGED <<active, phase, cleaning, container, guestCopy, late, straggled,
                       intents, probed, evidence, abandoned>>
    BY <1>2, DistinctMarks DEF BeginSelfTest, NoActiveReceipt, TypeOK, Receipts, Statuses
  <2>2. CASE x = o
    <3>1. Untouched(o) /\ phase'[o] \notin InFlight
      BY <2>1 DEF RolesInv, InFlight, Commands
    <3>2. Untouched(o)'
      BY <2>1, <3>1 DEF Untouched
    <3> QED
      BY <2>1, <2>2, <3>1, <3>2, SettledFresh
  <2>3. CASE x # o
    <3>1. ~Testing(x)' /\ (Unresolved(x) => Unresolved(x)')
      BY <2>1, <2>3 DEF Testing, Unresolved
    <3>2. LeavesAlone(x)
      BY <2>1, <3>1 DEF LeavesAlone
    <3> QED
      BY <1>0, <3>2, SettledElsewhere
  <2> QED
    BY <2>2, <2>3
<1>3. ASSUME NEW o \in Operations, StartSelfTest(o)
      PROVE  SettledAt(x)'
  <2>1. /\ phase[o] = "new" /\ receipt' # None /\ receipt'.operation = o
        /\ receipt # None /\ receipt.operation = o
        /\ receipt'.status = "running" /\ writer' = "testing"
        /\ \A y \in Operations : y # o => phase'[y] = phase[y]
        /\ UNCHANGED <<active, cleaning, container, guestCopy, late, straggled>>
    <3>1. receipt \in Receipts /\ receipt # None /\ receipt.operation = o
      BY <1>3 DEF StartSelfTest, Testing, TypeOK
    <3>2. receipt' \in Receipts /\ receipt'.operation = o /\ receipt'.status = "running"
      BY <1>3, <3>1 DEF StartSelfTest, Receipts, Statuses, Unsettled
    <3> QED
      BY <1>3, <3>1, <3>2, DistinctMarks DEF StartSelfTest, BeginRun, TypeOK
  <2>2. CASE x = o
    <3>1. cleaning'[o] = "no"
      BY <2>1 DEF RolesInv, Untouched
    <3>2. Unresolved(o)'
      BY <2>1 DEF Unresolved, Testing, Unsettled
    <3> QED
      BY <2>1, <2>2, <3>1, <3>2, SettledUnresolved
  <2>3. CASE x # o
    <3>1. ~Testing(x)' /\ (Unresolved(x) => Unresolved(x)')
      BY <2>1, <2>3 DEF Testing, Unresolved
    <3>2. LeavesAlone(x)
      BY <2>1, <2>3, <3>1 DEF LeavesAlone
    <3> QED
      BY <1>0, <3>2, SettledElsewhere
  <2> QED
    BY <2>2, <2>3
<1>4. ASSUME NEW o \in Operations, PassSelfTest(o) \/ FailSelfTest(o)
      PROVE  SettledAt(x)'
  <2>1. /\ writer = "testing" /\ writer' = "free" /\ Testing(o) /\ phase[o] \in {"done", "raised"}
        /\ UNCHANGED <<active, phase, cleaning, container, guestCopy, late, straggled>>
    BY <1>4 DEF PassSelfTest, FailSelfTest, EndSelfTest
  <2>2. /\ receipt # None /\ receipt.operation = o
        /\ receipt'.operation = o
        /\ (receipt'.status = "passed" /\ phase[o] = "done") \/ (receipt' # None /\ receipt'.status = "needs-recovery")
    <3>1. receipt \in Receipts /\ receipt # None /\ receipt.operation = o
      BY <2>1 DEF Testing, TypeOK
    <3>2. CASE PassSelfTest(o)
      BY <3>1, <3>2 DEF PassSelfTest, EndSelfTest, Receipts
    <3>3. CASE FailSelfTest(o)
      <4>1. receipt' = [receipt EXCEPT !.status = "needs-recovery"]
        BY <3>3 DEF FailSelfTest, EndSelfTest
      <4>2. receipt' \in Receipts /\ receipt'.operation = o /\ receipt'.status = "needs-recovery"
        BY <3>1, <4>1 DEF Receipts, Statuses, Unsettled
      <4> QED
        BY <3>1, <4>2, DistinctMarks
    <3> QED
      BY <1>4, <3>2, <3>3
  <2>3. cleaning[o] = "no"
    BY <2>1 DEF SettledInv, SettledAt
  <2>4. CASE x = o
    <3>1. CASE receipt'.status = "passed" /\ phase[o] = "done"
      BY <2>1, <2>3, <2>4, <3>1, SettledDone
    <3>2. CASE receipt' # None /\ receipt'.status = "needs-recovery"
      <4>1. Unresolved(o)' /\ phase'[o] \notin InFlight
        BY <2>1, <2>2, <3>2 DEF Unresolved, Testing, Unsettled, InFlight, Commands
      <4> QED
        BY <2>1, <2>3, <2>4, <4>1, SettledUnresolved
    <3> QED
      BY <2>2, <3>1, <3>2
  <2>5. CASE x # o
    <3>1. ~Testing(x)' /\ (Unresolved(x) => Unresolved(x)')
      BY <2>1, <2>2, <2>5 DEF Testing, Unresolved
    <3>2. LeavesAlone(x)
      BY <2>1, <3>1 DEF LeavesAlone
    <3> QED
      BY <1>0, <3>2, SettledElsewhere
  <2> QED
    BY <2>4, <2>5
<1>5. CASE RefuseSelfTest
  <2>1. /\ writer = "testing" /\ receipt.status = "not-started"
        /\ UNCHANGED <<receipt, active, phase, cleaning, container, guestCopy, late, straggled>>
    BY <1>5 DEF RefuseSelfTest
  <2>2. Testing(x) => phase[x] = "new" /\ cleaning[x] = "no"
    BY <2>1 DEF RolesInv, Untouched, Testing
  <2>3. "new" \notin InFlight
    BY DEF InFlight, Commands
  <2>4. LeavesAlone(x)
    BY <2>1, <2>2, <2>3 DEF LeavesAlone, Unresolved, Testing
  <2> QED
    BY <1>0, <2>4, SettledElsewhere
<1>6. ASSUME NEW t \in Transports, BeginRecovery(t)
      PROVE  SettledAt(x)'
  <2>0. PICK o \in Operations : o = receipt.operation
    BY <1>6 DEF BeginRecovery, NoActiveReceipt, TypeOK, Receipts
  <2>1. /\ receipt # None /\ receipt.status \in Unsettled
        /\ writer = "free" /\ writer' = "recovering" /\ BeginCleaning(o, selection, t)
        /\ selection \in Profiles
        /\ UNCHANGED <<receipt, active, phase, container, guestCopy, late>>
    BY <1>6, <2>0 DEF BeginRecovery, NoActiveReceipt, TypeOK, Receipts
  <2>2. \A y \in Operations : y # o =>
          cleaning'[y] = cleaning[y] /\ (y \in straggled' <=> y \in straggled)
    BY <2>1 DEF BeginCleaning, TypeOK
  <2>3. CASE x = o
    <3>1. Testing(o) /\ phase[o] # "new" /\ active # o
      BY <2>0, <2>1 DEF Testing, RolesInv, Unsettled
    <3>2. phase[o] \notin InFlight /\ Unresolved(o)
      BY <2>1, <3>1 DEF SettledInv, SettledAt, Unresolved
    <3> QED
      BY <2>1, <2>3, <3>1, <3>2, SettledCleaning DEF Written
  <2>4. CASE x # o
    <3>1. ~Testing(x)' /\ (Unresolved(x) => Unresolved(x)')
      BY <2>0, <2>1, <2>4 DEF Testing, Unresolved
    <3>2. LeavesAlone(x)
      BY <2>1, <2>2, <2>4, <3>1 DEF LeavesAlone
    <3> QED
      BY <1>0, <3>2, SettledElsewhere
  <2> QED
    BY <2>3, <2>4
<1>7. CASE StopRuntimeCommand
  <2>0. PICK o \in Operations : o = receipt.operation
    BY <1>7 DEF StopRuntimeCommand, SelectionInv, TypeOK, Receipts
  <2>1. /\ receipt # None /\ Orphan(o) /\ writer' = "free"
        /\ UNCHANGED <<receipt, active, straggled, abandoned>>
    BY <1>7, <2>0 DEF StopRuntimeCommand, SelectionInv
  <2>2. /\ cleaning'[o] = "no"
        /\ \A y \in Operations : y # o => cleaning'[y] = cleaning[y]
    BY <2>1 DEF Orphan, TypeOK
  <2>3. "dead" \notin InFlight /\ "new" \notin InFlight
    BY DEF InFlight, Commands
  <2>4. /\ \A y \in Operations : phase'[y] = IF y = o /\ phase[y] # "new" THEN "dead" ELSE phase[y]
        /\ \A y \in Operations, command \in Commands : <<y, command>> \in late' =>
             <<y, command>> \in late \/ (y = o /\ command = phase[o])
        /\ UNCHANGED <<container, guestCopy, intents, probed, evidence>>
    BY <2>1, OrphanEffect
  <2>5. CASE x = o /\ phase[o] = "new"
    <3>1. Untouched(o)
      BY <2>1, <2>5 DEF RolesInv
    <3>2. "new" \notin Commands
      BY DEF Commands
    <3>3. Untouched(o)' /\ phase'[o] \notin InFlight
      BY <2>1, <2>2, <2>3, <2>4, <2>5, <3>1, <3>2 DEF Untouched
    <3> QED
      BY <2>1, <2>5, <3>3, SettledFresh
  <2>6. CASE x = o /\ phase[o] # "new"
    <3>1. receipt.status # "not-started"
      BY <2>0, <2>1, <2>6 DEF RolesInv, Testing
    <3>2. receipt.status \in Unsettled
      BY <1>7, <3>1 DEF StopRuntimeCommand, SelectionInv
    <3>3. Unresolved(o)'
      BY <2>0, <2>1, <3>2 DEF Unresolved, Testing
    <3> QED
      BY <2>1, <2>2, <2>3, <2>4, <2>6, <3>3, SettledUnresolved
  <2>7. CASE x # o
    <3>1. ~Testing(x)' /\ (Unresolved(x) => Unresolved(x)')
      BY <2>0, <2>1, <2>7 DEF Testing, Unresolved
    <3>2. LeavesAlone(x)
      BY <2>1, <2>2, <2>4, <2>7, <3>1 DEF LeavesAlone
    <3> QED
      BY <1>0, <3>2, SettledElsewhere
  <2> QED
    BY <2>5, <2>6, <2>7
<1>8. ASSUME NEW o \in Operations, Simulate(o)
      PROVE  SettledAt(x)'
  <2>1. /\ phase[o] = "new" /\ active = None /\ active' = o /\ ~Testing(o)
        /\ \A y \in Operations : y # o => phase'[y] = phase[y]
        /\ UNCHANGED <<receipt, writer, cleaning, container, guestCopy, late, straggled>>
    BY <1>8 DEF Simulate, BeginRun, TypeOK
  <2>2. CASE x = o
    <3>1. cleaning'[o] = "no"
      BY <2>1 DEF RolesInv, Untouched
    <3>2. Unresolved(o)' /\ ~Testing(o)'
      BY <2>1 DEF Unresolved, Testing
    <3> QED
      BY <2>1, <2>2, <3>1, <3>2, SettledUnresolved
  <2>3. CASE x # o
    <3>1. /\ Unresolved(x) => Unresolved(x)'
          /\ Testing(x)' => Testing(x)
      BY <2>1, <2>3, DistinctMarks DEF Testing, Unresolved
    <3>2. LeavesAlone(x)
      BY <2>1, <2>3, <3>1 DEF LeavesAlone
    <3> QED
      BY <1>0, <3>2, SettledElsewhere
  <2> QED
    BY <2>2, <2>3
<1>9. ASSUME NEW o \in Operations, AcceptReport(o)
      PROVE  SettledAt(x)'
  <2>1. /\ active = o /\ active' = None /\ phase[o] = "done"
        /\ UNCHANGED <<receipt, writer, phase, cleaning, container, guestCopy, late, straggled>>
    BY <1>9 DEF AcceptReport
  <2>2. CASE x = o
    <3>1. cleaning[o] = "no"
      BY <1>0, <2>1, <2>2 DEF SettledAt
    <3> QED
      BY <2>1, <2>2, <3>1, SettledDone
  <2>3. CASE x # o
    <3>1. /\ Unresolved(x) => Unresolved(x)'
          /\ Testing(x)' => Testing(x)
          /\ active' # x
      BY <2>1, <2>3, DistinctMarks DEF Testing, Unresolved
    <3>2. LeavesAlone(x)
      BY <2>1, <3>1 DEF LeavesAlone
    <3> QED
      BY <1>0, <3>2, SettledElsewhere
  <2> QED
    BY <2>2, <2>3
<1>10. CASE BeginAbandon
  <2>0. PICK o \in Operations : o = active
    BY <1>10 DEF BeginAbandon, Abandonable, AbandonableByAnyone, TypeOK
  <2>1. /\ phase[o] = "dead"
        /\ design.profile \in Written /\ design.transport \in Transports
        /\ BeginCleaning(o, design.profile, design.transport)
        /\ UNCHANGED <<receipt, writer, active, phase, container, guestCopy, late>>
    BY <1>10, <2>0 DEF BeginAbandon, Abandonable, AbandonableByAnyone, TypeOK, Bindings
  <2>2. \A y \in Operations : y # o =>
          cleaning'[y] = cleaning[y] /\ (y \in straggled' <=> y \in straggled)
    BY <2>1 DEF BeginCleaning, TypeOK
  <2>3. "dead" \notin InFlight
    BY DEF InFlight, Commands
  <2>4. CASE x = o
    <3>1. ~Testing(o) /\ Unresolved(o)
      BY <2>0, <2>1 DEF RolesInv, Unresolved
    <3> QED
      BY <2>1, <2>3, <2>4, <3>1, SettledCleaning
  <2>5. CASE x # o
    <3>1. /\ Unresolved(x) => Unresolved(x)'
          /\ Testing(x)' => Testing(x)
      BY <2>1 DEF Testing, Unresolved
    <3>2. LeavesAlone(x)
      BY <2>1, <2>2, <2>5, <3>1 DEF LeavesAlone
    <3> QED
      BY <1>0, <3>2, SettledElsewhere
  <2> QED
    BY <2>4, <2>5
<1>11. CASE StopDesign
  <2>1. CASE active = None
    BY <1>1, <1>11, <2>1 DEF StopDesign
  <2>2. CASE active # None
    <3>0. PICK o \in Operations : o = active
      BY <2>2 DEF TypeOK
    <3>1. /\ Orphan(o) /\ phase[o] # "new" /\ ~Testing(o)
          /\ UNCHANGED <<receipt, writer, active, straggled>>
      BY <1>11, <2>2, <3>0 DEF StopDesign, RolesInv
    <3>2. /\ cleaning'[o] = "no"
          /\ \A y \in Operations : y # o => cleaning'[y] = cleaning[y]
      BY <3>1 DEF Orphan, TypeOK
    <3>3. Unresolved(o)' /\ ~Testing(o)'
      BY <3>0, <3>1 DEF Unresolved, Testing
    <3>4. /\ Unresolved(x) => Unresolved(x)'
          /\ Testing(x)' => Testing(x)
      BY <3>1 DEF Testing, Unresolved
    <3>5. CASE x = o
      BY <3>1, <3>2, <3>3, <3>5, SettledUnresolved
    <3>6. CASE x # o
      <4>1. /\ phase'[x] = phase[x] /\ UNCHANGED <<container, guestCopy>>
            /\ \A command \in Commands : <<x, command>> \in late' => <<x, command>> \in late
        BY <3>1, <3>6, OrphanEffect
      <4>2. LeavesAlone(x)
        BY <3>1, <3>2, <3>4, <3>6, <4>1 DEF LeavesAlone
      <4> QED
        BY <1>0, <4>2, SettledElsewhere
    <3> QED
      BY <3>5, <3>6
  <2> QED
    BY <2>1, <2>2
<1>12. ASSUME NEW o \in Operations, ClientStep(o) \/ DaemonStarts(o)
       PROVE  SettledAt(x)'
  <2>1. phase[o] \in InFlight /\ UNCHANGED <<receipt, writer, active, cleaning, straggled>>
    BY <1>12, ClientEffect
  <2>2. CASE x = o
    BY <1>0, <2>1, <2>2, SettledInFlight
  <2>3. CASE x # o
    <3>1. /\ phase'[x] = phase[x] /\ (x \in guestCopy' => x \in guestCopy)
          /\ \A n \in Names : container'[x][n] = container[x][n]
          /\ \A command \in Commands : <<x, command>> \in late' => <<x, command>> \in late
      BY <1>12, <2>3, ClientEffect
    <3>2. (Unresolved(x) => Unresolved(x)') /\ (Testing(x)' => Testing(x))
      BY <2>1 DEF Unresolved, Testing
    <3>3. LeavesAlone(x)
      BY <2>1, <3>1, <3>2 DEF LeavesAlone
    <3> QED
      BY <1>0, <3>3, SettledElsewhere
  <2> QED
    BY <2>2, <2>3
<1>13. ASSUME NEW o \in Operations, CleanContainer(o)
       PROVE  SettledAt(x)'
  <2>0. PICK n \in Names : n = cleaning[o]
    BY <1>13 DEF CleanContainer
  <2>1. /\ cleaning'[o] = IF n = "probe" THEN "design" ELSE "release"
        /\ container'[o][n] = "none"
        /\ \A y \in Operations, m \in Names :
             y # o \/ m # n => container'[y][m] = container[y][m]
        /\ \A y \in Operations : y # o => cleaning'[y] = cleaning[y]
        /\ UNCHANGED <<receipt, writer, active, phase, guestCopy, late, straggled>>
    BY <1>13, <2>0 DEF CleanContainer, RemoveListed, TypeOK
  <2>2. (Unresolved(x) <=> Unresolved(x)') /\ (Testing(x)' <=> Testing(x))
    BY <2>1 DEF Unresolved, Testing
  <2>3. CASE x = o
    <3>1. Gone(o, n)'
      BY <2>1 DEF Gone
    <3>2. n = "design" => Gone(o, "probe")'
      BY <1>0, <2>0, <2>1, <2>3 DEF SettledAt, Gone, Names
    <3>3. Unresolved(o) /\ (active = o => phase[o] = "dead") /\ (Testing(o) => writer = "recovering")
          /\ (Testing(o) => phase[o] \notin InFlight)
      BY <1>0, <2>0, <2>1, <2>3 DEF SettledAt, Names
    <3>4. cleaning'[o] = "design" => Gone(o, "probe")'
      BY <2>1, <3>1 DEF Names
    <3>5. cleaning'[o] = "release" => \A m \in Names : Gone(o, m)'
      BY <2>1, <3>1, <3>2 DEF Names
    <3> QED
      BY <2>1, <2>2, <2>3, <3>3, <3>4, <3>5 DEF SettledAt
  <2>4. CASE x # o
    <3>1. LeavesAlone(x)
      BY <2>1, <2>2, <2>4 DEF LeavesAlone
    <3> QED
      BY <1>0, <3>1, SettledElsewhere
  <2> QED
    BY <2>3, <2>4
<1>14. ASSUME NEW o \in Operations, FailCleaning(o)
       PROVE  SettledAt(x)'
  <2>1. /\ cleaning[o] # "no" /\ cleaning'[o] = "no"
        /\ writer' = IF Testing(o) THEN "free" ELSE writer
        /\ \A y \in Operations : y # o => cleaning'[y] = cleaning[y]
        /\ UNCHANGED <<receipt, active, phase, container, guestCopy, late, straggled>>
    BY <1>14 DEF FailCleaning, TypeOK
  <2>2. (Unresolved(x) <=> Unresolved(x)') /\ (Testing(x)' <=> Testing(x))
    BY <2>1 DEF Unresolved, Testing
  <2>3. CASE x = o
    <3>1. Unresolved(o) /\ (Testing(o) => phase[o] \notin InFlight)
      BY <1>0, <2>1, <2>3 DEF SettledAt
    <3> QED
      BY <2>1, <2>2, <2>3, <3>1, SettledUnresolved
  <2>4. CASE x # o
    <3>1. Testing(x) => writer' = writer
      BY <2>1, <2>4 DEF Testing
    <3>2. LeavesAlone(x)
      BY <2>1, <2>2, <2>4, <3>1 DEF LeavesAlone
    <3> QED
      BY <1>0, <3>2, SettledElsewhere
  <2> QED
    BY <2>3, <2>4
<1>15. ASSUME NEW o \in Operations, Recover(o) \/ Abandon(o)
       PROVE  SettledAt(x)'
  <2>1. /\ cleaning[o] = "release" /\ cleaning'[o] = "no"
        /\ guestCopy' = guestCopy \ {o}
        /\ \A y \in Operations : y # o => cleaning'[y] = cleaning[y]
        /\ UNCHANGED <<phase, container, late, straggled>>
    BY <1>15 DEF Recover, Abandon, EndCleaning, TypeOK
  <2>2. /\ Testing(o) \/ active = o
        /\ Testing(o) => writer = "recovering"
        /\ \A n \in Names : Gone(o, n)
        /\ phase[o] \notin InFlight
    <3>1. "dead" \notin InFlight
      BY DEF InFlight, Commands
    <3>2. Testing(o) \/ active = o
      BY <1>15 DEF Recover, Abandon
    <3> QED
      BY <2>1, <3>1, <3>2 DEF SettledInv, SettledAt
  <2>3. CASE x = o
    <3>1. \A n \in Names : Gone(o, n)'
      BY <2>1, <2>2 DEF Gone
    <3>2. active' = o => active = o
      BY <1>15, DistinctMarks DEF Recover, Abandon
    <3> QED
      BY <2>1, <2>2, <2>3, <3>1 DEF SettledAt
  <2>4. CASE x # o /\ Recover(o)
    <3>1. /\ receipt # None /\ receipt.operation = o /\ receipt'.operation = o
          /\ active' = active
      BY <2>4 DEF Recover, Testing, TypeOK, Receipts
    <3>2. ~Testing(x)' /\ (Unresolved(x) => Unresolved(x)')
      BY <2>4, <3>1 DEF Testing, Unresolved
    <3>3. LeavesAlone(x)
      BY <2>1, <2>4, <3>1, <3>2 DEF LeavesAlone
    <3> QED
      BY <1>0, <3>3, SettledElsewhere
  <2>5. CASE x # o /\ Abandon(o)
    <3>1. active = o /\ active' = None /\ UNCHANGED <<receipt, writer>>
      BY <2>5 DEF Abandon
    <3>2. active' # x /\ (Testing(x)' => Testing(x)) /\ (Unresolved(x) => Unresolved(x)')
      BY <2>5, <3>1, DistinctMarks DEF Testing, Unresolved
    <3>3. LeavesAlone(x)
      BY <2>1, <2>5, <3>1, <3>2 DEF LeavesAlone
    <3> QED
      BY <1>0, <3>3, SettledElsewhere
  <2> QED
    BY <1>15, <2>3, <2>4, <2>5
<1>16. ASSUME NEW o \in Operations, NEW n \in Names, ContainerExits(o, n)
       PROVE  SettledAt(x)'
  <2>1. /\ container[o][n] = "running"
        /\ \A y \in Operations, m \in Names : y # o \/ m # n => container'[y][m] = container[y][m]
        /\ UNCHANGED <<receipt, writer, active, phase, cleaning, guestCopy, late, straggled>>
    BY <1>16 DEF ContainerExits, TypeOK
  <2>2. \A m \in Names : Gone(x, m) => container'[x][m] = container[x][m]
    BY <2>1 DEF Gone
  <2>3. \A m \in Names : Gone(x, m) => Gone(x, m)'
    BY <2>1, <2>2 DEF Gone
  <2>4. (Unresolved(x) <=> Unresolved(x)') /\ (Testing(x)' <=> Testing(x))
    BY <2>1 DEF Unresolved, Testing
  <2>5. "probe" \in Names
    BY DEF Names
  <2> QED
    BY <1>0, <2>1, <2>3, <2>4, <2>5 DEF SettledAt
<1>17. ASSUME NEW o \in Operations, NEW command \in Commands, CarryOutLate(o, command)
       PROVE  SettledAt(x)'
  <2>1. /\ CarryOut(o, command) /\ late' \subseteq late
        /\ straggled' = IF Unresolved(o) /\ cleaning[o] = "no" THEN straggled
                        ELSE straggled \union {o}
        /\ UNCHANGED <<receipt, writer, active, phase, cleaning>>
    BY <1>17 DEF CarryOutLate
  <2>2. (Unresolved(x) <=> Unresolved(x)') /\ (Testing(x)' <=> Testing(x))
    BY <2>1 DEF Unresolved, Testing
  <2>3. CASE x = o /\ Unresolved(o) /\ cleaning[o] = "no"
    <3>1. Testing(o) /\ writer # "testing" => phase[o] \notin InFlight
      BY <1>0, <2>3 DEF SettledAt
    <3> QED
      BY <2>1, <2>2, <2>3, <3>1, SettledUnresolved
  <2>4. CASE x = o /\ ~(Unresolved(o) /\ cleaning[o] = "no")
    <3>1. o \in straggled'
      BY <2>1, <2>4
    <3>2. \A n \in Names : Gone(x, n) => Gone(x, n)'
      BY <1>17, <2>4, <3>1, LateLeavesGone
    <3>3. "probe" \in Names
      BY DEF Names
    <3> QED
      BY <1>0, <2>1, <2>2, <2>4, <3>1, <3>2, <3>3 DEF SettledAt
  <2>5. CASE x # o
    <3>0. \A n \in Names : container'[x][n] = container[x][n]
      BY <2>1, <2>5, CommandEffect
    <3>1. x \in guestCopy' => x \in guestCopy
      BY <2>1, <2>5 DEF CarryOut, GuestAfter
    <3>2. LeavesAlone(x)
      BY <2>1, <2>2, <2>5, <3>0, <3>1 DEF LeavesAlone
    <3> QED
      BY <1>0, <3>2, SettledElsewhere
  <2> QED
    BY <2>3, <2>4, <2>5
<1>18. CASE \/ \E p \in Profiles : Select(p)
            \/ \E t \in Transports : OpenDesign(t)
            \/ \E p \in Written : OpenExplicit(p)
            \/ UNCHANGED vars
  BY <1>1, <1>18 DEF Select, OpenDesign, OpenExplicit, Open
<1> QED
  BY <1>2, <1>3, <1>4, <1>5, <1>6, <1>7, <1>8, <1>9, <1>10, <1>11, <1>12, <1>13, <1>14, <1>15,
     <1>16, <1>17, <1>18
     DEF Next, RuntimeCommand, SessionStep, RecoveryStep, DaemonStep

-----------------------------------------------------------------------------
(* The theorems *)

\* In the empty state there is nothing to be confused, seen, reported or cleaned.
LEMMA RuntimeInit == ASSUME Init PROVE RuntimeInv
<1>1. TypeOK
  BY TypeInit
<1>2. SelectionInv /\ RolesInv /\ TestedInv
  BY DistinctMarks DEF Init, SelectionInv, UnsettledKeepsSelection, RolesInv, Untouched, Testing,
     TestedInv, SimulatesOnlyTested, Qualified
<1>3. SeesInv /\ PathInv /\ CreatesInv
  BY DEF Init, SeesInv, PathInv, CreatesInv, BeforeReport, BeforeProbe, Hopeless, Names
<1>4. SettledInv
  BY DEF Init, SettledInv, SettledAt, Gone, Testing, InFlight, Commands, Names
<1> QED
  BY <1>1, <1>2, <1>3, <1>4 DEF RuntimeInv

\* Every step keeps them all.
LEMMA RuntimeStep == ASSUME RuntimeInv, [Next]_vars PROVE RuntimeInv'
BY TypeStep, SelectionStep, RolesStep, TestedStep, SeesStep, PathStep, CreatesStep, SettledStep
   DEF RuntimeInv

\* The invariant holds in every state of every behaviour.
LEMMA RuntimeInductive == Spec => []RuntimeInv
<1>1. Init => RuntimeInv
  BY RuntimeInit
<1>2. RuntimeInv /\ [Next]_vars => RuntimeInv'
  BY RuntimeStep
<1> QED
  BY <1>1, <1>2, PTL DEF Spec

\* The variables always have their types.
THEOREM RuntimeTypes == Spec => []TypeOK
<1>1. RuntimeInv => TypeOK
  BY DEF RuntimeInv
<1> QED
  BY <1>1, RuntimeInductive, PTL

\* An interrupted self-test can always be recovered: the selection stays the one
\* its intent was recorded with.
THEOREM SelectionIsKept == Spec => []UnsettledKeepsSelection
<1>1. RuntimeInv => UnsettledKeepsSelection
  BY DEF RuntimeInv, SelectionInv
<1> QED
  BY <1>1, RuntimeInductive, PTL

\* A self-test recorded as not started may be overwritten: nothing was done for it.
THEOREM NotStartedIsHarmless == Spec => []NotStartedLeftNothing
<1>1. RuntimeInv => NotStartedLeftNothing
  <2> SUFFICES ASSUME RuntimeInv, receipt # None, receipt.status = "not-started"
               PROVE  NotStartedLeftNothing
    BY DEF NotStartedLeftNothing
  <2>1. receipt.operation \in Operations
    BY DEF RuntimeInv, TypeOK, Receipts
  <2>2. phase[receipt.operation] = "new" /\ Untouched(receipt.operation)
    BY <2>1 DEF RuntimeInv, RolesInv, Testing
  <2> QED
    BY <2>2 DEF NotStartedLeftNothing, Untouched
<1> QED
  BY <1>1, RuntimeInductive, PTL

\* A session simulates with a version-2 profile only over a transport with which it
\* was tested, and with a version-1 profile only on the local daemon.
THEOREM OnlyTestedSimulates == Spec => []SimulatesOnlyTested
<1>1. RuntimeInv => SimulatesOnlyTested
  BY DEF RuntimeInv, TestedInv
<1> QED
  BY <1>1, RuntimeInductive, PTL

\* Design code runs only where the daemon sees the staged inputs.
THEOREM InputsAreVisible == Spec => []RunsOnlyVisibleInputs
<1>1. RuntimeInv => RunsOnlyVisibleInputs
  BY DEF RuntimeInv, SeesInv, RunsOnlyVisibleInputs
<1> QED
  BY <1>1, RuntimeInductive, PTL

\* What is adopted or recorded as passed ended by itself and is over.
THEOREM EvidenceIsOfFinishedRuns == Spec => []EvidenceIsComplete
<1>1. RuntimeInv => EvidenceIsComplete
  <2> SUFFICES ASSUME RuntimeInv, NEW o \in Operations,
                      adopted = o \/ (Testing(o) /\ receipt.status = "passed")
               PROVE  /\ phase[o] = "done" /\ evidence[o] # "none"
                      /\ o \notin abandoned \union guestCopy
                      /\ \A n \in Names : container[o][n] = "none"
                      /\ \A command \in Commands : <<o, command>> \notin late
    BY DEF EvidenceIsComplete
  <2>1. phase[o] = "done" /\ evidence[o] # "none" /\ o \notin abandoned
    BY DEF RuntimeInv, RolesInv
  <2>2. ~Hopeless(o)
    BY <2>1 DEF Hopeless
  <2> QED
    BY <2>1, <2>2 DEF RuntimeInv, PathInv, Names
<1> QED
  BY <1>1, RuntimeInductive, PTL

\* What is settled is clean, except for what a late command brings back.
THEOREM SettledStaysClean == Spec => []SettledIsClean
<1>1. RuntimeInv => SettledIsClean
  <2> SUFFICES ASSUME RuntimeInv, NEW o \in Operations, ~Unresolved(o)
               PROVE  /\ \A n \in Names : container[o][n] # "running"
                      /\ \/ o \in straggled
                         \/ o \notin guestCopy /\ \A n \in Names : container[o][n] = "none"
    BY DEF SettledIsClean
  <2>1. (o \in straggled \/ o \notin guestCopy) /\ \A n \in Names : Gone(o, n)
    BY DEF RuntimeInv, SettledInv, SettledAt
  <2> QED
    BY <2>1 DEF Gone
<1> QED
  BY <1>1, RuntimeInductive, PTL
=============================================================================
