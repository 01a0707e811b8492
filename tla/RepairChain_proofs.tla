-------------------------- MODULE RepairChain_proofs --------------------------
(***************************************************************************)
(* For every set of commands, drafts and changes asked for, and for any    *)
(* number of runs and troubles: what is promoted was verified and          *)
(* reviewed, a qualification tells of one generation, and a receipt of a   *)
(* replacement that took place.                                            *)
(***************************************************************************)
EXTENDS RepairChain, SequenceTheorems, WellFoundedInduction, TLAPS

-----------------------------------------------------------------------------
(* The inductive invariant: what every artifact tells is true of the history,  *)
(* and so is whatever a command is about to write or to do.                    *)

IsList(s) == s \in Seq({s[i] : i \in DOMAIN s})

\* What a run answered is settled: no call of it is in progress.
Finished(run) ==
    /\ run \in DOMAIN runs
    /\ \A c \in Commands : command[c].phase = "calling" => command[c].run # run

Answered(run, plan, edits) ==
    /\ Finished(run)
    /\ runs[run] = [plan |-> plan, edits |-> edits]

\* An execution tells of one run: the plan it was made under, which a person had
\* approved, and what was answered to the request of that call.
TrueExecution(x) ==
    LET call == x.invocation
    IN /\ x.plan \in approved
       /\ Answered(call.run, x.plan, call.response.edits)
       /\ call.response = [request |-> call.request, edits |-> call.response.edits]
       /\ call.suggestion.spec = call.response.edits

\* A qualification binds its edits to one run and to what that run was asked.
TrueQualification(q) ==
    /\ q.plan \in approved
    /\ Answered(q.invocation.run, q.plan, q.spec)
    /\ q.suggestion.response = [request |-> q.plan.request, edits |-> q.spec]
    /\ q.editPlan = [source |-> q.plan.request.source, edits |-> q.spec]

\* A qualified application made the edits of an approved qualification.
TrueApplication(k) ==
    /\ k.qualification \in approved
    /\ TrueQualification(k.qualification)
    /\ k.application.after = k.application.before \cup Ids(k.qualification.spec)

\* A promotion plan is for a candidate that passed, and that is its target with
\* the edits of the qualification.
TruePlan(plan) ==
    /\ TrueApplication(plan.qualified)
    /\ Passing(plan.candidate)
    /\ plan.candidate = plan.evidence.candidate
    /\ plan.candidate = plan.target \cup Ids(plan.qualified.qualification.spec)

TrueReceipt(k) == \E p \in promotions : p.plan = k.plan /\ p.after = k.after

Truthful(n, content) ==
    /\ n = "execution" => TrueExecution(content)
    /\ n = "qualification" => TrueQualification(content)
    /\ n = "qualified" => TrueApplication(content)
    /\ n = "evidence" => Passing(content.candidate)
    /\ n = "promotion_plan" => TruePlan(content)
    /\ n = "receipt" => TrueReceipt(content)

\* Whatever artifact is there, whole, is truthful: whichever commands wrote it,
\* whatever was removed, torn or edited since.
FilesInv == \A n \in Names : Whole(n) => Truthful(n, file[n])

\* Whatever generation was begun with a plan, the plan was approved by then.
RunsInv ==
    /\ IsList(runs)
    /\ \A i \in DOMAIN runs : runs[i].plan = Absent \/ runs[i].plan \in approved

\* The outputs a command has computed stay truthful until it writes them.
TrueOutputs(outputs) ==
    /\ IsList(outputs)
    /\ \A i \in DOMAIN outputs :
           outputs[i][1] \in Reports /\ Truthful(outputs[i][1], outputs[i][2])

Promotable(plan, bytes) == TruePlan(plan) /\ plan \in approved /\ bytes = plan.candidate

TrueCommand(k) ==
    /\ k.phase \in Phases
    /\ k.phase = "calling" =>
           /\ k.run \in DOMAIN runs
           /\ k.runtime = "openai" => k.plan \in approved
           /\ k.plan = Absent \/ k.plan \in approved
    /\ k.phase \in {"check", "write"} => TrueOutputs(k.outputs)
    /\ k.phase = "write" => k.outputs # <<>>
    /\ k.phase = "candidate" => \/ k.next.phase = "check" /\ TrueOutputs(k.next.outputs)
                                \/ k.next.phase = "report"
    /\ k.phase = "replace" => Promotable(k.plan, k.bytes) /\ k.bytes \in SUBSET Edits
    /\ k.phase = "confirm" => TrueReceipt(Receipt(k.plan))

\* No two calls are of one run.
CommandsInv ==
    /\ DOMAIN command = Commands
    /\ \A c \in Commands : TrueCommand(command[c])
    /\ \A c, d \in Commands :
           command[c].phase = "calling" /\ command[d].phase = "calling" /\ c # d =>
               command[c].run # command[d].run

PromotionsInv == \A p \in promotions : Promotable(p.plan, p.after)

RepairInv == TypeOK /\ FilesInv /\ RunsInv /\ CommandsInv /\ PromotionsInv

-----------------------------------------------------------------------------
(* Outputs.                                                                    *)

\* A nonempty set of naturals has a least member.
LEMMA MinIsMember ==
    ASSUME NEW S \in SUBSET Nat, S # {}
    PROVE  Min(S) \in S
<1> DEFINE R == {ss \in Nat \X Nat : ss[1] < ss[2]}
<1>1. IsWellFoundedOn(R, Nat)
  BY NatLessThanWellFounded DEF OpToRel
<1> HIDE DEF R
<1>2. \E x \in S : \A y \in S : ~ (<<y, x>> \in R)
  BY <1>1, WFMin
<1>3. \A x, y \in Nat : y < x => <<y, x>> \in R
  BY DEF R
<1>4. PICK x \in S : \A y \in S : ~ (<<y, x>> \in R)
  BY <1>2
<1>5. S \subseteq Nat /\ x \in Nat
  OBVIOUS
<1>6. \A y \in S : ~ (y < x)
  BY <1>3, <1>4, <1>5, Zenon
<1>7. \A y \in S : x =< y
  BY <1>5, <1>6
<1> QED  BY <1>7 DEF Min

LEMMA ListFacts ==
    ASSUME NEW s, IsList(s)
    PROVE  Len(s) \in Nat /\ DOMAIN s = 1 .. Len(s)
BY DEF IsList

\* What is left to write is some of the outputs.
LEMMA PendingIsSome ==
    ASSUME NEW files, NEW outputs, IsList(outputs)
    PROVE  \/ Pending(files, outputs) = Idle
           \/ \E rest : /\ Pending(files, outputs) = Write("write", rest)
                        /\ IsList(rest) /\ rest # <<>>
                        /\ \A i \in DOMAIN rest : \E j \in DOMAIN outputs : rest[i] = outputs[j]
<1> DEFINE missing == {i \in DOMAIN outputs : files[outputs[i][1]] = Absent}
           S == {outputs[i] : i \in DOMAIN outputs}
           rest == SubSeq(outputs, Min(missing), Len(outputs))
<1>1. Len(outputs) \in Nat /\ DOMAIN outputs = 1 .. Len(outputs) /\ outputs \in Seq(S)
  BY ListFacts DEF IsList
<1>2. CASE missing = {}
  BY <1>2 DEF Pending
<1>3. CASE missing # {}
  <2>1. Min(missing) \in 1 .. Len(outputs)
    <3>1. missing \in SUBSET Nat
      BY <1>1
    <3> HIDE DEF missing
    <3>2. Min(missing) \in missing
      BY <1>3, <3>1, MinIsMember
    <3> QED  BY <1>1, <3>2 DEF missing
  <2> DEFINE m == Min(missing)
  <2>2. m \in 1 .. Len(outputs)
    BY <2>1
  <2> HIDE DEF m
  <2>3. /\ SubSeq(outputs, m, Len(outputs)) \in Seq(S)
        /\ Len(SubSeq(outputs, m, Len(outputs))) = Len(outputs) - m + 1
        /\ \A i \in 1 .. Len(outputs) - m + 1 :
              SubSeq(outputs, m, Len(outputs))[i] = outputs[m + i - 1]
    BY <1>1, <2>2, SubSeqProperties
  <2>4. /\ rest \in Seq(S) /\ Len(rest) = Len(outputs) - m + 1
        /\ \A i \in 1 .. Len(outputs) - m + 1 : rest[i] = outputs[m + i - 1]
    BY <2>3 DEF m
  <2>5. Pending(files, outputs) = Write("write", rest)
    BY <1>3 DEF Pending
  <2> HIDE DEF rest, S
  <2>6. DOMAIN rest = 1 .. Len(rest) /\ rest # <<>>
    BY <1>1, <2>2, <2>4
  <2>7. IsList(rest)
    BY <2>4, <2>6, SeqOfRange, IsASeq DEF IsList
  <2>8. \A i \in DOMAIN rest : \E j \in DOMAIN outputs : rest[i] = outputs[j]
    <3> SUFFICES ASSUME NEW i \in 1 .. Len(outputs) - m + 1
                 PROVE  \E j \in DOMAIN outputs : rest[i] = outputs[j]
      BY <2>4, <2>6
    <3>1. m + i - 1 \in DOMAIN outputs
      BY <1>1, <2>2
    <3> QED  BY <2>4, <3>1
  <2> QED  BY <2>5, <2>6, <2>7, <2>8
<1> QED  BY <1>2, <1>3

LEMMA TailIsSome ==
    ASSUME NEW s, IsList(s), s # <<>>
    PROVE  /\ IsList(Tail(s))
           /\ \A i \in DOMAIN Tail(s) : \E j \in DOMAIN s : Tail(s)[i] = s[j]
           /\ 1 \in DOMAIN s /\ Head(s) = s[1]
<1> DEFINE S == {s[i] : i \in DOMAIN s}
<1>1. s \in Seq(S)
  BY DEF IsList
<1>2. /\ Tail(s) \in Seq(S) /\ Len(Tail(s)) = Len(s) - 1
      /\ \A i \in 1 .. Len(Tail(s)) : Tail(s)[i] = s[i + 1]
      /\ Head(s) = s[1]
  BY <1>1, HeadTailProperties
<1>3. Len(s) \in Nat /\ Len(s) > 0 /\ DOMAIN s = 1 .. Len(s)
  BY <1>1, EmptySeq, LenProperties
<1> DEFINE t == Tail(s)
<1>4. t \in Seq(S) /\ DOMAIN t = 1 .. Len(s) - 1
  BY <1>2, <1>3, LenProperties
<1>5. \A i \in DOMAIN t : i + 1 \in DOMAIN s /\ t[i] = s[i + 1]
  BY <1>2, <1>3, <1>4
<1> HIDE DEF t, S
<1>6. IsList(t)
  BY <1>3, <1>4, IsASeq DEF IsList
<1>7. \A i \in DOMAIN t : \E j \in DOMAIN s : t[i] = s[j]
  BY <1>5
<1> QED  BY <1>2, <1>3, <1>6, <1>7 DEF t

-----------------------------------------------------------------------------
(* What was true stays true.                                                   *)

\* Approvals, promotions and runs are only added, and a finished run is not touched.
HistoryKept ==
    /\ approved \subseteq approved' /\ promotions \subseteq promotions'
    /\ \A run \in DOMAIN runs : /\ run \in DOMAIN runs'
                                /\ Finished(run) => Finished(run)' /\ runs'[run] = runs[run]

LEMMA AnsweredKept ==
    ASSUME HistoryKept, NEW run, NEW plan, NEW edits, Answered(run, plan, edits)
    PROVE  Answered(run, plan, edits)'
BY DEF HistoryKept, Answered, Finished

LEMMA TrueQualificationKept ==
    ASSUME HistoryKept, NEW q, TrueQualification(q)
    PROVE  TrueQualification(q)'
<1>1. Answered(q.invocation.run, q.plan, q.spec)'
  BY AnsweredKept DEF TrueQualification
<1> QED  BY <1>1 DEF TrueQualification, HistoryKept

LEMMA TruePlanKept ==
    ASSUME HistoryKept, NEW plan, TruePlan(plan)
    PROVE  TruePlan(plan)'
<1>1. TrueQualification(plan.qualified.qualification)'
  BY TrueQualificationKept DEF TruePlan, TrueApplication
<1> QED  BY <1>1 DEF TruePlan, TrueApplication, HistoryKept

LEMMA TruthfulKept ==
    ASSUME HistoryKept, NEW n, NEW content, Truthful(n, content)
    PROVE  Truthful(n, content)'
<1>1. n = "execution" => TrueExecution(content)'
  <2> SUFFICES ASSUME TrueExecution(content)  PROVE TrueExecution(content)'
    BY DEF Truthful
  <2>1. Answered(content.invocation.run, content.plan, content.invocation.response.edits)'
    BY AnsweredKept DEF TrueExecution
  <2> QED  BY <2>1 DEF TrueExecution, HistoryKept
<1>2. n = "qualification" => TrueQualification(content)'
  BY TrueQualificationKept DEF Truthful
<1>3. n = "qualified" => TrueApplication(content)'
  <2> SUFFICES ASSUME TrueApplication(content)  PROVE TrueApplication(content)'
    BY DEF Truthful
  <2>1. TrueQualification(content.qualification)'
    BY TrueQualificationKept DEF TrueApplication
  <2> QED  BY <2>1 DEF TrueApplication, HistoryKept
<1>4. n = "promotion_plan" => TruePlan(content)'
  BY TruePlanKept DEF Truthful
<1>5. n = "receipt" => TrueReceipt(content)'
  BY DEF Truthful, TrueReceipt, HistoryKept
<1>6. n = "evidence" => Passing(content.candidate)
  BY DEF Truthful
<1> QED  BY <1>1, <1>2, <1>3, <1>4, <1>5, <1>6 DEF Truthful

LEMMA TrueOutputsKept ==
    ASSUME HistoryKept, NEW outputs, TrueOutputs(outputs)
    PROVE  TrueOutputs(outputs)'
<1> SUFFICES ASSUME NEW i \in DOMAIN outputs
             PROVE  Truthful(outputs[i][1], outputs[i][2])'
  BY DEF TrueOutputs
<1>1. Truthful(outputs[i][1], outputs[i][2])
  BY DEF TrueOutputs
<1> QED  BY <1>1, TruthfulKept

LEMMA PromotableKept ==
    ASSUME HistoryKept, NEW plan, NEW bytes, Promotable(plan, bytes)
    PROVE  Promotable(plan, bytes)'
<1>1. TruePlan(plan)'
  BY TruePlanKept DEF Promotable
<1> QED  BY <1>1 DEF Promotable, HistoryKept

LEMMA TrueCommandKept ==
    ASSUME HistoryKept, NEW k, TrueCommand(k)
    PROVE  TrueCommand(k)'
<1>1. k.phase \in {"check", "write"} => TrueOutputs(k.outputs)'
  BY TrueOutputsKept DEF TrueCommand
<1>2. k.phase = "candidate" => \/ k.next.phase = "check" /\ TrueOutputs(k.next.outputs)'
                               \/ k.next.phase = "report"
  BY TrueOutputsKept DEF TrueCommand
<1>3. k.phase = "replace" => Promotable(k.plan, k.bytes)'
  BY PromotableKept DEF TrueCommand
<1>4. k.phase = "confirm" => TrueReceipt(Receipt(k.plan))'
  BY DEF TrueCommand, TrueReceipt, HistoryKept, Receipt
<1>5. k.phase = "calling" => /\ k.run \in DOMAIN runs'
                             /\ k.runtime = "openai" => k.plan \in approved'
                             /\ k.plan = Absent \/ k.plan \in approved'
  BY DEF TrueCommand, HistoryKept
<1> QED  BY <1>1, <1>2, <1>3, <1>4, <1>5 DEF TrueCommand

LEMMA PromotionsUnchanged ==
    ASSUME HistoryKept, PromotionsInv, UNCHANGED promotions
    PROVE  PromotionsInv'
<1> SUFFICES ASSUME NEW p \in promotions  PROVE Promotable(p.plan, p.after)'
  BY DEF PromotionsInv
<1>1. Promotable(p.plan, p.after)
  BY DEF PromotionsInv
<1> QED  BY <1>1, PromotableKept

\* One file is written, and what it holds then is truthful.
LEMMA FileWritten ==
    ASSUME TypeOK, FilesInv, HistoryKept, NEW m \in Names, NEW content,
           file' = [file EXCEPT ![m] = content],
           content \in {Absent, Torn} \/ Truthful(m, content)'
    PROVE  FilesInv'
<1> SUFFICES ASSUME NEW n \in Names, file'[n] \notin {Absent, Torn}
             PROVE  Truthful(n, file[n])'
  BY DEF FilesInv, Whole
<1>1. DOMAIN file = Names
  BY DEF TypeOK
<1>2. CASE n = m
  <2>1. file'[n] = content
    BY <1>1, <1>2
  <2> QED  BY <1>2, <2>1
<1>3. CASE n # m
  <2>1. PICK old : old = file[n]
    OBVIOUS
  <2>2. file'[n] = old /\ Truthful(n, old)
    BY <1>1, <1>3, <2>1 DEF FilesInv, Whole
  <2>3. Truthful(n, old)'
    BY <2>2, TruthfulKept
  <2> QED  BY <2>2, <2>3
<1> QED  BY <1>2, <1>3

LEMMA FilesLost ==
    ASSUME TypeOK, FilesInv, HistoryKept,
           \A n \in Names : file'[n] = file[n] \/ file'[n] \in {Absent, Torn}
    PROVE  FilesInv'
<1> SUFFICES ASSUME NEW n \in Names, file'[n] \notin {Absent, Torn}
             PROVE  Truthful(n, file[n])'
  BY DEF FilesInv, Whole
<1>1. PICK old : old = file[n]
  OBVIOUS
<1>2. file'[n] = old /\ Truthful(n, old)
  BY <1>1 DEF FilesInv, Whole
<1>3. Truthful(n, old)'
  BY <1>2, TruthfulKept
<1> QED  BY <1>2, <1>3

\* One command moves on, not into a call.
LEMMA CommandMoved ==
    ASSUME CommandsInv, HistoryKept, NEW c \in Commands, NEW k,
           command' = [command EXCEPT ![c] = k], k.phase # "calling", TrueCommand(k)'
    PROVE  CommandsInv'
<1>1. DOMAIN command = Commands
  BY DEF CommandsInv
<1>2. DOMAIN command' = Commands /\ command'[c] = k
      /\ \A d \in Commands \ {c} : command'[d] = command[d]
  BY <1>1
<1>3. ASSUME NEW d \in Commands  PROVE TrueCommand(command[d])'
  <2>1. CASE d = c
    BY <1>2, <2>1
  <2>2. CASE d # c
    <3>1. PICK old : old = command[d]
      OBVIOUS
    <3>2. command'[d] = old /\ TrueCommand(old)
      BY <1>2, <2>2, <3>1 DEF CommandsInv
    <3>3. TrueCommand(old)'
      BY <3>2, TrueCommandKept
    <3> QED  BY <3>2, <3>3
  <2> QED  BY <2>1, <2>2
<1>4. ASSUME NEW a \in Commands, NEW b \in Commands, command'[a].phase = "calling",
             command'[b].phase = "calling", a # b
      PROVE  command'[a].run # command'[b].run
  BY <1>2, <1>4 DEF CommandsInv
<1> QED  BY <1>2, <1>3, <1>4 DEF CommandsInv

LEMMA HistoryByMove ==
    ASSUME DOMAIN command = Commands, NEW c \in Commands, NEW k, k.phase # "calling",
           command' = [command EXCEPT ![c] = k], UNCHANGED runs,
           approved \subseteq approved', promotions \subseteq promotions'
    PROVE  HistoryKept
BY DEF HistoryKept, Finished

-----------------------------------------------------------------------------
(* Commands that compute outputs and begin to write them.                      *)

LEMMA TroubleType ==
    ASSUME TypeOK, Trouble \/ UNCHANGED trouble
    PROVE  trouble' \in 0 .. MaxTrouble
BY RepairAssumption DEF TypeOK, Trouble

LEMMA StartType ==
    ASSUME TypeOK, NEW c, Start(c)
    PROVE  trouble' \in 0 .. MaxTrouble
BY TroubleType DEF Start

\* Neither files nor runs change.
LEMMA TypesUnchanged ==
    ASSUME TypeOK, CommandsInv', UNCHANGED <<file, runs>>, trouble' \in 0 .. MaxTrouble
    PROVE  TypeOK'
BY DEF TypeOK, CommandsInv, TrueCommand

LEMMA IdleIsTrue == TrueCommand(Idle) /\ Idle.phase # "calling" /\ Idle.phase = "idle"
BY DEF TrueCommand, Idle, Phases

LEMMA BeginKeeps ==
    ASSUME RepairInv, NEW c \in Commands, NEW next, next.phase # "calling",
           TrueCommand(next), Begin(c, next)
    PROVE  RepairInv'
<1> USE DEF RepairInv
<1>1. /\ UNCHANGED <<file, approved, runs, promotions>>
      /\ command' = [command EXCEPT ![c] = next]
      /\ trouble' \in 0 .. MaxTrouble
  BY StartType DEF Begin
<1>2. DOMAIN command = Commands
  BY DEF CommandsInv
<1>3. HistoryKept
  BY <1>1, <1>2, HistoryByMove
<1>4. CommandsInv'
  BY <1>1, <1>3, TrueCommandKept, CommandMoved
<1>5. FilesInv'
  BY <1>1, <1>3, FilesLost
<1>6. PromotionsInv'
  BY <1>1, <1>3, PromotionsUnchanged
<1>7. RunsInv' /\ TypeOK'
  BY <1>1, <1>4, TypesUnchanged DEF RunsInv
<1> QED  BY <1>4, <1>5, <1>6, <1>7

LEMMA ListsOf ==
    ASSUME NEW a, NEW b, NEW c
    PROVE  /\ IsList(<<a>>) /\ DOMAIN <<a>> = {1}
           /\ IsList(<<a, b>>) /\ DOMAIN <<a, b>> = {1, 2}
           /\ IsList(<<a, b, c>>) /\ DOMAIN <<a, b, c>> = {1, 2, 3}
<1>1. IsList(<<a>>) /\ DOMAIN <<a>> = {1}
  BY DEF IsList
<1>2. IsList(<<a, b>>) /\ DOMAIN <<a, b>> = {1, 2}
  BY DEF IsList
<1>3. IsList(<<a, b, c>>) /\ DOMAIN <<a, b, c>> = {1, 2, 3}
  BY DEF IsList
<1> QED  BY <1>1, <1>2, <1>3

\* Most artifacts tell nothing of the history.
Plain == Reports \ {"execution", "qualification", "qualified", "evidence",
                    "promotion_plan", "receipt"}

LEMMA PlainIsTruthful ==
    ASSUME NEW n \in Plain, NEW content
    PROVE  n \in Reports /\ Truthful(n, content)
BY DEF Plain, Truthful

LEMMA PlainNames ==
    /\ "request" \in Plain /\ "provider_plan" \in Plain /\ "envelope" \in Plain
    /\ "response" \in Plain /\ "spec" \in Plain /\ "suggestion" \in Plain
    /\ "invocation" \in Plain /\ "edit_plan" \in Plain /\ "planning" \in Plain
    /\ "application" \in Plain
BY DEF Plain, Reports

LEMMA OneOutput ==
    ASSUME NEW n, NEW content, n \in Reports, Truthful(n, content)
    PROVE  /\ TrueOutputs(<<Output(n, content)>>)
           /\ TrueCommand(Write("check", <<Output(n, content)>>))
           /\ Write("check", <<Output(n, content)>>).phase # "calling"
<1> DEFINE outputs == <<Output(n, content)>>
<1>1. outputs[1][1] = n /\ outputs[1][2] = content
  BY DEF Output
<1>2. IsList(outputs) /\ DOMAIN outputs = {1}
  BY ListsOf
<1>3. TrueOutputs(outputs)
  BY <1>1, <1>2 DEF TrueOutputs
<1> HIDE DEF outputs
<1>4. TrueCommand(Write("check", outputs)) /\ Write("check", outputs).phase # "calling"
  BY <1>3 DEF Write, TrueCommand, Phases
<1> QED  BY <1>3, <1>4 DEF outputs

LEMMA TwoOutputs ==
    ASSUME NEW n, NEW x, NEW m, NEW y,
           n \in Reports, Truthful(n, x), m \in Reports, Truthful(m, y)
    PROVE  /\ TrueOutputs(<<Output(n, x), Output(m, y)>>)
           /\ TrueCommand(Write("check", <<Output(n, x), Output(m, y)>>))
           /\ Write("check", <<Output(n, x), Output(m, y)>>).phase # "calling"
<1> DEFINE outputs == <<Output(n, x), Output(m, y)>>
<1>1. /\ outputs[1][1] = n /\ outputs[1][2] = x
      /\ outputs[2][1] = m /\ outputs[2][2] = y
  BY DEF Output
<1>2. IsList(outputs) /\ DOMAIN outputs = {1, 2}
  BY ListsOf
<1> HIDE DEF outputs
<1>3. TrueOutputs(outputs)
  BY <1>1, <1>2 DEF TrueOutputs
<1>4. TrueCommand(Write("check", outputs)) /\ Write("check", outputs).phase # "calling"
  BY <1>3 DEF Write, TrueCommand, Phases
<1> QED  BY <1>3, <1>4 DEF outputs

LEMMA ThreeOutputs ==
    ASSUME NEW n, NEW x, NEW m, NEW y, NEW l, NEW z,
           n \in Reports, Truthful(n, x), m \in Reports, Truthful(m, y),
           l \in Reports, Truthful(l, z)
    PROVE  /\ TrueCommand(Write("check", <<Output(n, x), Output(m, y), Output(l, z)>>))
           /\ Write("check", <<Output(n, x), Output(m, y), Output(l, z)>>).phase # "calling"
<1> DEFINE outputs == <<Output(n, x), Output(m, y), Output(l, z)>>
<1>1. /\ outputs[1][1] = n /\ outputs[1][2] = x
      /\ outputs[2][1] = m /\ outputs[2][2] = y
      /\ outputs[3][1] = l /\ outputs[3][2] = z
  BY DEF Output
<1>2. IsList(outputs) /\ DOMAIN outputs = {1, 2, 3}
  BY ListsOf
<1> HIDE DEF outputs
<1>3. TrueOutputs(outputs)
  BY <1>1, <1>2 DEF TrueOutputs
<1>4. TrueCommand(Write("check", outputs)) /\ Write("check", outputs).phase # "calling"
  BY <1>3 DEF Write, TrueCommand, Phases
<1> QED  BY <1>3, <1>4 DEF outputs

LEMMA PlainCommands ==
    ASSUME RepairInv, NEW c \in Commands,
           PrepareRequest(c) \/ PlanProvider(c) \/ AcceptResponse(c) \/ DraftEdits(c)
    PROVE  RepairInv'
<1> USE PlainNames, PlainIsTruthful
<1>1. CASE PrepareRequest(c)
  BY <1>1, OneOutput, BeginKeeps DEF PrepareRequest
<1>2. CASE PlanProvider(c)
  BY <1>2, OneOutput, BeginKeeps DEF PlanProvider
<1>3. CASE AcceptResponse(c)
  BY <1>3, TwoOutputs, BeginKeeps DEF AcceptResponse
<1>4. CASE DraftEdits(c)
  BY <1>4, TwoOutputs, BeginKeeps DEF DraftEdits
<1> QED  BY <1>1, <1>2, <1>3, <1>4

\* What is qualified is what the run of the execution answered.
LEMMA QualificationIsTruthful ==
    ASSUME FilesInv, ProviderLineage, PlanIsSuggested
    PROVE  Truthful("qualification", Qualification)
<1>1. TrueExecution(file["execution"])
  BY DEF FilesInv, ProviderLineage, Truthful, Names, Reports
<1> DEFINE q == Qualification
<1>2. /\ q.plan = file["provider_plan"] /\ q.invocation = file["invocation"]
      /\ q.suggestion = file["suggestion"] /\ q.spec = file["spec"]
      /\ q.editPlan = [source |-> file["source"], edits |-> InPlace(file["spec"])]
  BY DEF Qualification, EditPlan
<1>3. /\ InPlace(file["spec"]) = file["spec"]
      /\ file["source"] = file["suggestion"].request.source
  BY DEF PlanIsSuggested, EditPlan
<1> HIDE DEF q
<1>4. /\ q.plan = file["execution"].plan /\ q.invocation = file["execution"].invocation
      /\ q.invocation.request = q.plan.request
      /\ q.suggestion = q.invocation.suggestion
      /\ q.suggestion.request = q.plan.request
      /\ q.suggestion.response = q.invocation.response
      /\ q.suggestion.spec = q.spec
  BY <1>2 DEF ProviderLineage
<1>5. q.invocation.response.edits = q.spec
  BY <1>1, <1>4 DEF TrueExecution
<1>6. q.plan \in approved /\ Answered(q.invocation.run, q.plan, q.spec)
  BY <1>1, <1>4, <1>5 DEF TrueExecution
<1>7. q.suggestion.response = [request |-> q.plan.request, edits |-> q.spec]
  BY <1>1, <1>4, <1>5 DEF TrueExecution
<1>8. q.editPlan = [source |-> q.plan.request.source, edits |-> q.spec]
  BY <1>2, <1>3, <1>4
<1>9. TrueQualification(q)
  BY <1>6, <1>7, <1>8 DEF TrueQualification
<1> QED  BY <1>9 DEF Truthful, q

LEMMA QualifyKeeps ==
    ASSUME RepairInv, NEW c \in Commands, Qualify(c)
    PROVE  RepairInv'
<1>1. Truthful("qualification", Qualification)
  BY QualificationIsTruthful DEF Qualify, RepairInv
<1>2. "qualification" \in Reports
  BY DEF Reports
<1>3. TrueCommand(Write("check",
           << Output("edit_plan", EditPlan), Output("planning", Planning),
              Output("qualification", Qualification) >>))
  BY <1>1, <1>2, ThreeOutputs, PlainNames, PlainIsTruthful
<1>4. Write("check",
           << Output("edit_plan", EditPlan), Output("planning", Planning),
              Output("qualification", Qualification) >>).phase # "calling"
  BY <1>1, <1>2, ThreeOutputs, PlainNames, PlainIsTruthful
<1> QED  BY <1>3, <1>4, BeginKeeps DEF Qualify

-----------------------------------------------------------------------------
(* Writing.                                                                    *)

\* A command writes one file, other than the production source, and moves on.
LEMMA WriteKeeps ==
    ASSUME RepairInv, NEW c \in Commands, NEW k, NEW m \in Names \ {"source"}, NEW content,
           k.phase # "calling", TrueCommand(k),
           content \in {Absent, Torn} \/ Truthful(m, content),
           file' = [file EXCEPT ![m] = content], command' = [command EXCEPT ![c] = k],
           UNCHANGED <<approved, runs, promotions, trouble>>
    PROVE  RepairInv'
<1> USE DEF RepairInv
<1>1. DOMAIN command = Commands
  BY DEF CommandsInv
<1>2. HistoryKept
  BY <1>1, HistoryByMove
<1>3. CommandsInv'
  BY <1>2, TrueCommandKept, CommandMoved
<1>4. FilesInv'
  BY <1>2, TruthfulKept, FileWritten
<1>5. PromotionsInv'
  BY <1>2, PromotionsUnchanged
<1>6. RunsInv'
  BY DEF RunsInv
<1>7. TypeOK'
  BY <1>3 DEF TypeOK, CommandsInv, TrueCommand
<1> QED  BY <1>3, <1>4, <1>5, <1>6, <1>7

\* Only a command moves on.
LEMMA MoveKeeps ==
    ASSUME RepairInv, NEW c \in Commands, NEW k, k.phase # "calling", TrueCommand(k),
           command' = [command EXCEPT ![c] = k],
           UNCHANGED <<file, approved, runs, promotions>>, trouble' \in 0 .. MaxTrouble
    PROVE  RepairInv'
<1> USE DEF RepairInv
<1>1. DOMAIN command = Commands
  BY DEF CommandsInv
<1>2. HistoryKept
  BY <1>1, HistoryByMove
<1>3. CommandsInv'
  BY <1>2, TrueCommandKept, CommandMoved
<1>4. FilesInv'
  BY <1>2, FilesLost
<1>5. PromotionsInv'
  BY <1>2, PromotionsUnchanged
<1>6. RunsInv' /\ TypeOK'
  BY <1>3, TypesUnchanged DEF RunsInv
<1> QED  BY <1>3, <1>4, <1>5, <1>6

LEMMA TroubleUnchanged == TypeOK => trouble \in 0 .. MaxTrouble
BY DEF TypeOK

\* What is left of truthful outputs is truthful.
LEMMA PendingIsTrue ==
    ASSUME NEW files, NEW outputs, TrueOutputs(outputs)
    PROVE  TrueCommand(Pending(files, outputs)) /\ Pending(files, outputs).phase # "calling"
<1>1. IsList(outputs)
  BY DEF TrueOutputs
<1>2. CASE Pending(files, outputs) = Idle
  BY <1>2, IdleIsTrue
<1>3. ASSUME NEW rest, Pending(files, outputs) = Write("write", rest),
             IsList(rest), rest # <<>>,
             \A i \in DOMAIN rest : \E j \in DOMAIN outputs : rest[i] = outputs[j]
      PROVE  TrueCommand(Pending(files, outputs)) /\ Pending(files, outputs).phase # "calling"
  <2>1. TrueOutputs(rest)
    BY <1>3 DEF TrueOutputs
  <2>2. TrueCommand(Write("write", rest)) /\ Write("write", rest).phase # "calling"
    BY <1>3, <2>1 DEF Write, TrueCommand, Phases
  <2> QED  BY <1>3, <2>2
<1> QED  BY <1>1, <1>2, <1>3, PendingIsSome

LEMMA CheckOutputsKeeps ==
    ASSUME RepairInv, NEW c \in Commands, CheckOutputs(c)
    PROVE  RepairInv'
<1>1. DOMAIN command = Commands /\ TrueCommand(command[c]) /\ command[c].phase = "check"
  BY DEF RepairInv, CommandsInv, CheckOutputs
<1>2. TrueOutputs(command[c].outputs)
  BY <1>1 DEF TrueCommand
<1>3. PICK k : /\ command' = [command EXCEPT ![c] = k]
               /\ k = Pending(file, command[c].outputs) \/ k = Idle
  BY <1>1 DEF CheckOutputs
<1>4. TrueCommand(k) /\ k.phase # "calling"
  BY <1>2, <1>3, PendingIsTrue, IdleIsTrue
<1>5. UNCHANGED <<file, approved, runs, promotions>> /\ trouble' \in 0 .. MaxTrouble
  BY TroubleUnchanged DEF CheckOutputs, RepairInv
<1> QED  BY <1>3, <1>4, <1>5, MoveKeeps

LEMMA WriteOutputKeeps ==
    ASSUME RepairInv, NEW c \in Commands, WriteOutput(c)
    PROVE  RepairInv'
<1>1. DOMAIN command = Commands /\ TrueCommand(command[c]) /\ command[c].phase = "write"
  BY DEF RepairInv, CommandsInv, WriteOutput
<1> DEFINE outputs == command[c].outputs
<1>2. TrueOutputs(outputs) /\ outputs # <<>> /\ IsList(outputs)
  BY <1>1 DEF TrueCommand, TrueOutputs
<1> HIDE DEF outputs
<1>3. /\ 1 \in DOMAIN outputs /\ Head(outputs) = outputs[1]
      /\ IsList(Tail(outputs))
      /\ \A i \in DOMAIN Tail(outputs) : \E j \in DOMAIN outputs : Tail(outputs)[i] = outputs[j]
  BY <1>2, TailIsSome
<1>4. TrueOutputs(Tail(outputs))
  BY <1>2, <1>3 DEF TrueOutputs
<1>5. PICK result : /\ result \in Written(Head(outputs)[1], Head(outputs)[2])
                    /\ file' = [file EXCEPT ![Head(outputs)[1]] = result]
  BY DEF WriteOutput, outputs
<1>6. PICK m, content : m = outputs[1][1] /\ content = outputs[1][2]
  OBVIOUS
<1>7. m \in Names \ {"source"} /\ Truthful(m, content)
  BY <1>2, <1>3, <1>6 DEF TrueOutputs, Names, Reports
<1>8. file' = [file EXCEPT ![m] = result] /\ (result = content \/ result = Torn)
  BY <1>3, <1>5, <1>6 DEF Written
<1>9. PICK k : k = Pending(file', Tail(outputs))
  OBVIOUS
<1>10. TrueCommand(k) /\ k.phase # "calling"
  BY <1>4, <1>9, PendingIsTrue
<1>11. command' = [command EXCEPT ![c] = k]
  BY <1>1, <1>9 DEF WriteOutput, outputs
<1>12. UNCHANGED <<approved, runs, promotions, trouble>>
  BY DEF WriteOutput
<1> QED  BY <1>7, <1>8, <1>10, <1>11, <1>12, WriteKeeps

LEMMA WriteCandidateKeeps ==
    ASSUME RepairInv, NEW c \in Commands, WriteCandidate(c)
    PROVE  RepairInv'
<1>1. DOMAIN command = Commands /\ TrueCommand(command[c]) /\ command[c].phase = "candidate"
  BY DEF RepairInv, CommandsInv, WriteCandidate
<1>2. PICK k : k = command[c].next
  OBVIOUS
<1>3. \/ k.phase = "check" /\ TrueOutputs(k.outputs)
      \/ k.phase = "report"
  BY <1>1, <1>2 DEF TrueCommand
<1>4. TrueCommand(k) /\ k.phase # "calling"
  BY <1>3 DEF TrueCommand, Phases
<1>5. PICK result : file' = [file EXCEPT !["candidate"] = result]
  BY DEF WriteCandidate
<1>6. "candidate" \in Names \ {"source"} /\ Truthful("candidate", result)
  BY DEF Names, Truthful
<1>7. command' = [command EXCEPT ![c] = k] /\ UNCHANGED <<approved, runs, promotions, trouble>>
  BY <1>1, <1>2 DEF WriteCandidate
<1> QED  BY <1>4, <1>5, <1>6, <1>7, WriteKeeps

LEMMA WriteReportKeeps ==
    ASSUME RepairInv, NEW c \in Commands, WriteReport(c)
    PROVE  RepairInv'
<1>1. PICK content : content = command[c].content
  OBVIOUS
<1>2. /\ file' = [file EXCEPT !["application"] = content]
      /\ command' = [command EXCEPT ![c] = Idle]
      /\ UNCHANGED <<approved, runs, promotions, trouble>>
  BY <1>1 DEF WriteReport
<1>3. "application" \in Names \ {"source"} /\ Truthful("application", content)
  BY DEF Names, Reports, Truthful
<1> QED  BY <1>2, <1>3, IdleIsTrue, WriteKeeps

-----------------------------------------------------------------------------
(* Application and promotion.                                                  *)

LEMMA ApplyKeeps ==
    ASSUME RepairInv, NEW c \in Commands, NEW next, Apply(c, next), TrueCommand(next),
           next.phase \in {"check", "report"}
    PROVE  RepairInv'
<1>1. CASE Begin(c, next)
  BY <1>1, BeginKeeps
<1>2. CASE Begin(c, [phase |-> "candidate", bytes |-> Repaired, next |-> next])
  <2>1. PICK k : k = [phase |-> "candidate", bytes |-> Repaired, next |-> next]
    OBVIOUS
  <2>2. k.phase = "candidate" /\ k.next = next
    BY <2>1
  <2>3. TrueCommand(k)
    BY <2>2 DEF TrueCommand, Phases
  <2>4. Begin(c, k)
    BY <1>2, <2>1
  <2> QED  BY <2>2, <2>3, <2>4, BeginKeeps
<1> QED  BY <1>1, <1>2 DEF Apply

LEMMA ApplyReviewedKeeps ==
    ASSUME RepairInv, NEW c \in Commands, ApplyReviewed(c)
    PROVE  RepairInv'
<1>1. PICK k : k = [phase |-> "report", content |-> Application]
  OBVIOUS
<1>2. k.phase = "report" /\ TrueCommand(k)
  BY <1>1 DEF TrueCommand, Phases
<1>3. Apply(c, k)
  BY <1>1 DEF ApplyReviewed
<1> QED  BY <1>2, <1>3, ApplyKeeps

\* The edits that are applied are those of the approved qualification.
LEMMA ApplicationIsTruthful ==
    ASSUME FilesInv, ReviewArtifactsFit, Approved("qualification")
    PROVE  Truthful("qualified", Qualified)
<1>1. TrueQualification(file["qualification"])
  BY DEF FilesInv, Approved, Truthful, Names, Reports
<1>2. file["qualification"] \in approved
  BY DEF Approved
<1>3. file["edit_plan"].edits = file["qualification"].spec
  BY <1>1 DEF ReviewArtifactsFit, TrueQualification
<1>4. /\ Qualified.qualification = file["qualification"]
      /\ Qualified.application.after = Repaired
      /\ Qualified.application.before = file["source"]
  BY DEF Qualified, Application
<1>5. Repaired = file["source"] \cup Ids(file["qualification"].spec)
  BY <1>3 DEF Repaired
<1>6. TrueApplication(Qualified)
  BY <1>1, <1>2, <1>4, <1>5 DEF TrueApplication
<1> QED  BY <1>6 DEF Truthful

LEMMA ApplyQualifiedKeeps ==
    ASSUME RepairInv, NEW c \in Commands, ApplyQualified(c)
    PROVE  RepairInv'
<1>1. Truthful("qualified", Qualified) /\ "qualified" \in Reports
  BY ApplicationIsTruthful DEF ApplyQualified, RepairInv, Reports
<1>2. TrueCommand(Write("check", QualifiedOutputs))
  BY <1>1, TwoOutputs, PlainNames, PlainIsTruthful DEF QualifiedOutputs
<1>3. Write("check", QualifiedOutputs).phase = "check"
  BY DEF Write
<1> QED  BY <1>2, <1>3, ApplyKeeps DEF ApplyQualified

\* The evidence and the application that fit a candidate make its plan true.
LEMMA PlanIsTruthful ==
    ASSUME FilesInv, ApplicationFits, EvidenceFits
    PROVE  Truthful("promotion_plan", PromotionPlan)
<1>1. TrueApplication(file["qualified"]) /\ Passing(file["evidence"].candidate)
  BY DEF FilesInv, ApplicationFits, PromotionInputs, Truthful, Names, Reports
<1>2. /\ PromotionPlan.qualified = file["qualified"]
      /\ PromotionPlan.evidence = file["evidence"]
      /\ PromotionPlan.candidate = file["candidate"]
      /\ PromotionPlan.target = file["source"]
  BY DEF PromotionPlan
<1>3. /\ file["candidate"] = file["evidence"].candidate
      /\ file["candidate"] = file["qualified"].application.after
      /\ file["source"] = file["qualified"].application.before
  BY DEF EvidenceFits, ApplicationFits
<1>4. TruePlan(PromotionPlan)
  BY <1>1, <1>2, <1>3 DEF TruePlan, TrueApplication
<1> QED  BY <1>4 DEF Truthful

LEMMA PlanPromotionKeeps ==
    ASSUME RepairInv, NEW c \in Commands, PlanPromotion(c)
    PROVE  RepairInv'
<1>1. Truthful("promotion_plan", PromotionPlan) /\ "promotion_plan" \in Reports
  BY PlanIsTruthful DEF PlanPromotion, RepairInv, Reports
<1> QED  BY <1>1, OneOutput, BeginKeeps DEF PlanPromotion

\* The edits of a run are edits there are.
LEMMA RunEdits ==
    ASSUME TypeOK, NEW run \in DOMAIN runs
    PROVE  Ids(runs[run].edits) \subseteq Edits
<1>1. CASE runs[run].edits \in Drafts
  BY <1>1 DEF Edits
<1>2. CASE runs[run].edits = <<>>
  BY <1>2 DEF Ids
<1> QED  BY <1>1, <1>2 DEF TypeOK

\* The bytes read are those of an approved, true plan.
LEMMA PreparePromotionKeeps ==
    ASSUME RepairInv, NEW c \in Commands, PreparePromotion(c)
    PROVE  RepairInv'
<1> DEFINE plan == file["promotion_plan"]
           q == plan.qualified.qualification
<1>1. TruePlan(plan) /\ plan \in approved
  BY DEF PreparePromotion, Approved, RepairInv, FilesInv, Truthful, Names, Reports
<1>2. file["candidate"] = plan.candidate /\ file["source"] = plan.target
  BY DEF PreparePromotion
<1> HIDE DEF plan
<1>3. q.invocation.run \in DOMAIN runs /\ runs[q.invocation.run].edits = q.spec
  BY <1>1 DEF TruePlan, TrueApplication, TrueQualification, Answered, Finished
<1>4. Ids(q.spec) \subseteq Edits
  BY <1>3, RunEdits DEF RepairInv
<1>5. plan.candidate \in SUBSET Edits
  BY <1>1, <1>2, <1>4 DEF RepairInv, TypeOK, TruePlan
<1>6. PICK k : k = [phase |-> "replace", plan |-> plan, bytes |-> file["candidate"]]
  OBVIOUS
<1>7. k.phase = "replace" /\ k.plan = plan /\ k.bytes = plan.candidate
  BY <1>2, <1>6
<1>8. TrueCommand(k)
  BY <1>1, <1>5, <1>7 DEF TrueCommand, Phases, Promotable
<1>9. Begin(c, k)
  BY <1>6 DEF PreparePromotion, plan
<1> QED  BY <1>7, <1>8, <1>9, BeginKeeps

LEMMA ReplaceTargetKeeps ==
    ASSUME RepairInv, NEW c \in Commands, ReplaceTarget(c)
    PROVE  RepairInv'
<1> USE DEF RepairInv
<1>1. DOMAIN command = Commands /\ TrueCommand(command[c]) /\ command[c].phase = "replace"
  BY DEF CommandsInv, ReplaceTarget
<1>2. PICK plan, bytes : plan = command[c].plan /\ bytes = command[c].bytes
  OBVIOUS
<1>3. Promotable(plan, bytes) /\ bytes \in SUBSET Edits
  BY <1>1, <1>2 DEF TrueCommand
<1>4. PICK k : k = [phase |-> "confirm", plan |-> plan]
  OBVIOUS
<1>5. PICK p : p = [plan |-> plan, before |-> file["source"], after |-> bytes]
  OBVIOUS
<1>6. /\ promotions' = promotions \cup {p}
      /\ file' = [file EXCEPT !["source"] = bytes]
      /\ command' = [command EXCEPT ![c] = k]
      /\ UNCHANGED <<approved, runs, trouble>>
  BY <1>1, <1>2, <1>4, <1>5 DEF ReplaceTarget
<1>7. p.plan = plan /\ p.after = bytes /\ p \in promotions'
  BY <1>5, <1>6
<1>8. k.phase = "confirm" /\ k.plan = plan
  BY <1>4
<1>9. HistoryKept
  BY <1>1, <1>6, <1>8, HistoryByMove
<1>10. TrueReceipt(Receipt(plan))'
  BY <1>3, <1>7 DEF TrueReceipt, Receipt, Promotable
<1>11. TrueCommand(k)'
  BY <1>8, <1>10 DEF TrueCommand, Phases
<1>12. CommandsInv'
  BY <1>6, <1>8, <1>9, <1>11, CommandMoved
<1>13. FilesInv'
  BY <1>6, <1>9, FileWritten DEF Names, Truthful
<1>14. PromotionsInv'
  <2> SUFFICES ASSUME NEW r \in promotions'  PROVE Promotable(r.plan, r.after)'
    BY DEF PromotionsInv
  <2>1. Promotable(r.plan, r.after)
    BY <1>3, <1>6, <1>7 DEF PromotionsInv
  <2> QED  BY <1>9, <2>1, PromotableKept
<1>15. RunsInv'
  BY <1>6 DEF RunsInv
<1>16. TypeOK'
  BY <1>3, <1>6, <1>12, RepairAssumption DEF TypeOK, Names, CommandsInv, TrueCommand
<1> QED  BY <1>12, <1>13, <1>14, <1>15, <1>16

LEMMA ConfirmTargetKeeps ==
    ASSUME RepairInv, NEW c \in Commands, ConfirmTarget(c)
    PROVE  RepairInv'
<1>1. DOMAIN command = Commands /\ TrueCommand(command[c]) /\ command[c].phase = "confirm"
  BY DEF RepairInv, CommandsInv, ConfirmTarget
<1>2. Truthful("receipt", Receipt(command[c].plan)) /\ "receipt" \in Reports
  BY <1>1 DEF TrueCommand, Truthful, Reports
<1>3. PICK k : /\ command' = [command EXCEPT ![c] = k]
               /\ \/ k = Idle
                  \/ k = Write("check", <<Output("receipt", Receipt(command[c].plan))>>)
  BY <1>1 DEF ConfirmTarget
<1>4. TrueCommand(k) /\ k.phase # "calling"
  BY <1>2, <1>3, OneOutput, IdleIsTrue
<1>5. UNCHANGED <<file, approved, runs, promotions>> /\ trouble' \in 0 .. MaxTrouble
  BY TroubleUnchanged DEF ConfirmTarget, RepairInv
<1> QED  BY <1>3, <1>4, <1>5, MoveKeeps

-----------------------------------------------------------------------------
(* Calls of an expert.                                                         *)

LEMMA SeqIsList ==
    ASSUME NEW S, NEW s \in Seq(S)
    PROVE  IsList(s)
<1>1. s \in [1 .. Len(s) -> S] /\ Len(s) \in Nat
  BY LenProperties
<1> QED  BY <1>1 DEF IsList

\* A new run is added; the runs there were stay as they are.
LEMMA RunAdded ==
    ASSUME IsList(runs), NEW run, runs' = Append(runs, run)
    PROVE  /\ IsList(runs')
           /\ Len(runs) \in Nat /\ DOMAIN runs = 1 .. Len(runs)
           /\ Len(runs') = Len(runs) + 1 /\ DOMAIN runs' = 1 .. Len(runs) + 1
           /\ \A i \in DOMAIN runs : runs'[i] = runs[i]
           /\ runs'[Len(runs) + 1] = run
<1> DEFINE R == {runs[i] : i \in DOMAIN runs}
           S == R \cup {run}
<1>1. runs \in Seq(R) /\ Len(runs) \in Nat /\ DOMAIN runs = 1 .. Len(runs)
  BY ListFacts DEF IsList
<1> HIDE DEF R
<1>2. runs \in Seq(S)
  BY <1>1, SeqMonotonic
<1> HIDE DEF S
<1>3. run \in S
  BY DEF S
<1>4. /\ runs' \in Seq(S) /\ Len(runs') = Len(runs) + 1
      /\ \A i \in 1 .. Len(runs) : runs'[i] = runs[i]
      /\ runs'[Len(runs) + 1] = run
  BY <1>2, <1>3, AppendProperties
<1>5. IsList(runs') /\ DOMAIN runs' = 1 .. Len(runs) + 1
  BY <1>1, <1>4, SeqIsList, LenProperties
<1> QED  BY <1>1, <1>4, <1>5

LEMMA GenerateKeeps ==
    ASSUME RepairInv, NEW c \in Commands, NEW runtime, Generate(c, runtime)
    PROVE  RepairInv'
<1> USE DEF RepairInv
<1> DEFINE plan == IF runtime = "openai" THEN file["provider_plan"] ELSE Absent
<1>1. PICK run : run = [plan |-> plan, edits |-> <<>>]
  OBVIOUS
<1>2. PICK k : k = [phase |-> "calling", run |-> Len(runs) + 1, runtime |-> runtime,
                    plan |-> plan, request |-> file["request"]]
  OBVIOUS
<1>3. /\ runs' = Append(runs, run) /\ Len(runs) < MaxRuns
      /\ command' = [command EXCEPT ![c] = k]
      /\ UNCHANGED <<file, approved, promotions>>
      /\ runtime = "openai" => plan \in approved
      /\ plan = Absent \/ plan \in approved
      /\ trouble' \in 0 .. MaxTrouble
  BY <1>1, <1>2, StartType DEF Generate, Called, Approved
<1>4. /\ run.edits = <<>> /\ run.plan = plan
      /\ k.phase = "calling" /\ k.run = Len(runs) + 1 /\ k.plan = plan /\ k.runtime = runtime
  BY <1>1, <1>2
<1> HIDE DEF plan
<1>5. /\ IsList(runs')
      /\ Len(runs) \in Nat /\ DOMAIN runs = 1 .. Len(runs)
      /\ Len(runs') = Len(runs) + 1 /\ DOMAIN runs' = 1 .. Len(runs) + 1
      /\ \A i \in DOMAIN runs : runs'[i] = runs[i]
      /\ runs'[Len(runs) + 1] = run
  BY <1>3, <1>4, RunAdded DEF RunsInv
<1>6. /\ DOMAIN command = Commands /\ DOMAIN command' = Commands /\ command'[c] = k
      /\ \A d \in Commands \ {c} : command'[d] = command[d]
  BY <1>3 DEF CommandsInv
<1>7. HistoryKept
  <2> SUFFICES ASSUME NEW i \in DOMAIN runs
               PROVE  /\ i \in DOMAIN runs' /\ runs'[i] = runs[i]
                      /\ Finished(i) => Finished(i)'
    BY <1>3 DEF HistoryKept
  <2>1. i \in DOMAIN runs' /\ runs'[i] = runs[i] /\ k.run # i
    BY <1>4, <1>5
  <2> QED  BY <1>6, <2>1 DEF Finished
<1>8. TrueCommand(k)'
  BY <1>3, <1>4, <1>5 DEF TrueCommand, Phases
<1>9. CommandsInv'
  <2>1. ASSUME NEW d \in Commands  PROVE TrueCommand(command[d])'
    <3>1. CASE d = c
      BY <1>6, <1>8, <3>1
    <3>2. CASE d # c
      <4>1. PICK old : old = command[d]
        OBVIOUS
      <4>2. command'[d] = old /\ TrueCommand(old)
        BY <1>6, <3>2, <4>1 DEF CommandsInv
      <4>3. TrueCommand(old)'
        BY <1>7, <4>2, TrueCommandKept
      <4> QED  BY <4>2, <4>3
    <3> QED  BY <3>1, <3>2
  <2>2. ASSUME NEW d \in Commands \ {c}, command'[d].phase = "calling"
        PROVE  command'[d].run \in DOMAIN runs
    BY <1>6, <2>2 DEF CommandsInv, TrueCommand
  <2>3. \A d \in Commands \ {c} : command'[d].phase = "calling" => command'[d].run # k.run
    BY <1>4, <1>5, <2>2
  <2>4. ASSUME NEW a \in Commands, NEW b \in Commands, command'[a].phase = "calling",
               command'[b].phase = "calling", a # b
        PROVE  command'[a].run # command'[b].run
    BY <1>6, <2>3, <2>4 DEF CommandsInv
  <2> QED  BY <1>6, <2>1, <2>4 DEF CommandsInv
<1>10. FilesInv' /\ PromotionsInv'
  BY <1>3, <1>7, FilesLost, PromotionsUnchanged
<1>11. TypeOK'
  <2>1. \A i \in DOMAIN runs' : runs'[i].edits \in Drafts \cup {<<>>}
    BY <1>4, <1>5 DEF TypeOK
  <2>2. Len(runs') <= MaxRuns
    BY <1>3, <1>5, RepairAssumption
  <2>3. \A d \in Commands : command'[d].phase \in Phases
    BY <1>9 DEF CommandsInv, TrueCommand
  <2> QED  BY <1>3, <2>1, <2>2, <2>3 DEF TypeOK
<1>12. RunsInv'
  <2>1. ASSUME NEW i \in DOMAIN runs'
        PROVE  runs'[i].plan = Absent \/ runs'[i].plan \in approved
    <3>1. CASE i = Len(runs) + 1
      BY <1>3, <1>4, <1>5, <3>1
    <3>2. CASE i # Len(runs) + 1
      <4>1. i \in DOMAIN runs
        BY <1>5, <3>2
      <4> QED  BY <1>5, <4>1 DEF RunsInv
    <3> QED  BY <3>1, <3>2
  <2> QED  BY <1>3, <1>5, <2>1 DEF RunsInv
<1> QED  BY <1>9, <1>10, <1>11, <1>12

\* Truthful outputs, and then others.
LEMMA OutputsJoined ==
    ASSUME NEW s, NEW t, TrueOutputs(s), TrueOutputs(t)
    PROVE  TrueOutputs(s \o t)
<1> DEFINE S == {s[i] : i \in DOMAIN s} \cup {t[i] : i \in DOMAIN t}
<1>1. s \in Seq(S) /\ t \in Seq(S)
  BY SeqMonotonic DEF TrueOutputs, IsList
<1>2. /\ DOMAIN s = 1 .. Len(s) /\ DOMAIN t = 1 .. Len(t)
      /\ Len(s) \in Nat /\ Len(t) \in Nat
  BY ListFacts DEF TrueOutputs
<1> HIDE DEF S
<1>3. /\ s \o t \in Seq(S) /\ Len(s \o t) = Len(s) + Len(t)
      /\ \A i \in 1 .. Len(s) + Len(t) :
            (s \o t)[i] = IF i <= Len(s) THEN s[i] ELSE t[i - Len(s)]
  BY <1>1, ConcatProperties
<1>4. IsList(s \o t) /\ DOMAIN (s \o t) = 1 .. Len(s) + Len(t)
  BY <1>3, SeqIsList, LenProperties
<1>5. ASSUME NEW i \in 1 .. Len(s) + Len(t)
      PROVE  (s \o t)[i][1] \in Reports /\ Truthful((s \o t)[i][1], (s \o t)[i][2])
  <2>1. CASE i <= Len(s)
    <3>1. (s \o t)[i] = s[i] /\ i \in DOMAIN s
      BY <1>2, <1>3, <2>1
    <3> QED  BY <3>1 DEF TrueOutputs
  <2>2. CASE ~(i <= Len(s))
    <3>1. (s \o t)[i] = t[i - Len(s)] /\ i - Len(s) \in DOMAIN t
      BY <1>2, <1>3, <2>2
    <3> QED  BY <3>1 DEF TrueOutputs
  <2> QED  BY <2>1, <2>2
<1> QED  BY <1>4, <1>5 DEF TrueOutputs

\* The outputs of a call, with or without an execution.
LEMMA GeneratedAreTruthful ==
    ASSUME NEW k, NEW edits,
           k.runtime = "openai" => k.plan \in approved /\ Answered(k.run, k.plan, edits)
    PROVE  TrueOutputs(GeneratedOutputs(k, edits))
<1>1. PICK response : response = [request |-> k.request, edits |-> edits]
  OBVIOUS
<1>2. PICK invocation : invocation = Invocation(k, response)
  OBVIOUS
<1>3. /\ invocation.run = k.run /\ invocation.request = k.request
      /\ invocation.response = response
      /\ invocation.suggestion = Suggestion(k.request, response, "canonical")
  BY <1>2 DEF Invocation
<1>4. invocation.suggestion.spec = edits /\ response.edits = edits
  BY <1>1, <1>3 DEF Suggestion
<1>5. PICK execution : execution = Execution(k, invocation)
  OBVIOUS
<1>6. k.runtime = "openai" => Truthful("execution", execution)
  <2> SUFFICES ASSUME k.runtime = "openai"  PROVE TrueExecution(execution)
    BY DEF Truthful
  <2>1. execution.plan = k.plan /\ execution.invocation = invocation
    BY <1>5 DEF Execution
  <2> QED  BY <1>1, <1>3, <1>4, <2>1 DEF TrueExecution
<1> DEFINE a == Output("envelope", Envelope(k))
           b == Output("response", invocation.response)
           d == Output("spec", edits)
           g == Output("suggestion", invocation.suggestion)
           i == Output("invocation", invocation)
           first == <<a, b, d, g, i>>
           last == IF k.runtime = "openai" THEN <<Output("execution", execution)>> ELSE <<>>
<1>7. GeneratedOutputs(k, edits) = first \o last
  BY <1>1, <1>2, <1>5 DEF GeneratedOutputs
<1>8. TrueOutputs(last)
  <2>1. CASE k.runtime = "openai"
    BY <1>6, <2>1, OneOutput DEF Reports
  <2>2. CASE k.runtime # "openai"
    BY <2>2 DEF TrueOutputs, IsList
  <2> QED  BY <2>1, <2>2
<1> HIDE DEF last
<1>9. TrueOutputs(first)
  <2> DEFINE True(o) == o[1] \in Reports /\ Truthful(o[1], o[2])
  <2>1. True(a) /\ True(b) /\ True(d) /\ True(g) /\ True(i)
    BY PlainNames, PlainIsTruthful DEF Output
  <2> HIDE DEF a, b, d, g, i
  <2>2. IsList(first) /\ DOMAIN first = 1 .. 5
    BY DEF IsList
  <2>3. \A j \in 1 .. 5 : True(first[j])
    BY <2>1
  <2> QED  BY <2>2, <2>3 DEF TrueOutputs
<1> HIDE DEF first
<1> QED  BY <1>7, <1>8, <1>9, OutputsJoined

\* So they are in the state that the answer leads to.
LEMMA GeneratedFact ==
    \A k, edits :
        (k.runtime = "openai" => k.plan \in approved /\ Answered(k.run, k.plan, edits))
        => TrueOutputs(GeneratedOutputs(k, edits))
BY GeneratedAreTruthful

LEMMA GeneratedAfter ==
    (\A k, edits :
        (k.runtime = "openai" => k.plan \in approved /\ Answered(k.run, k.plan, edits))
        => TrueOutputs(GeneratedOutputs(k, edits)))'
BY GeneratedFact, PTL

LEMMA NoReplyKeeps ==
    ASSUME RepairInv, NEW c \in Commands, NoReply(c)
    PROVE  RepairInv'
<1>1. /\ command' = [command EXCEPT ![c] = Idle]
      /\ UNCHANGED <<file, approved, runs, promotions>> /\ trouble' \in 0 .. MaxTrouble
  BY TroubleUnchanged DEF NoReply, RepairInv
<1> QED  BY <1>1, IdleIsTrue, MoveKeeps

\* The answer completes the run of this call and of no other, so every run that
\* an artifact tells of stays as it was.
LEMMA ReplyKeeps ==
    ASSUME RepairInv, NEW c \in Commands, Reply(c)
    PROVE  RepairInv'
<1> USE DEF RepairInv
<1>1. PICK call : call = command[c]
  OBVIOUS
<1>2. /\ DOMAIN command = Commands /\ TrueCommand(call) /\ call.phase = "calling"
      /\ \A d \in Commands \ {c} : command[d].phase = "calling" => command[d].run # call.run
  BY <1>1 DEF CommandsInv, Reply
<1>3. PICK edits \in Drafts :
         /\ runs' = [runs EXCEPT ![call.run] = [plan |-> call.plan, edits |-> edits]]
         /\ command' = [command EXCEPT ![c] =
                IF ResponseValid(edits) THEN Write("check", GeneratedOutputs(call, edits))
                ELSE Idle]
         /\ UNCHANGED <<file, approved, promotions, trouble>>
  BY <1>1, <1>2 DEF Reply
<1>4. PICK k : k = IF ResponseValid(edits) THEN Write("check", GeneratedOutputs(call, edits))
                   ELSE Idle
  OBVIOUS
<1>5. /\ call.run \in DOMAIN runs
      /\ call.runtime = "openai" => call.plan \in approved
      /\ call.plan = Absent \/ call.plan \in approved
  BY <1>2 DEF TrueCommand
<1>6. IsList(runs)
  BY DEF RunsInv
<1>7. /\ DOMAIN runs' = DOMAIN runs /\ Len(runs') = Len(runs)
      /\ runs'[call.run] = [plan |-> call.plan, edits |-> edits]
      /\ \A i \in DOMAIN runs \ {call.run} : runs'[i] = runs[i]
      /\ IsList(runs')
  <2>1. PICK run : run = [plan |-> call.plan, edits |-> edits]
    OBVIOUS
  <2>2. runs' = [runs EXCEPT ![call.run] = run]
    BY <1>3, <2>1
  <2> DEFINE R == {runs[i] : i \in DOMAIN runs}
             S == R \cup {run}
  <2>3. runs \in Seq(R) /\ Len(runs) \in Nat /\ DOMAIN runs = 1 .. Len(runs)
    BY <1>6, ListFacts DEF IsList
  <2> HIDE DEF R
  <2>4. runs \in Seq(S) /\ run \in S
    BY <2>3, SeqMonotonic
  <2> HIDE DEF S
  <2>5. runs' \in Seq(S) /\ Len(runs') = Len(runs)
    BY <1>5, <2>2, <2>3, <2>4, ExceptSeq
  <2>6. IsList(runs')
    BY <2>5, SeqIsList
  <2> QED  BY <1>5, <2>1, <2>2, <2>5, <2>6
<1>8. k.phase # "calling" /\ command' = [command EXCEPT ![c] = k]
  BY <1>3, <1>4, IdleIsTrue DEF Write
<1>9. /\ DOMAIN command' = Commands /\ command'[c] = k
      /\ \A d \in Commands \ {c} : command'[d] = command[d]
  BY <1>2, <1>8
<1>10. HistoryKept
  <2> SUFFICES ASSUME NEW i \in DOMAIN runs
               PROVE  /\ i \in DOMAIN runs'
                      /\ Finished(i) => Finished(i)' /\ runs'[i] = runs[i]
    BY <1>3 DEF HistoryKept
  <2>1. CASE i = call.run
    <3>1. ~Finished(i)
      BY <1>1, <1>2, <2>1 DEF Finished
    <3> QED  BY <1>5, <1>7, <2>1, <3>1
  <2>2. CASE i # call.run
    <3>1. i \in DOMAIN runs' /\ runs'[i] = runs[i]
      BY <1>7, <2>2
    <3>2. Finished(i) => Finished(i)'
      BY <1>8, <1>9, <3>1 DEF Finished
    <3> QED  BY <3>1, <3>2
  <2> QED  BY <2>1, <2>2
<1>11. Answered(call.run, call.plan, edits)'
  <2>1. Finished(call.run)'
    BY <1>2, <1>5, <1>7, <1>8, <1>9 DEF Finished
  <2> QED  BY <1>7, <2>1 DEF Answered
<1>12. TrueCommand(k)'
  <2>1. CASE ResponseValid(edits)
    <3>1. PICK outputs : outputs = GeneratedOutputs(call, edits)
      OBVIOUS
    <3>2. TrueOutputs(outputs)'
      BY <1>3, <1>5, <1>11, <3>1, GeneratedAfter
    <3>3. k.phase = "check" /\ k.outputs = outputs
      BY <1>4, <2>1, <3>1 DEF Write
    <3> QED  BY <3>2, <3>3 DEF TrueCommand, Phases
  <2>2. CASE ~ResponseValid(edits)
    <3>1. k.phase = "idle"
      BY <1>4, <2>2, IdleIsTrue
    <3> QED  BY <3>1 DEF TrueCommand, Phases
  <2> QED  BY <2>1, <2>2
<1>13. CommandsInv'
  BY <1>8, <1>10, <1>12, CommandMoved
<1>14. FilesInv' /\ PromotionsInv'
  BY <1>3, <1>10, FilesLost, PromotionsUnchanged
<1>15. RunsInv'
  <2>1. ASSUME NEW i \in DOMAIN runs
        PROVE  runs'[i].plan = Absent \/ runs'[i].plan \in approved
    <3>1. CASE i = call.run
      BY <1>5, <1>7, <3>1
    <3>2. CASE i # call.run
      BY <1>7, <3>2 DEF RunsInv
    <3> QED  BY <3>1, <3>2
  <2> QED  BY <1>3, <1>7, <2>1 DEF RunsInv
<1>16. TypeOK'
  <2>1. \A i \in DOMAIN runs' : runs'[i].edits \in Drafts \cup {<<>>}
    BY <1>7 DEF TypeOK
  <2>2. \A d \in Commands : command'[d].phase \in Phases
    BY <1>13 DEF CommandsInv, TrueCommand
  <2> QED  BY <1>3, <1>7, <2>1, <2>2 DEF TypeOK
<1> QED  BY <1>13, <1>14, <1>15, <1>16

-----------------------------------------------------------------------------
(* What happens around the commands.                                           *)

LEMMA AroundHistory ==
    ASSUME UNCHANGED <<runs, promotions, command>>, approved \subseteq approved'
    PROVE  HistoryKept
BY DEF HistoryKept, Finished

LEMMA AroundKeeps ==
    ASSUME RepairInv, UNCHANGED <<runs, promotions, command>>, approved \subseteq approved',
           FilesInv', DOMAIN file' = Names, file'["source"] \in SUBSET Edits,
           trouble' \in 0 .. MaxTrouble
    PROVE  RepairInv'
<1> USE DEF RepairInv
<1>1. HistoryKept
  BY AroundHistory
<1>2. CommandsInv'
  <2>1. ASSUME NEW c \in Commands  PROVE TrueCommand(command[c])'
    <3>1. PICK k : k = command[c]
      OBVIOUS
    <3>2. TrueCommand(k) /\ command'[c] = k
      BY <3>1 DEF CommandsInv
    <3>3. TrueCommand(k)'
      BY <1>1, <3>2, TrueCommandKept
    <3> QED  BY <3>2, <3>3
  <2> QED  BY <2>1 DEF CommandsInv
<1>3. PromotionsInv' /\ RunsInv'
  BY <1>1, PromotionsUnchanged DEF RunsInv
<1>4. TypeOK'
  BY RepairAssumption DEF TypeOK
<1> QED  BY <1>2, <1>3, <1>4

LEMMA ExternalKeeps ==
    ASSUME RepairInv, NEW n \in Names \ {"source"}, NEW content, Truthful(n, content),
           External(n, content)
    PROVE  RepairInv'
<1>1. /\ file' = [file EXCEPT ![n] = content]
      /\ UNCHANGED <<approved, runs, promotions, command, trouble>>
  BY DEF External
<1>2. HistoryKept
  BY <1>1, AroundHistory
<1>3. FilesInv'
  BY <1>1, <1>2, TruthfulKept, FileWritten DEF RepairInv
<1>4. /\ DOMAIN file' = Names /\ file'["source"] \in SUBSET Edits
      /\ trouble' \in 0 .. MaxTrouble
  BY <1>1 DEF RepairInv, TypeOK
<1> QED  BY <1>1, <1>3, <1>4, AroundKeeps

LEMMA PeopleKeep ==
    ASSUME RepairInv, Diagnose \/ Answer \/ Verify
    PROVE  RepairInv'
<1>1. CASE Diagnose
  <2>1. "proposal" \in Names \ {"source"} /\ Truthful("proposal", Proposal)
    BY DEF Names, Reports, Truthful
  <2> QED  BY <1>1, <2>1, ExternalKeeps DEF Diagnose
<1>2. CASE Answer
  <2>1. PICK content : External("response", content)
    BY <1>2 DEF Answer
  <2>2. "response" \in Names \ {"source"} /\ Truthful("response", content)
    BY DEF Names, Reports, Truthful
  <2> QED  BY <2>1, <2>2, ExternalKeeps
<1>3. CASE Verify
  <2>1. PICK content : /\ External("evidence", content)
                       /\ content.candidate = file["candidate"]
    BY <1>3 DEF Verify
  <2>2. "evidence" \in Names \ {"source"} /\ Truthful("evidence", content)
    BY <1>3, <2>1 DEF Verify, Names, Reports, Truthful
  <2> QED  BY <2>1, <2>2, ExternalKeeps
<1> QED  BY <1>1, <1>2, <1>3

LEMMA ApproveKeeps ==
    ASSUME RepairInv, NEW n, Approve(n)
    PROVE  RepairInv'
<1>1. approved \subseteq approved' /\ UNCHANGED <<file, runs, promotions, command, trouble>>
  BY DEF Approve
<1>2. HistoryKept
  BY <1>1, AroundHistory
<1>3. FilesInv'
  BY <1>1, <1>2, FilesLost DEF RepairInv
<1>4. /\ DOMAIN file' = Names /\ file'["source"] \in SUBSET Edits
      /\ trouble' \in 0 .. MaxTrouble
  BY <1>1 DEF RepairInv, TypeOK
<1> QED  BY <1>1, <1>3, <1>4, AroundKeeps

LEMMA EditByHandKeeps ==
    ASSUME RepairInv, NEW n \in {"source", "candidate"}, EditByHand(n)
    PROVE  RepairInv'
<1>1. /\ file' = [file EXCEPT ![n] = file[n] \cup {ByHand}]
      /\ UNCHANGED <<approved, runs, promotions, command>> /\ Trouble
  BY DEF EditByHand
<1>2. HistoryKept
  BY <1>1, AroundHistory
<1>3. n \in Names /\ DOMAIN file = Names /\ file["source"] \in SUBSET Edits
  BY DEF Names, RepairInv, TypeOK
<1>4. PICK content : content = file[n] \cup {ByHand}
  OBVIOUS
<1>5. Truthful(n, content)'
  BY DEF Truthful
<1>6. FilesInv'
  BY <1>1, <1>2, <1>3, <1>4, <1>5, FileWritten DEF RepairInv
<1>7. DOMAIN file' = Names /\ file'["source"] \in SUBSET Edits
  BY <1>1, <1>3 DEF Edits
<1>8. trouble' \in 0 .. MaxTrouble
  BY <1>1, TroubleType DEF RepairInv
<1> QED  BY <1>1, <1>6, <1>7, <1>8, AroundKeeps

LEMMA DiscardKeeps ==
    ASSUME RepairInv, NEW attempt \in Attempts, Discard(attempt)
    PROVE  RepairInv'
<1>1. /\ file' = [n \in Names |-> IF n \in attempt THEN Absent ELSE file[n]]
      /\ UNCHANGED <<approved, runs, promotions, command>> /\ Trouble
  BY DEF Discard
<1>2. HistoryKept
  BY <1>1, AroundHistory
<1>3. FilesInv'
  BY <1>1, <1>2, FilesLost DEF RepairInv
<1>4. "source" \in Names /\ "source" \notin attempt
  BY DEF Attempts, Names
<1>5. DOMAIN file' = Names /\ file'["source"] \in SUBSET Edits
  BY <1>1, <1>4 DEF RepairInv, TypeOK
<1>6. trouble' \in 0 .. MaxTrouble
  BY <1>1, TroubleType DEF RepairInv
<1> QED  BY <1>1, <1>3, <1>5, <1>6, AroundKeeps

\* What a dying command leaves in part is not the production source.
LEMMA CrashKeeps ==
    ASSUME RepairInv, NEW c \in Commands, Crash(c)
    PROVE  RepairInv'
<1> USE DEF RepairInv
<1>1. PICK torn \in SUBSET Beginning(c) :
         file' = [n \in Names |-> IF n \in torn THEN Torn ELSE file[n]]
  BY DEF Crash
<1>2. /\ command' = [command EXCEPT ![c] = Idle] /\ Trouble
      /\ UNCHANGED <<approved, runs, promotions>>
  BY DEF Crash
<1>3. DOMAIN command = Commands /\ TrueCommand(command[c])
  BY DEF CommandsInv
<1>4. HistoryKept
  BY <1>2, <1>3, IdleIsTrue, HistoryByMove
<1>5. "source" \notin torn
  <2>1. CASE command[c].phase = "write"
    <3>1. PICK outputs : outputs = command[c].outputs
      OBVIOUS
    <3>2. TrueOutputs(outputs) /\ outputs # <<>>
      BY <1>3, <2>1, <3>1 DEF TrueCommand
    <3>3. Head(outputs)[1] \in Reports
      BY <3>2, TailIsSome DEF TrueOutputs
    <3> QED  BY <1>1, <2>1, <3>1, <3>3 DEF Beginning, Reports
  <2>2. CASE command[c].phase # "write"
    BY <1>1, <2>2 DEF Beginning
  <2> QED  BY <2>1, <2>2
<1>6. "source" \in Names
  BY DEF Names
<1>7. FilesInv'
  BY <1>1, <1>4, FilesLost
<1>8. TrueCommand(Idle)'
  BY IdleIsTrue DEF TrueCommand, Phases
<1>9. CommandsInv'
  BY <1>2, <1>4, <1>8, IdleIsTrue, CommandMoved
<1>10. PromotionsInv' /\ RunsInv'
  BY <1>2, <1>4, PromotionsUnchanged DEF RunsInv
<1>11. TypeOK'
  <2>1. trouble' \in 0 .. MaxTrouble
    BY <1>2, TroubleType
  <2>2. DOMAIN file' = Names /\ file'["source"] = file["source"]
    BY <1>1, <1>5, <1>6
  <2>3. \A d \in Commands : command'[d].phase \in Phases
    BY <1>9 DEF CommandsInv, TrueCommand
  <2> QED  BY <1>2, <2>1, <2>2, <2>3 DEF TypeOK
<1> QED  BY <1>7, <1>9, <1>10, <1>11

-----------------------------------------------------------------------------
(* The theorems.                                                               *)

LEMMA RepairInit == Init => RepairInv
<1> SUFFICES ASSUME Init  PROVE RepairInv
  OBVIOUS
<1>1. /\ file = [n \in Names |-> IF n = "source" THEN {} ELSE Absent]
      /\ approved = {} /\ runs = <<>> /\ promotions = {} /\ trouble = 0
      /\ command = [c \in Commands |-> Idle]
  BY DEF Init
<1>2. DOMAIN file = Names /\ file["source"] = {}
      /\ \A n \in Names \ {"source"} : file[n] = Absent
  BY <1>1 DEF Names
<1>3. FilesInv
  BY <1>2 DEF FilesInv, Whole, Truthful
<1>4. DOMAIN command = Commands /\ \A c \in Commands : command[c] = Idle
  BY <1>1
<1>5. CommandsInv
  BY <1>4, IdleIsTrue DEF CommandsInv
<1>6. RunsInv /\ PromotionsInv
  BY <1>1 DEF RunsInv, IsList, PromotionsInv
<1>7. TypeOK
  <2>1. file["source"] \in SUBSET Edits /\ file["source"] # Torn
    BY <1>2, RepairAssumption
  <2>2. Len(runs) = 0 /\ DOMAIN runs = {}
    BY <1>1
  <2>3. \A c \in Commands : command[c].phase \in Phases
    BY <1>4, IdleIsTrue DEF Phases
  <2> QED  BY <1>1, <1>2, <2>1, <2>2, <2>3, RepairAssumption DEF TypeOK
<1> QED  BY <1>3, <1>5, <1>6, <1>7 DEF RepairInv

LEMMA RepairStep == RepairInv /\ [Next]_vars => RepairInv'
<1> SUFFICES ASSUME RepairInv, [Next]_vars  PROVE RepairInv'
  OBVIOUS
<1>1. ASSUME NEW c \in Commands, ExpertCommand(c)  PROVE RepairInv'
  BY <1>1, PlainCommands, ReplyKeeps, NoReplyKeeps, GenerateKeeps DEF ExpertCommand
<1>2. ASSUME NEW c \in Commands, RepairCommand(c)  PROVE RepairInv'
  BY <1>2, PlainCommands, QualifyKeeps, ApplyReviewedKeeps, ApplyQualifiedKeeps,
     PlanPromotionKeeps, PreparePromotionKeeps, ReplaceTargetKeeps, ConfirmTargetKeeps
     DEF RepairCommand
<1>3. ASSUME NEW c \in Commands, Writing(c)  PROVE RepairInv'
  BY <1>3, CheckOutputsKeeps, WriteOutputKeeps, WriteCandidateKeeps, WriteReportKeeps
     DEF Writing
<1>4. ASSUME NEW c \in Commands, Crash(c)  PROVE RepairInv'
  BY <1>4, CrashKeeps
<1>5. CASE Around
  BY <1>5, PeopleKeep, ApproveKeeps, EditByHandKeeps, DiscardKeeps DEF Around
<1>6. CASE UNCHANGED vars
  <2>1. UNCHANGED <<file, approved, runs, promotions, command, trouble>>
    BY <1>6 DEF vars
  <2>2. HistoryKept
    BY <2>1, AroundHistory
  <2>3. FilesInv'
    BY <2>1, <2>2, FilesLost DEF RepairInv
  <2> QED  BY <2>1, <2>3, AroundKeeps DEF RepairInv, TypeOK
<1> QED  BY <1>1, <1>2, <1>3, <1>4, <1>5, <1>6 DEF Next

LEMMA RepairInductive == Spec => []RepairInv
BY RepairInit, RepairStep, PTL DEF Spec

\* The production source is a whole text at every moment, and the state has its
\* types, for every bound.
THEOREM RepairTypes == Spec => []TypeOK
<1>1. RepairInv => TypeOK
  BY DEF RepairInv
<1> QED  BY <1>1, RepairInductive, PTL

\* What is promoted passed its simulation, and is the target of its plan with the
\* edits of the qualified plan and nothing else (apply_candidate_promotion).
THEOREM RepairPromotesVerified == Spec => []PromotedIsVerified
<1>1. RepairInv => PromotedIsVerified
  BY DEF RepairInv, PromotionsInv, Promotable, TruePlan, PromotedIsVerified
<1> QED  BY <1>1, RepairInductive, PTL

\* Every review comes before what it allows: whenever a billed generation has
\* begun its plan is approved, and whenever a qualified application is there its
\* qualification is.  Nothing reaches the production source except along one
\* such line, with an approved promotion plan at its end.
THEOREM RepairPromotesReviewed == Spec => []PromotedIsReviewed
<1>1. ASSUME RepairInv, NEW i \in DOMAIN runs, runs[i].plan # Absent
      PROVE  runs[i].plan \in approved
  BY <1>1 DEF RepairInv, RunsInv
<1>2. RepairInv /\ Whole("qualified") => file["qualified"].qualification \in approved
  BY DEF RepairInv, FilesInv, Names, Reports, Truthful, TrueApplication
<1>3. ASSUME RepairInv, NEW p \in promotions
      PROVE  LET q == p.plan.qualified.qualification
             IN /\ {p.plan, q, q.plan} \subseteq approved
                /\ runs[q.invocation.run] = [plan |-> q.plan, edits |-> q.spec]
  BY <1>3 DEF RepairInv, PromotionsInv, Promotable, TruePlan, TrueApplication,
         TrueQualification, Answered
<1>4. RepairInv => PromotedIsReviewed
  BY <1>1, <1>2, <1>3 DEF PromotedIsReviewed
<1> QED  BY <1>4, RepairInductive, PTL

\* A qualification tells of one generation, and its edit plan applies to the
\* source that generation was asked about.
THEOREM RepairQualifiesOneRun == Spec => []QualifiedIsOneRun
<1>1. RepairInv => QualifiedIsOneRun
  BY DEF RepairInv, FilesInv, Names, Reports, Truthful, TrueQualification, Answered,
         QualifiedIsOneRun
<1> QED  BY <1>1, RepairInductive, PTL

\* A receipt is left only for a replacement that took place, with the bytes it
\* names.
THEOREM RepairReceiptIsTrue == Spec => []ReceiptIsTrue
<1>1. RepairInv => ReceiptIsTrue
  BY DEF RepairInv, FilesInv, Names, Reports, Truthful, TrueReceipt, ReceiptIsTrue
<1> QED  BY <1>1, RepairInductive, PTL
=============================================================================
