----------------------------- MODULE RepairChain -----------------------------
(* From a failing simulation to a repaired production source.  Every step is   *)
(* a process of the command line (openrtl repair ...) that reads the artifacts *)
(* of earlier steps, refuses unless they fit together, and leaves artifacts of *)
(* its own; people review some of them in between, and approve them by digest. *)
(* No lock guards the artifacts: two commands may run at once, and a command   *)
(* may die between two writes.                                                 *)
(*                                                                             *)
(* A digest is as good as what it digests, so an artifact holds the contents   *)
(* it names by digest.  A source is the set of the edits made to it.           *)
EXTENDS Naturals, FiniteSets, SequencesExt

CONSTANTS Commands,     \* processes of the command line
          Drafts,       \* edit lists an expert may answer with
          Asked,        \* the changes a proposal asks for, in order
          Fixing,       \* edits any of which makes the simulation pass
          ByHand,       \* the mark of a person's own edit
          Absent, Torn, \* no file; a file of which only a part was written
          MaxRuns,      \* bound: generations by an expert
          MaxTrouble    \* bound: crashes, removed files and edits by hand

VARIABLES
    file,       \* what lies under each name
    approved,   \* contents a person has approved by their digest
    runs,       \* generations by an expert so far, in order: one billed call each
    promotions, \* history: replacements of the production source
    command,    \* what each process is doing
    trouble

vars == <<file, approved, runs, promotions, command, trouble>>

Reports == {"proposal", "request", "provider_plan", "envelope", "response", "spec",
            "suggestion", "invocation", "execution", "edit_plan", "planning",
            "qualification", "application", "qualified", "evidence",
            "promotion_plan", "receipt"}
Names == Reports \cup {"source", "candidate"}

Whole(n) == file[n] \notin {Absent, Torn}

Ids(edits) == {edits[i].id : i \in DOMAIN edits}
ChangesOf(edits) == [i \in DOMAIN edits |-> edits[i].change]
Distinct(s) == FoldLeft(LAMBDA seen, x : IF Contains(seen, x) THEN seen ELSE Append(seen, x),
                        <<>>, s)
InPlace(edits) == SortSeq(edits, LAMBDA x, y : x.at < y.at)

Passing(text) == Fixing \cap text # {}

\* All edits there are; a source is a set of them.
Edits == (UNION {Ids(edits) : edits \in Drafts}) \cup {ByHand}

ASSUME RepairAssumption ==
    /\ MaxRuns \in Nat /\ MaxTrouble \in Nat
    /\ \A text \in SUBSET Edits : text # Torn

-----------------------------------------------------------------------------
(* Writing the artifacts.  An existing file must hold exactly the content      *)
(* about to be written; only absent files are written, one by one.             *)

Idle == [phase |-> "idle"]
Write(phase, outputs) == [phase |-> phase, outputs |-> outputs]
Output(n, content) == <<n, content>>

\* The outputs from the first that is still missing among files; none is left
\* to write when all exist.
Pending(files, outputs) ==
    LET missing == {i \in DOMAIN outputs : files[outputs[i][1]] = Absent}
    IN IF missing = {} THEN Idle
       ELSE Write("write", SubSeq(outputs, Min(missing), Len(outputs)))

CheckOutputs(c) ==
    /\ command[c].phase = "check"
    /\ command' = [command EXCEPT ![c] =
           IF \A i \in DOMAIN @.outputs : file[@.outputs[i][1]] \in {Absent, @.outputs[i][2]}
           THEN Pending(file, @.outputs) ELSE Idle]
    /\ UNCHANGED <<file, approved, runs, promotions, trouble>>

\* What may lie under a name once content has been written there: when two
\* commands found it missing and both write it, the longer content leaves its
\* tail behind.
Written(n, content) ==
    IF file[n] \in {Absent, content} THEN {content} ELSE {content, Torn}

\* Writes one output and looks for the next that is missing.
WriteOutput(c) ==
    /\ command[c].phase = "write"
    /\ LET output == Head(command[c].outputs)
       IN \E result \in Written(output[1], output[2]) :
              file' = [file EXCEPT ![output[1]] = result]
    /\ command' = [command EXCEPT ![c] = Pending(file', Tail(@.outputs))]
    /\ UNCHANGED <<approved, runs, promotions, trouble>>

\* Two commands rarely run at once: to start one beside another is one of the
\* troubles a run bounds.
Trouble == trouble < MaxTrouble /\ trouble' = trouble + 1

Start(c) ==
    /\ command[c] = Idle
    /\ IF \E d \in Commands : command[d] # Idle THEN Trouble ELSE UNCHANGED trouble

Begin(c, next) ==
    /\ Start(c)
    /\ command' = [command EXCEPT ![c] = next]
    /\ UNCHANGED <<file, approved, runs, promotions>>

-----------------------------------------------------------------------------
(* The expert: request, provider plan, generation, response.                   *)

\* The proposal and its failing debug session are bound to the source they
\* were made from.
Proposal == [source |-> file["source"]]
ProposalFits == file["proposal"] = Proposal

Request == [source |-> file["source"]]
RequestFits == ProposalFits /\ file["request"] = Request

PrepareRequest(c) ==
    /\ ProposalFits
    /\ Begin(c, Write("check", <<Output("request", Request)>>))

ProviderPlan == [request |-> file["request"]]

PlanProvider(c) ==
    /\ Whole("request")
    /\ Begin(c, Write("check", <<Output("provider_plan", ProviderPlan)>>))

Approved(n) == Whole(n) /\ file[n] \in approved
PlanFits == file["provider_plan"] = ProviderPlan

Called(c, runtime) ==
    LET plan == IF runtime = "openai" THEN file["provider_plan"] ELSE Absent
    IN /\ runs' = Append(runs, [plan |-> plan, edits |-> <<>>])
       /\ command' = [command EXCEPT ![c] =
              [phase |-> "calling", run |-> Len(runs) + 1, runtime |-> runtime,
               plan |-> plan, request |-> file["request"]]]
       /\ UNCHANGED <<file, approved, promotions>>

\* Mutant: the expert is called with a plan nobody has approved so far.
GenerateUnapproved(c, runtime) ==
    /\ Start(c)
    /\ Len(runs) < MaxRuns
    /\ runtime = "openai" => Whole("provider_plan") /\ PlanFits
    /\ Whole("request") /\ RequestFits
    /\ Called(c, runtime)

\* runtime "openai" needs an approved plan and is billed; "scripted" answers
\* with a prepared response.
Generate(c, runtime) ==
    /\ Start(c)
    /\ Len(runs) < MaxRuns
    /\ runtime = "openai" => Approved("provider_plan") /\ PlanFits
    /\ Whole("request") /\ RequestFits
    /\ Called(c, runtime)

\* A response must edit every change asked for, in order, under distinct names.
ResponseValid(edits) ==
    /\ Cardinality(Ids(edits)) = Len(edits)
    /\ Distinct(ChangesOf(edits)) = Asked

Suggestion(request, response, form) ==
    [request |-> request, response |-> response, form |-> form,
     spec |-> response.edits, changes |-> Distinct(ChangesOf(response.edits))]

Envelope(call) == [request |-> call.request, runtime |-> call.runtime]

Invocation(call, response) ==
    [run |-> call.run, runtime |-> call.runtime, request |-> call.request,
     response |-> response, suggestion |-> Suggestion(call.request, response, "canonical")]

Execution(call, invocation) == [plan |-> call.plan, invocation |-> invocation]

GeneratedOutputs(call, edits) ==
    LET invocation == Invocation(call, [request |-> call.request, edits |-> edits])
    IN << Output("envelope", Envelope(call)),
          Output("response", invocation.response),
          Output("spec", edits),
          Output("suggestion", invocation.suggestion),
          Output("invocation", invocation) >>
       \o IF call.runtime = "openai" THEN <<Output("execution", Execution(call, invocation))>>
          ELSE <<>>

Reply(c) ==
    /\ command[c].phase = "calling"
    /\ \E edits \in Drafts :
           /\ runs' = [runs EXCEPT ![command[c].run] = [plan |-> command[c].plan, edits |-> edits]]
           /\ command' = [command EXCEPT ![c] =
                  IF ResponseValid(edits) THEN Write("check", GeneratedOutputs(@, edits))
                  ELSE Idle]
    /\ UNCHANGED <<file, approved, promotions, trouble>>

\* A timeout, or an answer that did not complete: nothing is kept.
NoReply(c) ==
    /\ command[c].phase = "calling"
    /\ command' = [command EXCEPT ![c] = Idle]
    /\ UNCHANGED <<file, approved, runs, promotions, trouble>>

\* The digest of a response kept in a file is taken over its formatted bytes.
AcceptResponse(c) ==
    /\ Whole("request") /\ Whole("response")
    /\ file["response"].request = file["request"]
    /\ ResponseValid(file["response"].edits)
    /\ Begin(c, Write("check",
           << Output("spec", file["response"].edits),
              Output("suggestion", Suggestion(file["request"], file["response"], "file")) >>))

-----------------------------------------------------------------------------
(* From edit specification to edit plan.                                       *)

\* Bytes that were replaced cannot be found again, and the edits of a plan lie
\* in the order of their place.
Draftable ==
    /\ ProposalFits /\ Whole("spec")
    /\ Ids(file["spec"]) \cap file["source"] = {}

EditPlan == [source |-> file["source"], edits |-> InPlace(file["spec"])]
Planning == [source |-> file["source"], spec |-> file["spec"], plan |-> EditPlan]

DraftEdits(c) ==
    /\ Draftable
    /\ Begin(c, Write("check", <<Output("edit_plan", EditPlan), Output("planning", Planning)>>))

\* Mutant: the edits are not traced back to the response of the invocation.
ProviderLineageOfRequest ==
    /\ \A n \in {"provider_plan", "execution", "invocation", "suggestion", "spec"} : Whole(n)
    /\ file["execution"].plan = file["provider_plan"]
    /\ file["execution"].invocation = file["invocation"]
    /\ file["invocation"].request = file["provider_plan"].request
    /\ file["suggestion"].request = file["provider_plan"].request
    /\ file["suggestion"].spec = file["spec"]

ProviderLineage ==
    /\ \A n \in {"provider_plan", "execution", "invocation", "suggestion", "spec"} : Whole(n)
    /\ file["execution"].plan = file["provider_plan"]
    /\ file["execution"].invocation = file["invocation"]
    /\ file["invocation"].runtime = "openai"
    /\ file["invocation"].request = file["provider_plan"].request
    /\ file["invocation"].suggestion = file["suggestion"]
    /\ file["suggestion"].request = file["provider_plan"].request
    /\ file["suggestion"].form = "canonical"
    /\ file["suggestion"].response = file["invocation"].response
    /\ file["suggestion"].spec = file["spec"]
    /\ file["suggestion"].changes = ChangesOf(file["spec"])

PlanIsSuggested ==
    /\ EditPlan.edits = file["spec"]
    /\ file["suggestion"].request.source = EditPlan.source

Qualification ==
    [plan |-> file["provider_plan"], execution |-> file["execution"],
     invocation |-> file["invocation"], suggestion |-> file["suggestion"],
     spec |-> file["spec"], editPlan |-> EditPlan, planning |-> Planning]

Qualify(c) ==
    /\ ProviderLineage /\ Draftable /\ PlanIsSuggested
    /\ Begin(c, Write("check",
           << Output("edit_plan", EditPlan), Output("planning", Planning),
              Output("qualification", Qualification) >>))

-----------------------------------------------------------------------------
(* Application to a separate candidate.                                        *)

Applicable ==
    /\ Whole("edit_plan") /\ ProposalFits
    /\ file["edit_plan"].source = file["source"]

Repaired == file["source"] \cup Ids(file["edit_plan"].edits)
Application == [plan |-> file["edit_plan"], before |-> file["source"], after |-> Repaired]

\* The candidate is written first; one that exists must hold the same bytes.
Apply(c, next) ==
    \/ /\ file["candidate"] = Absent
       /\ Begin(c, [phase |-> "candidate", bytes |-> Repaired, next |-> next])
    \/ /\ file["candidate"] = Repaired
       /\ Begin(c, next)

WriteCandidate(c) ==
    /\ command[c].phase = "candidate"
    /\ \E result \in Written("candidate", command[c].bytes) :
           file' = [file EXCEPT !["candidate"] = result]
    /\ command' = [command EXCEPT ![c] = @.next]
    /\ UNCHANGED <<approved, runs, promotions, trouble>>

ApplyReviewed(c) ==
    /\ Applicable /\ Approved("edit_plan")
    /\ Apply(c, [phase |-> "report", content |-> Application])

\* The report of an unqualified application replaces any earlier one.
WriteReport(c) ==
    /\ command[c].phase = "report"
    /\ file' = [file EXCEPT !["application"] = command[c].content]
    /\ command' = [command EXCEPT ![c] = Idle]
    /\ UNCHANGED <<approved, runs, promotions, trouble>>

ReviewArtifactsFit ==
    /\ Whole("qualification") /\ Whole("planning") /\ Whole("edit_plan")
    /\ file["qualification"].planning = file["planning"]
    /\ file["qualification"].editPlan = file["planning"].plan
    /\ file["qualification"].editPlan = file["edit_plan"]

Qualified == [qualification |-> file["qualification"], application |-> Application]
QualifiedOutputs == <<Output("application", Application), Output("qualified", Qualified)>>

ApplyQualified(c) ==
    /\ ReviewArtifactsFit /\ Approved("qualification") /\ Applicable
    /\ Apply(c, Write("check", QualifiedOutputs))

-----------------------------------------------------------------------------
(* Promotion of the candidate to the production source.                        *)

PromotionInputs == {"qualification", "application", "qualified", "candidate", "evidence"}

ApplicationFits ==
    /\ \A n \in PromotionInputs : Whole(n)
    /\ file["qualified"].qualification = file["qualification"]
    /\ file["qualified"].application = file["application"]
    /\ file["application"].after = file["candidate"]
    /\ file["application"].before = file["source"]

EvidenceFits ==
    /\ file["evidence"].application = file["application"]
    /\ file["evidence"].qualified = file["qualified"]
    /\ file["evidence"].qualification = file["qualification"]
    /\ file["evidence"].candidate = file["candidate"]

PromotionPlan ==
    [qualified |-> file["qualified"], evidence |-> file["evidence"],
     candidate |-> file["candidate"], target |-> file["source"]]

PlanPromotion(c) ==
    /\ ApplicationFits /\ EvidenceFits
    /\ Begin(c, Write("check", <<Output("promotion_plan", PromotionPlan)>>))

Receipt(plan) == [plan |-> plan, before |-> plan.target, after |-> plan.candidate]

\* Mutant: the plan alone is trusted to describe the candidate.
PreparePromotionUnchecked(c) ==
    /\ Approved("promotion_plan")
    /\ Whole("candidate") /\ file["source"] = file["promotion_plan"].target
    /\ Begin(c, [phase |-> "replace", plan |-> file["promotion_plan"],
                 bytes |-> file["candidate"]])

\* Mutant: the receipt is written first.
PreparePromotionReceiptFirst(c) ==
    /\ Approved("promotion_plan")
    /\ LET plan == file["promotion_plan"]
       IN /\ file["candidate"] = plan.candidate /\ file["source"] = plan.target
          /\ Begin(c, Write("check", <<Output("receipt", Receipt(plan))>>))

\* The candidate is read once; its bytes are kept for the replacement.
PreparePromotion(c) ==
    /\ Approved("promotion_plan")
    /\ file["candidate"] = file["promotion_plan"].candidate
    /\ file["source"] = file["promotion_plan"].target
    /\ Begin(c, [phase |-> "replace", plan |-> file["promotion_plan"],
                 bytes |-> file["candidate"]])

\* Mutant: the source is written in place, and the command may die meanwhile.
ReplaceTargetInPlace(c) ==
    /\ command[c].phase = "replace"
    /\ \E result \in {command[c].bytes, Torn} : file' = [file EXCEPT !["source"] = result]
    /\ command' = [command EXCEPT ![c] = [phase |-> "confirm", plan |-> @.plan]]
    /\ UNCHANGED <<approved, runs, promotions, trouble>>

ReplaceTarget(c) ==
    /\ command[c].phase = "replace"
    /\ promotions' = promotions \cup {[plan |-> command[c].plan, before |-> file["source"],
                                       after |-> command[c].bytes]}
    /\ file' = [file EXCEPT !["source"] = command[c].bytes]
    /\ command' = [command EXCEPT ![c] = [phase |-> "confirm", plan |-> @.plan]]
    /\ UNCHANGED <<approved, runs, trouble>>

ConfirmTarget(c) ==
    /\ command[c].phase = "confirm"
    /\ command' = [command EXCEPT ![c] =
           IF file["source"] # @.plan.candidate THEN Idle
           ELSE Write("check", <<Output("receipt", Receipt(@.plan))>>)]
    /\ UNCHANGED <<file, approved, runs, promotions, trouble>>

-----------------------------------------------------------------------------
(* What happens around the commands.                                           *)

External(n, content) ==
    /\ file[n] # content
    /\ file' = [file EXCEPT ![n] = content]
    /\ UNCHANGED <<approved, runs, promotions, command, trouble>>

\* A failing simulation of the source is analysed into a debug session, and a
\* proposal that covers its findings.
Diagnose ==
    /\ ~Passing(file["source"])
    /\ External("proposal", Proposal)

\* An expert outside this program answers a request.
Answer ==
    /\ Whole("request") /\ file["response"] = Absent
    /\ \E edits \in Drafts : External("response", [request |-> file["request"], edits |-> edits])

\* The candidate is simulated again; evidence is left when it passes and the
\* source it was made from does not.
Verify ==
    /\ \A n \in PromotionInputs \ {"evidence"} : Whole(n)
    /\ Passing(file["candidate"]) /\ ~Passing(file["application"].before)
    /\ External("evidence",
           [application |-> file["application"], qualified |-> file["qualified"],
            qualification |-> file["qualification"], candidate |-> file["candidate"]])

Approve(n) ==
    /\ Whole(n) /\ file[n] \notin approved
    /\ approved' = approved \cup {file[n]}
    /\ UNCHANGED <<file, runs, promotions, command, trouble>>

\* The file a command was about to write
Beginning(c) ==
    CASE command[c].phase = "write"     -> {Head(command[c].outputs)[1]}
      [] command[c].phase = "candidate" -> {"candidate"}
      [] command[c].phase = "report"    -> {"application"}
      [] OTHER                          -> {}

\* may be left in part when the command dies.
Crash(c) ==
    /\ Trouble
    /\ command[c] # Idle
    /\ \E torn \in SUBSET Beginning(c) :
           file' = [n \in Names |-> IF n \in torn THEN Torn ELSE file[n]]
    /\ command' = [command EXCEPT ![c] = Idle]
    /\ UNCHANGED <<approved, runs, promotions>>

EditByHand(n) ==
    /\ Trouble
    /\ Whole(n) /\ ByHand \notin file[n]
    /\ file' = [file EXCEPT ![n] = @ \cup {ByHand}]
    /\ UNCHANGED <<approved, runs, promotions, command>>

\* A refused command names the file in its way; a person removes what an
\* attempt left, while nothing else is running.
Attempts == { {"envelope", "response", "spec", "suggestion", "invocation", "execution"},
              {"edit_plan", "planning", "qualification"},
              {"candidate", "application", "qualified"}, {"promotion_plan"}, {"receipt"} }

Discard(attempt) ==
    /\ Trouble
    /\ \E n \in attempt : file[n] # Absent
    /\ \A c \in Commands : command[c] = Idle
    /\ file' = [n \in Names |-> IF n \in attempt THEN Absent ELSE file[n]]
    /\ UNCHANGED <<approved, runs, promotions, command>>

-----------------------------------------------------------------------------
Init ==
    /\ file = [n \in Names |-> IF n = "source" THEN {} ELSE Absent]
    /\ approved = {} /\ runs = <<>> /\ promotions = {} /\ trouble = 0
    /\ command = [c \in Commands |-> Idle]

ExpertCommand(c) ==
    \/ PrepareRequest(c) \/ PlanProvider(c) \/ Reply(c) \/ NoReply(c) \/ AcceptResponse(c)
    \/ \E runtime \in {"openai", "scripted"} : Generate(c, runtime)

RepairCommand(c) ==
    \/ DraftEdits(c) \/ Qualify(c) \/ ApplyReviewed(c) \/ ApplyQualified(c)
    \/ PlanPromotion(c) \/ PreparePromotion(c) \/ ReplaceTarget(c) \/ ConfirmTarget(c)

Writing(c) == CheckOutputs(c) \/ WriteOutput(c) \/ WriteCandidate(c) \/ WriteReport(c)

Around ==
    \/ Diagnose \/ Answer \/ Verify
    \/ \E n \in {"provider_plan", "edit_plan", "qualification", "promotion_plan"} : Approve(n)
    \/ \E n \in {"source", "candidate"} : EditByHand(n)
    \/ \E attempt \in Attempts : Discard(attempt)

Next ==
    \/ \E c \in Commands : ExpertCommand(c) \/ RepairCommand(c) \/ Writing(c) \/ Crash(c)
    \/ Around

Spec == Init /\ [][Next]_vars

-----------------------------------------------------------------------------
Phases == {"idle", "check", "write", "calling", "candidate", "report", "replace", "confirm"}

\* Types of the state.  The production source is a whole text at every moment:
\* the replacement goes through a file of its own and os.replace.
TypeOK ==
    /\ DOMAIN file = Names
    /\ file["source"] # Torn
    /\ file["source"] \in SUBSET Edits
    /\ \A i \in DOMAIN runs : runs[i].edits \in Drafts \cup {<<>>}
    /\ Len(runs) <= MaxRuns /\ trouble \in 0 .. MaxTrouble
    /\ \A c \in Commands : command[c].phase \in Phases

\* What is promoted passed its simulation, and is the target the promotion was
\* planned for with the edits of the qualified plan and nothing else, whatever
\* happened to the candidate file in between.
PromotedIsVerified ==
    \A p \in promotions :
        /\ Passing(p.after)
        /\ p.after = p.plan.target \cup Ids(p.plan.qualified.qualification.spec)
        /\ p.after = p.plan.evidence.candidate

\* Every review comes before what it allows.  A generation that is billed has
\* its plan approved in the very state it begins in, and a qualified application
\* its qualification in the state it is written in: both hold in every state,
\* so an approval given afterwards does not satisfy them.  And nothing reaches
\* the production source except along one such line: the plan of the
\* generation, the qualification of what that very generation answered, and
\* the promotion plan.
PromotedIsReviewed ==
    /\ \A i \in DOMAIN runs : runs[i].plan # Absent => runs[i].plan \in approved
    /\ Whole("qualified") => file["qualified"].qualification \in approved
    /\ \A p \in promotions :
           LET q == p.plan.qualified.qualification
           IN /\ {p.plan, q, q.plan} \subseteq approved
              /\ runs[q.invocation.run] = [plan |-> q.plan, edits |-> q.spec]

\* Artifacts of two generations that wrote to the same names never qualify
\* together: a qualification tells of one generation, and its edit plan applies
\* to the source that generation was asked about.
QualifiedIsOneRun ==
    Whole("qualification") =>
        LET q == file["qualification"]
        IN /\ runs[q.invocation.run] = [plan |-> q.plan, edits |-> q.spec]
           /\ q.suggestion.response = [request |-> q.plan.request, edits |-> q.spec]
           /\ q.editPlan = [source |-> q.plan.request.source, edits |-> q.spec]

\* A receipt is left only for a replacement that took place, with the bytes it
\* names.
ReceiptIsTrue ==
    Whole("receipt") =>
        \E p \in promotions : p.plan = file["receipt"].plan /\ p.after = file["receipt"].after
=============================================================================
