--------------------------- MODULE PackageCatalog ---------------------------
(* Portable packages: a release of a design is packaged from a source with     *)
(* passing evidence (openrtl portable-package), a closed set of packages is    *)
(* locked (lock-package-closure) and installed into a workspace                *)
(* (materialize-package-closure, or materialize-package for one alone).  Each  *)
(* is a process of the command line over shared directories without a lock:    *)
(* what keeps them apart are exclusive directories, renames and digests.       *)
(*                                                                             *)
(* A digest is as good as what it digests: a package names its dependencies    *)
(* by digest, so here it holds them, and a digest that a command reports or is *)
(* given is the content itself.                                                *)
EXTENDS Integers, FiniteSets, SequencesExt

CONSTANTS Commands,     \* processes of the command line
          Releases,     \* [id, version] of the packages authors may store
          Depends,      \* release -> ids of the packages it needs
          Ports,        \* id -> its ports, with direction and width
          Requirements, \* ports that a consumer may ask for
          MaxTrouble    \* bound: crashes, edits, altered or removed files

VARIABLES
    source,    \* id -> text of its RTL source
    evidence,  \* id -> text that its retained passing simulation names
    bundle,    \* release -> package published in the catalog
    staged,    \* release -> its temporary directory in the catalog
    lock,      \* lock file: the packages of a closure in install order
    lockTemp,  \* its temporary file
    workspace, \* materialization: the packages and the lock it names
    workTemp,  \* its temporary directory: the packages so far
    receipts,  \* packages whose manifest digest a command reported
    issued,    \* locks whose digest a command reported
    command,   \* what each process is doing
    trouble

vars == <<source, evidence, bundle, staged, lock, lockTemp, workspace, workTemp,
          receipts, issued, command, trouble>>

sources == <<source, evidence>>
catalog == <<bundle, staged, receipts>>
locks == <<lock, lockTemp, issued>>
works == <<workspace, workTemp>>

Distinct(s) == FoldLeft(LAMBDA seen, x : IF Contains(seen, x) THEN seen ELSE Append(seen, x),
                        <<>>, s)

\* What lies under the name of a file or a directory: nothing, a part of what
\* was to be written there, or a whole content.
Absent == [is |-> "absent"]
Torn == [is |-> "torn"]
Whole(content) == [is |-> "whole", content |-> content]

Package(r, text, deps) == [release |-> r, text |-> text, deps |-> deps]
Foreign == -1  \* what a person wrote over the text of a published package
Altered(p) == Package(p.release, Foreign, p.deps)
Ids(packages) == {p.release.id : p \in packages}

Idle == [phase |-> "idle"]
In(c, phase) == command[c].phase = phase
Goto(c, next) == command' = [command EXCEPT ![c] = next]
GotoPhase(c, phase) == command' = [command EXCEPT ![c].phase = phase]
Trouble == trouble < MaxTrouble /\ trouble' = trouble + 1

-----------------------------------------------------------------------------
(* Storing a package.                                                          *)

\* The evidence names the source by digest; the profile has no dependencies.
VerifySource(c, r) ==
    /\ In(c, "idle")
    /\ Depends[r] = {}
    /\ evidence[r.id] = source[r.id]
    /\ Goto(c, [phase |-> "verified", release |-> r])
    /\ UNCHANGED <<sources, catalog, locks, works, trouble>>

\* The source is read again.
BuildCandidate(c) ==
    /\ In(c, "verified")
    /\ LET r == command[c].release
       IN Goto(c, [phase |-> "built", package |-> Package(r, source[r.id], {})])
    /\ UNCHANGED <<sources, catalog, locks, works, trouble>>

\* A composed design is built on packages its author has receipts for, and
\* simulated by the same process, from copies of the source as it read it.
Compose(c, r, deps) ==
    /\ In(c, "idle")
    /\ Depends[r] # {}
    /\ Ids(deps) = Depends[r] /\ Cardinality(deps) = Cardinality(Depends[r])
    /\ Goto(c, [phase |-> "built", package |-> Package(r, source[r.id], deps)])
    /\ UNCHANGED <<sources, catalog, locks, works, trouble>>

\* Neither the version nor its temporary directory may exist.
ChooseTarget(c) ==
    /\ In(c, "built")
    /\ LET r == command[c].package.release
       IN IF bundle[r] = Absent /\ staged[r] = Absent THEN GotoPhase(c, "chosen")
          ELSE Goto(c, Idle)
    /\ UNCHANGED <<sources, catalog, locks, works, trouble>>

\* Mutant: a directory that is there is used.
MakeBundleShared(c) ==
    /\ In(c, "chosen")
    /\ staged' = [staged EXCEPT ![command[c].package.release] = Torn]
    /\ GotoPhase(c, "copying")
    /\ UNCHANGED <<sources, bundle, receipts, locks, works, trouble>>

\* Creation of the directory fails where there is one.
MakeBundle(c) ==
    /\ In(c, "chosen")
    /\ LET r == command[c].package.release
       IN IF staged[r] = Absent
          THEN staged' = [staged EXCEPT ![r] = Torn] /\ GotoPhase(c, "copying")
          ELSE UNCHANGED staged /\ Goto(c, Idle)
    /\ UNCHANGED <<sources, bundle, receipts, locks, works, trouble>>

\* Each file must still have the digest of the candidate; the manifest is
\* written last.  A failure removes the directory.
CopyBundle(c) ==
    /\ In(c, "copying")
    /\ LET p == command[c].package
       IN IF source[p.release.id] = p.text
          THEN staged' = [staged EXCEPT ![p.release] = Whole(p)] /\ GotoPhase(c, "copied")
          ELSE staged' = [staged EXCEPT ![p.release] = Absent] /\ Goto(c, Idle)
    /\ UNCHANGED <<sources, bundle, receipts, locks, works, trouble>>

\* A directory with files in it is not replaced.
PublishBundle(c) ==
    /\ In(c, "copied")
    /\ LET r == command[c].package.release
       IN /\ staged' = [staged EXCEPT ![r] = Absent]
          /\ IF bundle[r] = Absent
             THEN bundle' = [bundle EXCEPT ![r] = staged[r]] /\ GotoPhase(c, "published")
             ELSE UNCHANGED bundle /\ Goto(c, Idle)
    /\ UNCHANGED <<sources, receipts, locks, works, trouble>>

ReportReceipt(c) ==
    /\ In(c, "published")
    /\ receipts' = receipts \cup {command[c].package}
    /\ Goto(c, Idle)
    /\ UNCHANGED <<sources, bundle, staged, locks, works, trouble>>

-----------------------------------------------------------------------------
(* Locking a closure.                                                          *)

\* Depth first, dependencies in the order of their ids, each package once.
InstallOrder(packages, root) ==
    LET visit[p \in packages] ==
            LET deps == SetToSortSeq(p.deps, LAMBDA x, y : x.release.id < y.release.id)
            IN Distinct(FlattenSeq([i \in DOMAIN deps |-> visit[deps[i]]]) \o <<p>>)
    IN visit[root]

\* One version of each id, every dependency exactly as its dependent was built
\* on it, and none that the root does not need.  No cycle of digests exists.
Closes(packages, root) ==
    /\ root \in packages
    /\ \A p \in packages : p.deps \subseteq packages
    /\ Cardinality(Ids(packages)) = Cardinality(packages)
    /\ ToSet(InstallOrder(packages, root)) = packages

\* Mutant: the manifest digest is not compared.
ReadsPresent(p) == bundle[p.release] # Absent

\* A bundle is read against the manifest digest, every file against its own.
Reads(p) == bundle[p.release] = Whole(p)

Resolve(c, root, pins) ==
    /\ In(c, "idle")
    /\ lock = Absent /\ lockTemp = Absent
    /\ \A p \in pins : Reads(p)
    /\ Closes(pins, root)
    /\ Goto(c, [phase |-> "resolved", order |-> InstallOrder(pins, root)])
    /\ UNCHANGED <<sources, catalog, locks, works, trouble>>

\* The temporary file is opened, and emptied, whether or not it exists by now.
\* A process that holds it open writes to it wherever it has been moved.
OpenLock(c) ==
    /\ In(c, "resolved")
    /\ lockTemp' = Torn
    /\ Goto(c, [phase |-> "open", order |-> command[c].order, at |-> "temporary"])
    /\ UNCHANGED <<sources, catalog, lock, issued, works, trouble>>

\* Over the content of another process a shorter one leaves a tail.
Written(now, order) ==
    IF now \in {Torn, Whole(order)} THEN {Whole(order)} ELSE {Whole(order), Torn}

FillLock(c) ==
    /\ In(c, "open")
    /\ LET order == command[c].order
           at == command[c].at
       IN /\ IF at = "temporary" THEN lockTemp' \in Written(lockTemp, order)
             ELSE UNCHANGED lockTemp
          /\ IF at = "lock" THEN lock' \in Written(lock, order) ELSE UNCHANGED lock
          /\ Goto(c, [phase |-> "filled", order |-> order])
    /\ UNCHANGED <<sources, catalog, issued, works, trouble>>

\* The file moves under those that hold it open.
Moved(other) ==
    IF other.phase # "open" THEN other
    ELSE [other EXCEPT !.at = IF @ = "temporary" THEN "lock" ELSE "replaced"]

\* A file is replaced; without the temporary file the rename fails.
RenameLock(c) ==
    /\ In(c, "filled")
    /\ IF lockTemp = Absent
       THEN Goto(c, Idle) /\ UNCHANGED <<lock, lockTemp>>
       ELSE /\ lock' = lockTemp
            /\ lockTemp' = Absent
            /\ command' = [d \in Commands |->
                              IF d = c THEN [command[c] EXCEPT !.phase = "locked"]
                              ELSE Moved(command[d])]
    /\ UNCHANGED <<sources, catalog, issued, works, trouble>>

\* The digest is that of what was to be written.
ReportLock(c) ==
    /\ In(c, "locked")
    /\ issued' = issued \cup {command[c].order}
    /\ Goto(c, Idle)
    /\ UNCHANGED <<sources, catalog, lock, lockTemp, works, trouble>>

-----------------------------------------------------------------------------
(* Installing into a workspace.                                                *)

Compatible(p, required) == required \subseteq Ports[p.release.id]

WorkspaceFree == workspace = Absent /\ workTemp = Absent

Install(c, order, expected, required) ==
    Goto(c, [phase |-> "admitted", todo |-> order, expected |-> expected,
             required |-> required])

\* The lock must have the digest expected, each bundle that of its pin, and the
\* order must be that of the packages as they were read.
BeginInstall(c, expected, required) ==
    /\ In(c, "idle")
    /\ lock = Whole(expected)
    /\ \A p \in ToSet(expected) : Reads(p)
    /\ Closes(ToSet(expected), Last(expected))
    /\ InstallOrder(ToSet(expected), Last(expected)) = expected
    /\ WorkspaceFree
    /\ Install(c, expected, Whole(expected), required)
    /\ UNCHANGED <<sources, catalog, locks, works, trouble>>

\* One package alone, whatever it depends on.
BeginInstallOne(c, p, required) ==
    /\ In(c, "idle")
    /\ Reads(p) /\ Compatible(p, required)
    /\ WorkspaceFree
    /\ Install(c, <<p>>, Absent, required)
    /\ UNCHANGED <<sources, catalog, locks, works, trouble>>

MakeWorkspace(c) ==
    /\ In(c, "admitted")
    /\ IF workTemp = Absent
       THEN workTemp' = Whole(<<>>) /\ GotoPhase(c, "installing")
       ELSE UNCHANGED workTemp /\ Goto(c, Idle)
    /\ UNCHANGED <<sources, catalog, locks, workspace, trouble>>

\* Every bundle is read again; the last is the root, which has to fit.
InstallNext(c) ==
    /\ In(c, "installing")
    /\ command[c].todo # <<>>
    /\ LET p == Head(command[c].todo)
           isRoot == Len(command[c].todo) = 1
       IN IF Reads(p) /\ (isRoot => Compatible(p, command[c].required))
          THEN /\ workTemp' = Whole(Append(workTemp.content, bundle[p.release].content))
               /\ command' = [command EXCEPT ![c].todo = Tail(@)]
          ELSE workTemp' = Absent /\ Goto(c, Idle)
    /\ UNCHANGED <<sources, catalog, locks, workspace, trouble>>

PublishWorkspace(c) ==
    /\ In(c, "installing")
    /\ command[c].todo = <<>>
    /\ workTemp' = Absent
    /\ workspace' = IF workspace = Absent
                    THEN [packages |-> workTemp, lock |-> command[c].expected]
                    ELSE workspace
    /\ Goto(c, Idle)
    /\ UNCHANGED <<sources, catalog, locks, trouble>>

-----------------------------------------------------------------------------
(* People, simulations and crashes.                                            *)

EditSource(id) ==
    /\ Trouble
    /\ source' = [source EXCEPT ![id] = @ + 1]
    /\ UNCHANGED <<evidence, catalog, locks, works, command>>

Simulate(id) ==
    /\ evidence[id] # source[id]
    /\ evidence' = [evidence EXCEPT ![id] = source[id]]
    /\ UNCHANGED <<source, catalog, locks, works, command, trouble>>

SpoilBundle(r) ==
    /\ Trouble
    /\ bundle[r] # Absent
    /\ bundle' = [bundle EXCEPT ![r] = Whole(Altered(@.content))]
    /\ UNCHANGED <<sources, staged, receipts, locks, works, command>>

\* Altered, or removed to make place for another.
SpoilLock ==
    /\ Trouble
    /\ lock # Absent
    /\ lock' \in {Absent, Torn}
    /\ UNCHANGED <<sources, catalog, lockTemp, issued, works, command>>

RemoveWorkspace ==
    /\ Trouble
    /\ workspace # Absent
    /\ workspace' = Absent
    /\ UNCHANGED <<sources, catalog, locks, workTemp, command>>

Crash(c) ==
    /\ ~In(c, "idle")
    /\ Trouble
    /\ Goto(c, Idle)
    /\ UNCHANGED <<sources, catalog, locks, works>>

\* What a crash left blocks the same work until a person removes it.
Writes(c, r) == command[c].phase \in {"copying", "copied"} /\ command[c].package.release = r

DiscardStaged(r) ==
    /\ staged[r] # Absent
    /\ \A c \in Commands : ~Writes(c, r)
    /\ staged' = [staged EXCEPT ![r] = Absent]
    /\ UNCHANGED <<sources, bundle, receipts, locks, works, command, trouble>>

DiscardLockTemp ==
    /\ lockTemp # Absent
    /\ \A c \in Commands : command[c].phase \notin {"open", "filled"}
    /\ lockTemp' = Absent
    /\ UNCHANGED <<sources, catalog, lock, issued, works, command, trouble>>

DiscardWorkTemp ==
    /\ workTemp # Absent
    /\ \A c \in Commands : ~In(c, "installing")
    /\ workTemp' = Absent
    /\ UNCHANGED <<sources, catalog, locks, workspace, command, trouble>>

-----------------------------------------------------------------------------
Designs == {r.id : r \in Releases}

Init ==
    /\ source = [id \in Designs |-> 0]
    /\ evidence = source
    /\ bundle = [r \in Releases |-> Absent]
    /\ staged = bundle
    /\ lock = Absent /\ lockTemp = Absent
    /\ workspace = Absent /\ workTemp = Absent
    /\ receipts = {} /\ issued = {}
    /\ command = [c \in Commands |-> Idle]
    /\ trouble = 0

Store(c) ==
    \/ \E r \in Releases : \/ VerifySource(c, r)
                           \/ \E deps \in SUBSET receipts : Compose(c, r, deps)
    \/ BuildCandidate(c)
    \/ ChooseTarget(c)
    \/ MakeBundle(c)
    \/ CopyBundle(c)
    \/ PublishBundle(c)
    \/ ReportReceipt(c)

Lock(c) ==
    \/ \E pins \in SUBSET receipts : \E root \in pins : Resolve(c, root, pins)
    \/ OpenLock(c)
    \/ FillLock(c)
    \/ RenameLock(c)
    \/ ReportLock(c)

Materialize(c) ==
    \/ \E required \in Requirements :
           \/ \E expected \in issued : BeginInstall(c, expected, required)
           \/ \E p \in receipts : BeginInstallOne(c, p, required)
    \/ MakeWorkspace(c)
    \/ InstallNext(c)
    \/ PublishWorkspace(c)

Surroundings ==
    \/ \E id \in Designs : EditSource(id) \/ Simulate(id)
    \/ \E r \in Releases : SpoilBundle(r) \/ DiscardStaged(r)
    \/ SpoilLock \/ RemoveWorkspace \/ DiscardLockTemp \/ DiscardWorkTemp

Next ==
    \/ \E c \in Commands : Store(c) \/ Lock(c) \/ Materialize(c) \/ Crash(c)
    \/ Surroundings

Spec == Init /\ [][Next]_vars

-----------------------------------------------------------------------------
(* Properties.                                                                 *)

\* Append-only: a version whose digest was reported stays in the catalog as it
\* was reported, whatever other processes store and wherever they die; only a
\* person can alter it (store_package: mkdir, copy, rename).
ReceiptsHold == \A p \in receipts : bundle[p.release] \in {Whole(p), Whole(Altered(p))}

\* A workspace is what its lock says, and its lock is one that a command
\* reported: packages with receipts, each after everything it was built on and
\* none without use to the root, whatever happened to the lock file and the
\* catalog between resolution, admission and copying.
DependenciesFirst(order) ==
    \A i \in DOMAIN order : order[i].deps \subseteq {order[j] : j \in 1 .. i - 1}
EachIsNeeded(order) ==
    \A i \in DOMAIN order : i < Len(order) => \E j \in DOMAIN order : order[i] \in order[j].deps

WorkspaceIsClosed ==
    workspace # Absent =>
        LET packages == workspace.packages.content
        IN  /\ ToSet(packages) \subseteq receipts
            /\ workspace.lock # Absent =>
                   /\ workspace.lock = workspace.packages
                   /\ packages \in issued
                   /\ DependenciesFirst(packages)
                   /\ EachIsNeeded(packages)
                   /\ IsInjective(packages)
=============================================================================
