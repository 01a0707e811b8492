---------------------- MODULE SessionlessCommands_proofs ----------------------
(* The command line without a session, for any number of processes, packages   *)
(* and words.  Its package commands are a catalog: who made a temporary        *)
(* directory is alone with it, what is in it when it is renamed is the package *)
(* of the process that renames it, and a name that has been reported never     *)
(* becomes free.  Its debug commands are those of WaveformDebug_proofs.        *)
EXTENDS SessionlessCommands, WaveformDebug_proofs, FiniteSetTheorems, SequenceTheorems

-----------------------------------------------------------------------------
(* The catalog.                                                                *)

Storing == {"built", "chosen", "copying", "copied", "published"}
Elsewhere == {"resolved", "open", "filled", "locked", "admitted", "installing"}
Busy == {"copying", "copied", "published"}
AtWork(c) == command[c].phase \in {"copying", "copied"}

IsPackage(p) ==
    p.release \in Releases /\ p = Catalog!Package(p.release, p.text, p.deps)

\* What a process remembers in each phase.
Shape(m) ==
    \/ m = Catalog!Idle
    \/ \E r \in Releases : m = [phase |-> "verified", release |-> r]
    \/ /\ m.phase \in Storing
       /\ m = [phase |-> m.phase, package |-> m.package]
       /\ IsPackage(m.package)
    \/ "phase" \in DOMAIN m /\ m.phase \in Elsewhere

CatalogShape ==
    /\ DOMAIN bundle = Releases /\ DOMAIN staged = Releases /\ DOMAIN command = Commands
    /\ \A c \in Commands : Shape(command[c])
    /\ \A p \in receipts : IsPackage(p)

\* A temporary directory at work belongs to one process and holds its package.
OneWriterEach ==
    \A c, d \in Commands :
        /\ AtWork(c) /\ AtWork(d)
        /\ command[c].package.release = command[d].package.release
        => c = d

StagedIsOwned ==
    \A c \in Commands : AtWork(c) =>
        LET p == command[c].package
        IN  /\ staged[p.release] # Catalog!Absent
            /\ command[c].phase = "copied" => staged[p.release] = Catalog!Whole(p)

InCatalog(p) == bundle[p.release] \in {Catalog!Whole(p), Catalog!Whole(Catalog!Altered(p))}

PublishedIsThere ==
    \A c \in Commands : command[c].phase = "published" => InCatalog(command[c].package)

CatalogInv ==
    CatalogShape /\ OneWriterEach /\ StagedIsOwned /\ PublishedIsThere /\ Catalog!ReceiptsHold

-----------------------------------------------------------------------------
\* A name that holds a package is not free, altered or not.
LEMMA WholeIsThere == \A x : Catalog!Whole(x) # Catalog!Absent /\ Catalog!Whole(x).content = x
  BY DEF Catalog!Whole, Catalog!Absent

\* Altering twice is altering once.
LEMMA AlteredOnce ==
  ASSUME NEW p
  PROVE  /\ Catalog!Altered(Catalog!Altered(p)) = Catalog!Altered(p)
         /\ Catalog!Altered(p).release = p.release
  BY DEF Catalog!Altered, Catalog!Package

\* A step that leaves the catalog alone, and in which a process either stays as
\* it is or goes where it holds nothing in the catalog.
LEMMA Frame ==
  ASSUME CatalogInv, DOMAIN command' = Commands, UNCHANGED <<bundle, staged, receipts>>,
         \A d \in Commands : \/ command'[d] = command[d]
                             \/ Shape(command'[d]) /\ command'[d].phase \notin Busy
  PROVE  CatalogInv'
<1> USE DEF CatalogInv, Busy, AtWork
<1>1. CatalogShape'
  BY DEF CatalogShape, Shape
<1>2. OneWriterEach'
  BY DEF OneWriterEach
<1>3. StagedIsOwned'
  BY DEF StagedIsOwned
<1>4. PublishedIsThere'
  BY DEF PublishedIsThere, InCatalog
<1>5. Catalog!ReceiptsHold'
  BY DEF Catalog!ReceiptsHold
<1> QED
  BY <1>1, <1>2, <1>3, <1>4, <1>5

\* Steps outside the storing of packages.
LEMMA LockKeeps ==
  ASSUME CatalogInv, NEW c \in Commands, Catalog!Lock(c)
  PROVE  CatalogInv'
<1> USE DEF CatalogInv, CatalogShape, Catalog!In, Catalog!Goto, Catalog!catalog
<1>1. UNCHANGED <<bundle, staged, receipts>> /\ DOMAIN command' = Commands
  BY DEF Catalog!Lock, Catalog!Resolve, Catalog!OpenLock, Catalog!FillLock,
         Catalog!RenameLock, Catalog!ReportLock
<1>2. ASSUME NEW d \in Commands
      PROVE  \/ command'[d] = command[d]
             \/ Shape(command'[d]) /\ command'[d].phase \notin Busy
  <2> USE DEF Shape, Elsewhere, Busy, Catalog!Idle
  <2>1. CASE \E pins \in SUBSET receipts : \E root \in pins : Catalog!Resolve(c, root, pins)
    BY <2>1 DEF Catalog!Resolve
  <2>2. CASE Catalog!OpenLock(c)
    BY <2>2 DEF Catalog!OpenLock
  <2>3. CASE Catalog!FillLock(c)
    BY <2>3 DEF Catalog!FillLock
  <2>4. CASE Catalog!RenameLock(c)
    BY <2>4 DEF Catalog!RenameLock, Catalog!Moved
  <2>5. CASE Catalog!ReportLock(c)
    BY <2>5 DEF Catalog!ReportLock
  <2> QED
    BY <2>1, <2>2, <2>3, <2>4, <2>5 DEF Catalog!Lock
<1> QED
  BY <1>1, <1>2, Frame

LEMMA MaterializeKeeps ==
  ASSUME CatalogInv, NEW c \in Commands, Catalog!Materialize(c)
  PROVE  CatalogInv'
<1> USE DEF CatalogInv, CatalogShape, Catalog!In, Catalog!Goto, Catalog!GotoPhase,
            Catalog!Install, Catalog!catalog
<1>1. UNCHANGED <<bundle, staged, receipts>> /\ DOMAIN command' = Commands
  BY DEF Catalog!Materialize, Catalog!BeginInstall, Catalog!BeginInstallOne,
         Catalog!MakeWorkspace, Catalog!InstallNext, Catalog!PublishWorkspace
<1>2. ASSUME NEW d \in Commands
      PROVE  \/ command'[d] = command[d]
             \/ Shape(command'[d]) /\ command'[d].phase \notin Busy
  <2> USE DEF Shape, Elsewhere, Busy, Catalog!Idle
  <2>1. CASE \E required \in Requirements, expected \in issued :
                Catalog!BeginInstall(c, expected, required)
    BY <2>1 DEF Catalog!BeginInstall
  <2>2. CASE \E required \in Requirements, p \in receipts : Catalog!BeginInstallOne(c, p, required)
    BY <2>2 DEF Catalog!BeginInstallOne
  <2>3. CASE Catalog!MakeWorkspace(c)
    BY <2>3 DEF Catalog!MakeWorkspace
  <2>4. CASE Catalog!InstallNext(c)
    BY <2>4 DEF Catalog!InstallNext
  <2>5. CASE Catalog!PublishWorkspace(c)
    BY <2>5 DEF Catalog!PublishWorkspace
  <2> QED
    BY <2>1, <2>2, <2>3, <2>4, <2>5 DEF Catalog!Materialize
<1> QED
  BY <1>1, <1>2, Frame

\* Steps of storing that write nothing in the catalog.
LEMMA PreparationKeeps ==
  ASSUME CatalogInv, NEW c \in Commands,
         \/ \E r \in Releases : \/ Catalog!VerifySource(c, r)
                                \/ \E deps \in SUBSET receipts : Catalog!Compose(c, r, deps)
         \/ Catalog!BuildCandidate(c)
         \/ Catalog!ChooseTarget(c)
  PROVE  CatalogInv'
<1> USE DEF CatalogInv, CatalogShape, Catalog!In, Catalog!Goto, Catalog!GotoPhase, Catalog!catalog
<1>1. UNCHANGED <<bundle, staged, receipts>> /\ DOMAIN command' = Commands
  BY DEF Catalog!VerifySource, Catalog!Compose, Catalog!BuildCandidate, Catalog!ChooseTarget
<1>2. ASSUME NEW d \in Commands
      PROVE  \/ command'[d] = command[d]
             \/ Shape(command'[d]) /\ command'[d].phase \notin Busy
  <2> USE DEF Shape, Storing, Elsewhere, Busy, Catalog!Idle
  <2>1. ASSUME NEW r \in Releases, Catalog!VerifySource(c, r)
        PROVE  \/ command'[d] = command[d]
               \/ Shape(command'[d]) /\ command'[d].phase \notin Busy
    BY <2>1 DEF Catalog!VerifySource
  <2>2. ASSUME NEW r \in Releases, NEW deps \in SUBSET receipts, Catalog!Compose(c, r, deps)
        PROVE  \/ command'[d] = command[d]
               \/ Shape(command'[d]) /\ command'[d].phase \notin Busy
    BY <2>2 DEF Catalog!Compose, Catalog!Package, IsPackage
  <2>3. CASE Catalog!BuildCandidate(c)
    <3>1. PICK r \in Releases : command[c] = [phase |-> "verified", release |-> r]
      BY <2>3 DEF Catalog!BuildCandidate
    <3>2. command' = [command EXCEPT ![c] =
                         [phase |-> "built", package |-> Catalog!Package(r, source[r.id], {})]]
      BY <2>3, <3>1 DEF Catalog!BuildCandidate
    <3>3. IsPackage(Catalog!Package(r, source[r.id], {}))
      BY DEF IsPackage, Catalog!Package
    <3> QED
      BY <3>2, <3>3
  <2>4. CASE Catalog!ChooseTarget(c)
    BY <2>4 DEF Catalog!ChooseTarget
  <2> QED
    BY <2>1, <2>2, <2>3, <2>4
<1> QED
  BY <1>1, <1>2, Frame

\* The directory is new, so no other process is at work in it.
LEMMA MakeBundleKeeps ==
  ASSUME CatalogInv, NEW c \in Commands, Catalog!MakeBundle(c)
  PROVE  CatalogInv'
<1> DEFINE p == command[c].package
<1> USE DEF CatalogInv, CatalogShape, Catalog!In, Catalog!Goto, Catalog!GotoPhase
<1>1. /\ IsPackage(p) /\ p.release \in Releases
      /\ command[c] = [phase |-> "chosen", package |-> p]
  BY DEF Catalog!MakeBundle, IsPackage, Shape, Storing, Elsewhere, Catalog!Idle
<1>2. CASE staged[p.release] # Catalog!Absent
  <2>1. command' = [command EXCEPT ![c] = Catalog!Idle] /\ UNCHANGED <<bundle, staged, receipts>>
    BY <1>2 DEF Catalog!MakeBundle
  <2> QED
    BY <2>1, Frame DEF Shape, Catalog!Idle, Busy
<1>3. CASE staged[p.release] = Catalog!Absent
  <2>1. /\ staged' = [staged EXCEPT ![p.release] = Catalog!Torn]
        /\ command' = [command EXCEPT ![c] = [phase |-> "copying", package |-> p]]
        /\ UNCHANGED <<bundle, receipts>>
    BY <1>1, <1>3 DEF Catalog!MakeBundle
  <2>2. \A d \in Commands : AtWork(d) => command[d].package.release # p.release
    BY <1>3 DEF StagedIsOwned
  <2>3. CatalogShape'
    BY <1>1, <2>1 DEF Shape, Storing
  <2>4. OneWriterEach'
    BY <2>1, <2>2 DEF OneWriterEach, AtWork
  <2>5. StagedIsOwned'
    BY <1>1, <2>1, <2>2 DEF StagedIsOwned, AtWork, Catalog!Torn, Catalog!Absent
  <2>6. PublishedIsThere'
    BY <2>1 DEF PublishedIsThere, InCatalog
  <2>7. Catalog!ReceiptsHold'
    BY <2>1 DEF Catalog!ReceiptsHold
  <2> QED
    BY <2>3, <2>4, <2>5, <2>6, <2>7
<1> QED
  BY <1>2, <1>3

\* A process at work is alone in its directory, filled or removed.
LEMMA CopyBundleKeeps ==
  ASSUME CatalogInv, NEW c \in Commands, Catalog!CopyBundle(c)
  PROVE  CatalogInv'
<1> DEFINE p == command[c].package
<1> USE DEF CatalogInv, CatalogShape, Catalog!In, Catalog!Goto, Catalog!GotoPhase
<1>1. /\ IsPackage(p) /\ p.release \in Releases
      /\ command[c] = [phase |-> "copying", package |-> p]
  BY DEF Catalog!CopyBundle, IsPackage, Shape, Storing, Elsewhere, Catalog!Idle
<1>2. \A d \in Commands : AtWork(d) /\ command[d].package.release = p.release => d = c
  BY DEF OneWriterEach, AtWork, Catalog!CopyBundle
<1>3. UNCHANGED <<bundle, receipts>>
  BY DEF Catalog!CopyBundle
<1>4. \E content, next :
         /\ staged' = [staged EXCEPT ![p.release] = content]
         /\ command' = [command EXCEPT ![c] = next]
         /\ \/ content = Catalog!Whole(p) /\ next = [phase |-> "copied", package |-> p]
            \/ content = Catalog!Absent /\ next = Catalog!Idle
  <2>1. CASE source[p.release.id] = p.text
    BY <1>1, <2>1 DEF Catalog!CopyBundle
  <2>2. CASE source[p.release.id] # p.text
    BY <1>1, <2>2 DEF Catalog!CopyBundle
  <2> QED
    BY <2>1, <2>2
<1>5. CatalogShape'
  BY <1>1, <1>3, <1>4 DEF Shape, Storing, Catalog!Idle
<1>6. OneWriterEach'
  BY <1>2, <1>4 DEF OneWriterEach, AtWork, Catalog!Idle
<1>7. StagedIsOwned'
  BY <1>1, <1>2, <1>4, WholeIsThere DEF StagedIsOwned, AtWork, Catalog!Idle
<1>8. PublishedIsThere'
  BY <1>3, <1>4 DEF PublishedIsThere, InCatalog, Catalog!Idle
<1>9. Catalog!ReceiptsHold'
  BY <1>3 DEF Catalog!ReceiptsHold
<1> QED
  BY <1>5, <1>6, <1>7, <1>8, <1>9

\* Only a free name is taken, and no receipt and no published package has one.
LEMMA PublishBundleKeeps ==
  ASSUME CatalogInv, NEW c \in Commands, Catalog!PublishBundle(c)
  PROVE  CatalogInv'
<1> DEFINE p == command[c].package
<1> USE DEF CatalogInv, CatalogShape, Catalog!In, Catalog!Goto, Catalog!GotoPhase
<1>1. /\ IsPackage(p) /\ p.release \in Releases
      /\ command[c] = [phase |-> "copied", package |-> p]
  BY DEF Catalog!PublishBundle, IsPackage, Shape, Storing, Elsewhere, Catalog!Idle
<1>2. \A d \in Commands : AtWork(d) /\ command[d].package.release = p.release => d = c
  BY DEF OneWriterEach, AtWork, Catalog!PublishBundle
<1>3. staged[p.release] = Catalog!Whole(p)
  BY <1>1 DEF StagedIsOwned, AtWork
<1>4. /\ staged' = [staged EXCEPT ![p.release] = Catalog!Absent]
      /\ UNCHANGED receipts
      /\ \/ /\ bundle[p.release] = Catalog!Absent
            /\ bundle' = [bundle EXCEPT ![p.release] = Catalog!Whole(p)]
            /\ command' = [command EXCEPT ![c] = [phase |-> "published", package |-> p]]
         \/ UNCHANGED bundle /\ command' = [command EXCEPT ![c] = Catalog!Idle]
  BY <1>1, <1>3 DEF Catalog!PublishBundle
<1>5. \A q : q.release \in Releases /\ InCatalog(q) => InCatalog(q)'
  BY <1>1, <1>4, WholeIsThere DEF InCatalog
<1>6. CatalogShape'
  <2>1. \A d \in Commands : Shape(command'[d]) <=> Shape(command[d])'
    BY DEF Shape
  <2>2. ASSUME NEW d \in Commands
        PROVE  Shape(command'[d])
    <3>1. command'[d] \in {command[d], [phase |-> "published", package |-> p], Catalog!Idle}
      BY <1>4
    <3>2. Shape([phase |-> "published", package |-> p])
      BY <1>1 DEF Shape, Storing
    <3> QED
      BY <3>1, <3>2 DEF Shape
  <2> QED
    BY <1>4, <2>1, <2>2
<1>7. OneWriterEach'
  BY <1>2, <1>4 DEF OneWriterEach, AtWork, Catalog!Idle
<1>8. StagedIsOwned'
  BY <1>1, <1>2, <1>4 DEF StagedIsOwned, AtWork, Catalog!Idle
<1>9. PublishedIsThere'
  <2> SUFFICES ASSUME NEW d \in Commands, command'[d].phase = "published"
               PROVE  InCatalog(command[d].package)'
    BY DEF PublishedIsThere
  <2>1. CASE d = c
    BY <1>1, <1>4, <2>1 DEF InCatalog, Catalog!Idle
  <2>2. CASE d # c
    <3>1. command'[d] = command[d] /\ command[d].package.release \in Releases
      BY <1>4, <2>2 DEF Shape, IsPackage, Storing, Elsewhere, Catalog!Idle
    <3> QED
      BY <1>5, <3>1 DEF PublishedIsThere, InCatalog
  <2> QED
    BY <2>1, <2>2
<1>10. Catalog!ReceiptsHold'
  BY <1>4, <1>5 DEF Catalog!ReceiptsHold, InCatalog, IsPackage
<1> QED
  BY <1>6, <1>7, <1>8, <1>9, <1>10

LEMMA ReportReceiptKeeps ==
  ASSUME CatalogInv, NEW c \in Commands, Catalog!ReportReceipt(c)
  PROVE  CatalogInv'
<1> DEFINE p == command[c].package
<1> USE DEF CatalogInv, CatalogShape, Catalog!In, Catalog!Goto
<1>1. IsPackage(p) /\ p.release \in Releases /\ InCatalog(p)
  BY DEF Catalog!ReportReceipt, IsPackage, PublishedIsThere, Shape, Storing, Elsewhere, Catalog!Idle
<1>2. /\ receipts' = receipts \cup {p}
      /\ command' = [command EXCEPT ![c] = Catalog!Idle]
      /\ UNCHANGED <<bundle, staged>>
  BY DEF Catalog!ReportReceipt
<1>3. CatalogShape'
  BY <1>1, <1>2 DEF Shape, Catalog!Idle
<1>4. OneWriterEach'
  BY <1>2 DEF OneWriterEach, AtWork, Catalog!Idle
<1>5. StagedIsOwned'
  BY <1>2 DEF StagedIsOwned, AtWork, Catalog!Idle
<1>6. PublishedIsThere'
  BY <1>2 DEF PublishedIsThere, InCatalog, Catalog!Idle
<1>7. Catalog!ReceiptsHold'
  BY <1>1, <1>2 DEF Catalog!ReceiptsHold, InCatalog
<1> QED
  BY <1>3, <1>4, <1>5, <1>6, <1>7

LEMMA StoreKeeps ==
  ASSUME CatalogInv, NEW c \in Commands, Catalog!Store(c)
  PROVE  CatalogInv'
  BY PreparationKeeps, MakeBundleKeeps, CopyBundleKeeps, PublishBundleKeeps, ReportReceiptKeeps
     DEF Catalog!Store

LEMMA CrashKeeps ==
  ASSUME CatalogInv, NEW c \in Commands, Catalog!Crash(c)
  PROVE  CatalogInv'
<1>1. /\ UNCHANGED <<bundle, staged, receipts>>
      /\ DOMAIN command' = Commands
      /\ \A d \in Commands : command'[d] = command[d] \/ command'[d] = Catalog!Idle
  BY DEF Catalog!Crash, CatalogInv, CatalogShape, Catalog!Goto, Catalog!catalog
<1> QED
  BY <1>1, Frame DEF Shape, Busy, Catalog!Idle

\* Altering what is in the catalog, or removing what nobody is at work in.
LEMMA SurroundingsKeep ==
  ASSUME CatalogInv, Catalog!Surroundings
  PROVE  CatalogInv'
<1>1. CASE UNCHANGED <<Catalog!catalog, command>>
  BY <1>1, Frame DEF CatalogInv, CatalogShape, Catalog!catalog
<1>2. ASSUME NEW r \in Releases, Catalog!SpoilBundle(r)
      PROVE  CatalogInv'
  <2> USE DEF CatalogInv
  <2>1. /\ bundle' = [bundle EXCEPT ![r] = Catalog!Whole(Catalog!Altered(bundle[r].content))]
        /\ UNCHANGED <<staged, receipts, command>>
    BY <1>2 DEF Catalog!SpoilBundle
  <2>2. \A p : p.release \in Releases /\ InCatalog(p) => InCatalog(p)'
    BY <2>1, WholeIsThere, AlteredOnce DEF InCatalog, CatalogShape
  <2>3. CatalogShape' /\ OneWriterEach' /\ StagedIsOwned'
    BY <2>1 DEF CatalogShape, Shape, OneWriterEach, StagedIsOwned, AtWork
  <2>4. PublishedIsThere'
    <3> SUFFICES ASSUME NEW d \in Commands, command'[d].phase = "published"
                 PROVE  InCatalog(command[d].package)'
      BY DEF PublishedIsThere
    <3>1. command[d].phase = "published" /\ command[d].package.release \in Releases
      BY <2>1 DEF CatalogShape, Shape, IsPackage, Storing, Elsewhere, Catalog!Idle
    <3> QED
      BY <2>1, <2>2, <3>1 DEF PublishedIsThere, InCatalog
  <2>5. Catalog!ReceiptsHold'
    BY <2>1, <2>2 DEF Catalog!ReceiptsHold, InCatalog, CatalogShape, IsPackage
  <2> QED
    BY <2>3, <2>4, <2>5
<1>3. ASSUME NEW r \in Releases, Catalog!DiscardStaged(r)
      PROVE  CatalogInv'
  <2> USE DEF CatalogInv
  <2>1. /\ staged' = [staged EXCEPT ![r] = Catalog!Absent]
        /\ UNCHANGED <<bundle, receipts, command>>
        /\ \A c \in Commands : AtWork(c) => command[c].package.release # r
    BY <1>3 DEF Catalog!DiscardStaged, Catalog!Writes, AtWork
  <2>2. CatalogShape' /\ OneWriterEach' /\ PublishedIsThere' /\ Catalog!ReceiptsHold'
    BY <2>1 DEF CatalogShape, Shape, OneWriterEach, PublishedIsThere, Catalog!ReceiptsHold, AtWork,
                InCatalog
  <2>3. StagedIsOwned'
    BY <2>1 DEF StagedIsOwned, AtWork, CatalogShape, Shape, Storing, Elsewhere, Catalog!Idle
  <2> QED
    BY <2>2, <2>3
<1> QED
  BY <1>1, <1>2, <1>3
     DEF Catalog!Surroundings, Catalog!EditSource, Catalog!Simulate, Catalog!SpoilLock,
         Catalog!RemoveWorkspace, Catalog!DiscardLockTemp, Catalog!DiscardWorkTemp

\* Every step of a package command keeps the invariant, and so does none.
LEMMA CatalogStep ==
  ASSUME CatalogInv, [Catalog!Next]_(Catalog!vars)
  PROVE  CatalogInv'
<1>1. CASE UNCHANGED Catalog!vars
  BY <1>1, Frame DEF Catalog!vars, Catalog!catalog, CatalogInv, CatalogShape
<1>2. CASE Catalog!Surroundings
  BY <1>2, SurroundingsKeep
<1>3. ASSUME NEW c \in Commands,
             Catalog!Store(c) \/ Catalog!Lock(c) \/ Catalog!Materialize(c) \/ Catalog!Crash(c)
      PROVE  CatalogInv'
  BY <1>3, StoreKeeps, LockKeeps, MaterializeKeeps, CrashKeeps
<1> QED
  BY <1>1, <1>2, <1>3 DEF Catalog!Next

\* It holds of an empty catalog.
LEMMA CatalogEmpty == Catalog!Init => CatalogInv
  BY DEF Catalog!Init, CatalogInv, CatalogShape, Shape, OneWriterEach, StagedIsOwned,
         PublishedIsThere, Catalog!ReceiptsHold, AtWork, Catalog!Idle

-----------------------------------------------------------------------------
(* Installing.                                                                 *)

\* Each after what it was built on, none without use, and none twice.
Right(order) ==
    /\ Catalog!DependenciesFirst(order)
    /\ Catalog!EachIsNeeded(order)
    /\ Catalog!IsInjective(order)

\* What the recursive install order computes, for finitely many packages that close:
\* each once, after what it was built on, and none without use.  No prover here has
\* induction over data, so this is a hypothesis of the theorem that needs it; TLC
\* checks it for small sets of packages (MCSessionlessCommands!MCOrderIsRight).
OrderIsRight ==
    \A packages, root :
        /\ IsFiniteSet(packages) /\ \A p \in packages : IsPackage(p)
        /\ Catalog!Closes(packages, root)
        => LET order == Catalog!InstallOrder(packages, root)
           IN  order \in Seq(packages) /\ Right(order)

\* An order of packages with receipts.
GoodOrder(order, reported) == order \in Seq(reported) /\ Right(order)

\* A process that makes a lock remembers a good order.
Resolved(m, reported) ==
    /\ m.phase = "open" =>
           /\ m = [phase |-> "open", order |-> m.order, at |-> m.at]
           /\ GoodOrder(m.order, reported)
    /\ m.phase \in {"resolved", "filled", "locked"} =>
           /\ m = [phase |-> m.phase, order |-> m.order]
           /\ GoodOrder(m.order, reported)

\* One that installs has reported packages before it, and when it was given a lock,
\* one that was reported, all of which is to be installed.
Admitted(m, reported, locked) ==
    m.phase \in {"admitted", "installing"} =>
        /\ m = [phase |-> m.phase, todo |-> m.todo, expected |-> m.expected,
                required |-> m.required]
        /\ m.todo \in Seq(reported)
        /\ m.expected # Catalog!Absent => \E order \in locked : m.expected = Catalog!Whole(order)
        /\ m.phase = "admitted" /\ m.expected # Catalog!Absent =>
               m.expected = Catalog!Whole(m.todo)

\* What is in the temporary directory and what is to come are together the lock.
Fills(m, directory, reported) ==
    \E done \in Seq(reported) :
        /\ directory = Catalog!Whole(done)
        /\ m.expected # Catalog!Absent => m.expected = Catalog!Whole(done \o m.todo)

\* A workspace holds reported packages, and is what its lock says.
Installed(w, reported, locked) ==
    w # Catalog!Absent =>
        \E done \in Seq(reported) :
            /\ w.packages = Catalog!Whole(done)
            /\ w.lock # Catalog!Absent => w.lock = w.packages /\ done \in locked

InstallInv ==
    /\ IsFiniteSet(receipts)
    /\ \A order \in issued : GoodOrder(order, receipts)
    /\ \A c \in Commands : /\ Resolved(command[c], receipts)
                           /\ Admitted(command[c], receipts, issued)
    /\ \A c \in Commands : command[c].phase = "installing" =>
                               Fills(command[c], workTemp, receipts)
    /\ \A c, d \in Commands :
           command[c].phase = "installing" /\ command[d].phase = "installing" => c = d
    /\ Installed(workspace, receipts, issued)

\* Reports are only added.
LEMMA ReportsGrow ==
  ASSUME NEW S, NEW T, S \subseteq T, NEW I, NEW J, I \subseteq J
  PROVE  /\ Seq(S) \subseteq Seq(T)
         /\ \A order : GoodOrder(order, S) => GoodOrder(order, T)
         /\ \A m : Resolved(m, S) => Resolved(m, T)
         /\ \A m : Admitted(m, S, I) => Admitted(m, T, J)
         /\ \A m, directory : Fills(m, directory, S) => Fills(m, directory, T)
         /\ \A w : Installed(w, S, I) => Installed(w, T, J)
<1>1. Seq(S) \subseteq Seq(T)
  OBVIOUS
<1>2. \A order : GoodOrder(order, S) => GoodOrder(order, T)
  BY <1>1 DEF GoodOrder
<1>3. \A m : Resolved(m, S) => Resolved(m, T)
  BY <1>2 DEF Resolved
<1>4. \A m : Admitted(m, S, I) => Admitted(m, T, J)
  BY <1>1 DEF Admitted
<1>5. \A m, directory : Fills(m, directory, S) => Fills(m, directory, T)
  BY <1>1 DEF Fills
<1>6. \A w : Installed(w, S, I) => Installed(w, T, J)
  BY <1>1 DEF Installed
<1> QED
  BY <1>1, <1>2, <1>3, <1>4, <1>5, <1>6

\* What a step has to show.
LEMMA InstallStep ==
  ASSUME InstallInv,
         receipts \subseteq receipts', IsFiniteSet(receipts'), issued \subseteq issued',
         \A order \in issued' : order \in issued \/ GoodOrder(order, receipts'),
         \A d \in Commands : \/ command'[d] = command[d]
                             \/ /\ Resolved(command'[d], receipts')
                                /\ Admitted(command'[d], receipts', issued'),
         \A d \in Commands : command'[d].phase = "installing" =>
             \/ command'[d] = command[d] /\ workTemp' = workTemp
             \/ Fills(command'[d], workTemp', receipts'),
         \A d, e \in Commands :
             command'[d].phase = "installing" /\ command'[e].phase = "installing" => d = e,
         workspace' = workspace \/ Installed(workspace', receipts', issued')
  PROVE  InstallInv'
<1>1. /\ \A order : GoodOrder(order, receipts) => GoodOrder(order, receipts')
      /\ \A m : Resolved(m, receipts) => Resolved(m, receipts')
      /\ \A m : Admitted(m, receipts, issued) => Admitted(m, receipts', issued')
      /\ \A m, directory : Fills(m, directory, receipts) => Fills(m, directory, receipts')
      /\ \A w : Installed(w, receipts, issued) => Installed(w, receipts', issued')
  BY ReportsGrow
<1>2. \A order \in issued' : GoodOrder(order, receipts')
  BY <1>1 DEF InstallInv
<1>3. \A d \in Commands : /\ Resolved(command'[d], receipts')
                          /\ Admitted(command'[d], receipts', issued')
  BY <1>1 DEF InstallInv
<1>4. \A d \in Commands : command'[d].phase = "installing" =>
          Fills(command'[d], workTemp', receipts')
  BY <1>1 DEF InstallInv
<1>5. Installed(workspace', receipts', issued')
  BY <1>1 DEF InstallInv
<1> QED
  BY <1>2, <1>3, <1>4, <1>5 DEF InstallInv

Quiet(m) == m.phase \notin {"resolved", "open", "filled", "locked", "admitted", "installing"}

\* Steps of a process that neither locks nor installs, and of people beside it.
LEMMA InstallFrame ==
  ASSUME InstallInv, UNCHANGED <<issued, workTemp, workspace>>,
         receipts \subseteq receipts', IsFiniteSet(receipts'),
         \A d \in Commands : command'[d] = command[d] \/ Quiet(command'[d])
  PROVE  InstallInv'
<1>1. \A d \in Commands : \/ command'[d] = command[d]
                          \/ /\ Resolved(command'[d], receipts')
                             /\ Admitted(command'[d], receipts', issued')
  BY DEF Quiet, Resolved, Admitted
<1>2. \A d \in Commands : command'[d].phase = "installing" => command'[d] = command[d]
  BY DEF Quiet
<1>3. \A d, e \in Commands :
          command'[d].phase = "installing" /\ command'[e].phase = "installing" => d = e
  BY <1>2 DEF InstallInv
<1> QED
  BY <1>1, <1>2, <1>3, InstallStep

LEMMA StoreInstalls ==
  ASSUME CatalogInv, InstallInv, NEW c \in Commands, Catalog!Store(c)
  PROVE  InstallInv'
<1> USE DEF CatalogInv, CatalogShape, Catalog!In, Catalog!Goto, Catalog!GotoPhase,
            Catalog!catalog, Catalog!locks, Catalog!works
<1>1. UNCHANGED <<issued, workTemp, workspace>>
  BY DEF Catalog!Store, Catalog!VerifySource, Catalog!Compose, Catalog!BuildCandidate,
         Catalog!ChooseTarget, Catalog!MakeBundle, Catalog!CopyBundle, Catalog!PublishBundle,
         Catalog!ReportReceipt
<1>2. receipts' = receipts \/ receipts' = receipts \cup {command[c].package}
  BY DEF Catalog!Store, Catalog!VerifySource, Catalog!Compose, Catalog!BuildCandidate,
         Catalog!ChooseTarget, Catalog!MakeBundle, Catalog!CopyBundle, Catalog!PublishBundle,
         Catalog!ReportReceipt
<1>3. receipts \subseteq receipts' /\ IsFiniteSet(receipts')
  BY <1>2, FS_AddElement DEF InstallInv
<1>4. ASSUME NEW d \in Commands
      PROVE  command'[d] = command[d] \/ Quiet(command'[d])
  <2> USE DEF Quiet, Catalog!Idle
  <2>1. ASSUME NEW r \in Releases,
               \/ Catalog!VerifySource(c, r)
               \/ \E deps \in SUBSET receipts : Catalog!Compose(c, r, deps)
        PROVE  command'[d] = command[d] \/ Quiet(command'[d])
    BY <2>1 DEF Catalog!VerifySource, Catalog!Compose
  <2>2. CASE Catalog!BuildCandidate(c)
    BY <2>2 DEF Catalog!BuildCandidate
  <2>3. CASE Catalog!ChooseTarget(c) \/ Catalog!MakeBundle(c) \/ Catalog!CopyBundle(c)
                 \/ Catalog!PublishBundle(c)
    <3>1. command[c].phase \in Storing
      BY <2>3 DEF Catalog!ChooseTarget, Catalog!MakeBundle, Catalog!CopyBundle,
                  Catalog!PublishBundle, Storing
    <3>2. command[c] = [phase |-> command[c].phase, package |-> command[c].package]
      BY <3>1 DEF Shape, Storing, Elsewhere
    <3>3. \E phase \in Storing :
              \/ command' = [command EXCEPT ![c].phase = phase]
              \/ command' = [command EXCEPT ![c] = Catalog!Idle]
      BY <2>3 DEF Catalog!ChooseTarget, Catalog!MakeBundle, Catalog!CopyBundle,
                  Catalog!PublishBundle, Storing
    <3> QED
      BY <3>2, <3>3 DEF Storing
  <2>4. CASE Catalog!ReportReceipt(c)
    BY <2>4 DEF Catalog!ReportReceipt
  <2> QED
    BY <2>1, <2>2, <2>3, <2>4 DEF Catalog!Store
<1> QED
  BY <1>1, <1>3, <1>4, InstallFrame

LEMMA AroundInstalls ==
  ASSUME CatalogInv, InstallInv,
         Catalog!Surroundings \/ \E c \in Commands : Catalog!Crash(c)
  PROVE  InstallInv'
<1> USE DEF CatalogInv, CatalogShape, Catalog!catalog, Catalog!locks, Catalog!works
<1>1. CASE Catalog!RemoveWorkspace
  <2>1. UNCHANGED <<receipts, issued, workTemp, command>> /\ workspace' = Catalog!Absent
    BY <1>1 DEF Catalog!RemoveWorkspace
  <2>2. Installed(workspace', receipts', issued')
    BY <2>1 DEF Installed
  <2> QED
    BY <2>1, <2>2 DEF InstallInv
<1>2. CASE Catalog!DiscardWorkTemp
  <2>1. /\ UNCHANGED <<receipts, issued, workspace, command>>
        /\ \A c \in Commands : command[c].phase # "installing"
    BY <1>2 DEF Catalog!DiscardWorkTemp, Catalog!In
  <2> QED
    BY <2>1 DEF InstallInv
<1>3. CASE /\ UNCHANGED <<receipts, issued, workTemp, workspace>>
           /\ \A d \in Commands : command'[d] = command[d] \/ command'[d] = Catalog!Idle
  <2>1. \A d \in Commands : command'[d] = command[d] \/ Quiet(command'[d])
    BY <1>3 DEF Quiet, Catalog!Idle
  <2> QED
    BY <1>3, <2>1, InstallFrame DEF InstallInv
<1>4. ASSUME NEW c \in Commands, Catalog!Crash(c)
      PROVE  InstallInv'
  BY <1>3, <1>4 DEF Catalog!Crash, Catalog!Goto
<1> QED
  BY <1>1, <1>2, <1>3, <1>4
     DEF Catalog!Surroundings, Catalog!EditSource, Catalog!Simulate, Catalog!SpoilBundle,
         Catalog!DiscardStaged, Catalog!SpoilLock, Catalog!DiscardLockTemp

\* What closes has a right order.
LEMMA OrderOfReports ==
  ASSUME OrderIsRight, CatalogInv, InstallInv, NEW pins \in SUBSET receipts, NEW root,
         Catalog!Closes(pins, root)
  PROVE  GoodOrder(Catalog!InstallOrder(pins, root), receipts)
<1>1. IsFiniteSet(pins) /\ \A p \in pins : IsPackage(p)
  BY FS_Subset DEF InstallInv, CatalogInv, CatalogShape
<1>2. /\ Catalog!InstallOrder(pins, root) \in Seq(pins)
      /\ Right(Catalog!InstallOrder(pins, root))
  BY <1>1 DEF OrderIsRight
<1> QED
  BY <1>2 DEF GoodOrder

\* A lock is made of packages that close, and its order is remembered to the end.
LEMMA LockInstalls ==
  ASSUME OrderIsRight, CatalogInv, InstallInv, NEW c \in Commands, Catalog!Lock(c)
  PROVE  InstallInv'
<1> USE DEF CatalogInv, CatalogShape, Catalog!In, Catalog!Goto, Catalog!catalog, Catalog!works
<1>1. /\ UNCHANGED <<receipts, workTemp, workspace>>
      /\ issued \subseteq issued'
      /\ IsFiniteSet(receipts')
  BY DEF InstallInv, Catalog!Lock, Catalog!Resolve, Catalog!OpenLock, Catalog!FillLock,
         Catalog!RenameLock, Catalog!ReportLock, Catalog!locks
<1>2. Resolved(command[c], receipts)
  BY DEF InstallInv
<1>3. \A order \in issued' : order \in issued \/ GoodOrder(order, receipts')
  BY <1>1, <1>2 DEF Catalog!Lock, Catalog!Resolve, Catalog!OpenLock, Catalog!FillLock,
         Catalog!RenameLock, Catalog!ReportLock, Catalog!locks, Resolved
<1>4. ASSUME NEW d \in Commands
      PROVE  \/ command'[d] = command[d]
             \/ /\ command'[d].phase # "installing"
                /\ Resolved(command'[d], receipts)
                /\ Admitted(command'[d], receipts, issued')
  <2> USE DEF Resolved, Admitted
  <2>1. CASE \E pins \in SUBSET receipts : \E root \in pins : Catalog!Resolve(c, root, pins)
    <3>1. PICK pins \in SUBSET receipts : \E root \in pins : Catalog!Resolve(c, root, pins)
      BY <2>1
    <3>2. PICK root \in pins : Catalog!Resolve(c, root, pins)
      BY <3>1
    <3>3. GoodOrder(Catalog!InstallOrder(pins, root), receipts)
      BY <3>2, OrderOfReports DEF Catalog!Resolve
    <3>4. command' = [command EXCEPT ![c] =
                        [phase |-> "resolved", order |-> Catalog!InstallOrder(pins, root)]]
      BY <3>2 DEF Catalog!Resolve
    <3> QED
      BY <3>3, <3>4
  <2>2. CASE Catalog!OpenLock(c)
    BY <1>2, <2>2 DEF Catalog!OpenLock
  <2>3. CASE Catalog!FillLock(c)
    BY <1>2, <2>3 DEF Catalog!FillLock
  <2>4. CASE Catalog!RenameLock(c)
    <3>1. CASE d # c /\ command'[d] # command[d]
      <4>1. /\ command[d].phase = "open"
            /\ \E at : command'[d] = [command[d] EXCEPT !.at = at]
        BY <2>4, <3>1 DEF Catalog!RenameLock, Catalog!Moved
      <4>2. /\ command[d] = [phase |-> "open", order |-> command[d].order, at |-> command[d].at]
            /\ GoodOrder(command[d].order, receipts)
        BY <4>1 DEF InstallInv
      <4>3. \E at : command'[d] = [phase |-> "open", order |-> command[d].order, at |-> at]
        BY <4>1, <4>2
      <4> QED
        BY <4>2, <4>3
    <3>2. CASE d = c
      <4>1. \/ command'[c] = Catalog!Idle
            \/ command'[c] = [command[c] EXCEPT !.phase = "locked"]
        BY <2>4 DEF Catalog!RenameLock
      <4>2. /\ command[c] = [phase |-> "filled", order |-> command[c].order]
            /\ GoodOrder(command[c].order, receipts)
        BY <1>2, <2>4 DEF Catalog!RenameLock
      <4>3. \/ command'[c] = Catalog!Idle
            \/ command'[c] = [phase |-> "locked", order |-> command[c].order]
        BY <4>1, <4>2
      <4> QED
        BY <3>2, <4>2, <4>3 DEF Catalog!Idle
    <3> QED
      BY <3>1, <3>2
  <2>5. CASE Catalog!ReportLock(c)
    BY <2>5 DEF Catalog!ReportLock, Catalog!Idle
  <2> QED
    BY <2>1, <2>2, <2>3, <2>4, <2>5 DEF Catalog!Lock
<1>5. \A d \in Commands : command'[d].phase = "installing" => command'[d] = command[d]
  BY <1>4
<1>6. \A d, e \in Commands :
          command'[d].phase = "installing" /\ command'[e].phase = "installing" => d = e
  BY <1>5 DEF InstallInv
<1> QED
  BY <1>1, <1>3, <1>4, <1>5, <1>6, InstallStep

\* Admission reads packages with receipts, which are then installed.
LEMMA AdmissionInstalls ==
  ASSUME CatalogInv, InstallInv, NEW c \in Commands, NEW required \in Requirements,
         \/ \E expected \in issued : Catalog!BeginInstall(c, expected, required)
         \/ \E p \in receipts : Catalog!BeginInstallOne(c, p, required)
  PROVE  InstallInv'
<1> USE DEF CatalogInv, CatalogShape, Catalog!Goto, Catalog!Install, Catalog!catalog,
            Catalog!locks, Catalog!works
<1>1. UNCHANGED <<receipts, issued, workTemp, workspace>>
  BY DEF Catalog!BeginInstall, Catalog!BeginInstallOne
<1>2. PICK m :
          /\ command' = [command EXCEPT ![c] = m]
          /\ m = [phase |-> "admitted", todo |-> m.todo, expected |-> m.expected,
                  required |-> required]
          /\ m.todo \in Seq(receipts)
          /\ \/ m.expected = Catalog!Absent
             \/ m.todo \in issued /\ m.expected = Catalog!Whole(m.todo)
  <2> DEFINE Admission(todo, expected) ==
                 [phase |-> "admitted", todo |-> todo, expected |-> expected,
                  required |-> required]
  <2>1. PICK todo, expected :
            /\ command' = [command EXCEPT ![c] = Admission(todo, expected)]
            /\ todo \in Seq(receipts)
            /\ \/ expected = Catalog!Absent
               \/ todo \in issued /\ expected = Catalog!Whole(todo)
    <3>1. CASE \E lock_order \in issued : Catalog!BeginInstall(c, lock_order, required)
      <4>1. PICK lock_order \in issued : Catalog!BeginInstall(c, lock_order, required)
        BY <3>1
      <4>2. lock_order \in Seq(receipts)
        BY DEF InstallInv, GoodOrder
      <4>3. command' = [command EXCEPT ![c] = Admission(lock_order, Catalog!Whole(lock_order))]
        BY <4>1 DEF Catalog!BeginInstall
      <4> HIDE DEF Admission
      <4> QED
        BY <4>2, <4>3
    <3>2. CASE \E p \in receipts : Catalog!BeginInstallOne(c, p, required)
      <4>1. PICK p \in receipts : Catalog!BeginInstallOne(c, p, required)
        BY <3>2
      <4>2. command' = [command EXCEPT ![c] = Admission(<<p>>, Catalog!Absent)]
        BY <4>1 DEF Catalog!BeginInstallOne
      <4>3. <<p>> \in Seq(receipts)
        OBVIOUS
      <4> HIDE DEF Admission
      <4> QED
        BY <4>2, <4>3
    <3> QED
      BY <3>1, <3>2
  <2>2. PICK m : m = Admission(todo, expected)
    OBVIOUS
  <2>3. m = Admission(m.todo, m.expected) /\ m.todo = todo /\ m.expected = expected
    BY <2>2
  <2> QED
    BY <2>1, <2>2, <2>3
<1>3. Resolved(m, receipts) /\ Admitted(m, receipts, issued) /\ m.phase # "installing"
  BY <1>2 DEF Resolved, Admitted
<1>4. \A d \in Commands : command'[d] = IF d = c THEN m ELSE command[d]
  BY <1>2
<1>5. \A d, e \in Commands :
          command'[d].phase = "installing" /\ command'[e].phase = "installing" => d = e
  BY <1>3, <1>4 DEF InstallInv
<1>6. IsFiniteSet(receipts)
  BY DEF InstallInv
<1> QED
  BY <1>1, <1>3, <1>4, <1>5, <1>6, InstallStep

\* The directory is new, so no other process installs.
LEMMA MakeWorkspaceInstalls ==
  ASSUME CatalogInv, InstallInv, NEW c \in Commands, Catalog!MakeWorkspace(c)
  PROVE  InstallInv'
<1> USE DEF CatalogInv, CatalogShape, Catalog!In, Catalog!Goto, Catalog!GotoPhase,
            Catalog!catalog, Catalog!locks
<1> DEFINE m == command[c]
<1>1. UNCHANGED <<receipts, issued, workspace>> /\ IsFiniteSet(receipts)
  BY DEF InstallInv, Catalog!MakeWorkspace
<1>2. CASE workTemp # Catalog!Absent
  <2>1. command' = [command EXCEPT ![c] = Catalog!Idle] /\ UNCHANGED workTemp
    BY <1>2 DEF Catalog!MakeWorkspace
  <2>2. \A d \in Commands : command'[d] = command[d] \/ Quiet(command'[d])
    BY <2>1 DEF Quiet, Catalog!Idle
  <2> QED
    BY <1>1, <2>1, <2>2, InstallFrame
<1>3. CASE workTemp = Catalog!Absent
  <2>1. \A d \in Commands : command[d].phase # "installing"
    BY <1>3, WholeIsThere DEF InstallInv, Fills
  <2>2. Admitted(m, receipts, issued) /\ m.phase = "admitted"
    BY DEF InstallInv, Catalog!MakeWorkspace
  <2>3. workTemp' = Catalog!Whole(<<>>) /\ command' = [command EXCEPT ![c].phase = "installing"]
    BY <1>3 DEF Catalog!MakeWorkspace
  <2>4. PICK n : n = [phase |-> "installing", todo |-> m.todo, expected |-> m.expected,
                      required |-> m.required]
    OBVIOUS
  <2>5. m = [phase |-> "admitted", todo |-> m.todo, expected |-> m.expected,
             required |-> m.required]
    BY <2>2 DEF Admitted
  <2>6. command' = [command EXCEPT ![c] = n]
    <3>1. [m EXCEPT !.phase = "installing"] = n
      BY <2>4, <2>5
    <3>2. command' = [command EXCEPT ![c] = [m EXCEPT !.phase = "installing"]]
      BY <2>3
    <3> QED
      BY <3>1, <3>2
  <2>7. Resolved(n, receipts) /\ Admitted(n, receipts, issued)
    BY <2>2, <2>4 DEF Resolved, Admitted
  <2>8. Fills(n, workTemp', receipts)
    <3>1. <<>> \in Seq(receipts) /\ <<>> \o m.todo = m.todo
      BY <2>2 DEF Admitted
    <3> QED
      BY <2>2, <2>3, <2>4, <3>1 DEF Fills, Admitted
  <2>9. \A d \in Commands : command'[d] = IF d = c THEN n ELSE command[d]
    BY <2>6
  <2>10. \A d \in Commands : command'[d].phase = "installing" => d = c
    BY <2>1, <2>9
  <2> QED
    BY <1>1, <2>7, <2>8, <2>9, <2>10, InstallStep
<1> QED
  BY <1>2, <1>3

\* Moving the first of what is to come to the end of what is done.
LEMMA MovedOver ==
  ASSUME NEW S, NEW done \in Seq(S), NEW todo \in Seq(S), todo # <<>>
  PROVE  Append(done, Head(todo)) \o Tail(todo) = done \o todo
<1>1. /\ Head(todo) \in S /\ Tail(todo) \in Seq(S) /\ <<Head(todo)>> \in Seq(S)
      /\ Append(done, Head(todo)) = done \o <<Head(todo)>>
      /\ todo = <<Head(todo)>> \o Tail(todo)
  OBVIOUS
<1> QED
  BY <1>1, ConcatAssociative

\* What an installing process remembers, and how it goes on.
Installer(todo, expected, required) ==
    [phase |-> "installing", todo |-> todo, expected |-> expected, required |-> required]

LEMMA InstallerGoesOn ==
  ASSUME NEW m, m = Installer(m.todo, m.expected, m.required), NEW next
  PROVE  [m EXCEPT !.todo = next] = Installer(next, m.expected, m.required)
<1> DEFINE after == Installer(next, m.expected, m.required)
           Fields == {"phase", "todo", "expected", "required"}
<1>1. [m EXCEPT !.todo = next] = [f \in DOMAIN m |-> IF f = "todo" THEN next ELSE m[f]]
  OBVIOUS
<1>2. after = [f \in DOMAIN after |-> after[f]]
  BY DEF Installer
<1>3. DOMAIN m = Fields /\ m.phase = "installing"
  <2>1. PICK todo, expected, required : m = Installer(todo, expected, required)
    OBVIOUS
  <2> QED
    BY <2>1 DEF Installer
<1>4. DOMAIN after = Fields
  BY DEF Installer
<1>5. \A f \in Fields : after[f] = IF f = "todo" THEN next ELSE m[f]
  <2>1. /\ after.phase = m.phase /\ after.todo = next
        /\ after.expected = m.expected /\ after.required = m.required
    BY <1>3 DEF Installer
  <2> QED
    BY <2>1
<1> QED
  BY <1>1, <1>2, <1>3, <1>4, <1>5

\* Every package is read against its digest: what is copied is what was to come.
LEMMA InstallNextInstalls ==
  ASSUME CatalogInv, InstallInv, NEW c \in Commands, Catalog!InstallNext(c)
  PROVE  InstallInv'
<1> USE DEF CatalogInv, CatalogShape, Catalog!In, Catalog!Goto, Catalog!catalog, Catalog!locks
<1> DEFINE m == command[c]
           p == Head(m.todo)
<1>1. UNCHANGED <<receipts, issued, workspace>> /\ IsFiniteSet(receipts)
  BY DEF InstallInv, Catalog!InstallNext
<1>2. /\ m.phase = "installing" /\ m.todo # <<>>
      /\ Admitted(m, receipts, issued) /\ Fills(m, workTemp, receipts)
      /\ \A d \in Commands : command[d].phase = "installing" => d = c
  BY DEF InstallInv, Catalog!InstallNext
<1>3. CASE workTemp' = Catalog!Absent /\ command' = [command EXCEPT ![c] = Catalog!Idle]
  <2>1. \A d \in Commands : command'[d] = IF d = c THEN Catalog!Idle ELSE command[d]
    BY <1>3
  <2>2. \A d \in Commands : command'[d].phase # "installing"
    BY <1>2, <2>1 DEF Catalog!Idle
  <2>3. Resolved(Catalog!Idle, receipts) /\ Admitted(Catalog!Idle, receipts, issued)
    BY DEF Resolved, Admitted, Catalog!Idle
  <2> QED
    BY <1>1, <2>1, <2>2, <2>3, InstallStep
<1>4. CASE /\ Catalog!Reads(p)
           /\ workTemp' = Catalog!Whole(Append(workTemp.content, bundle[p.release].content))
           /\ command' = [command EXCEPT ![c].todo = Tail(@)]
  <2>1. PICK done \in Seq(receipts) :
            /\ workTemp = Catalog!Whole(done)
            /\ m.expected # Catalog!Absent => m.expected = Catalog!Whole(done \o m.todo)
    BY <1>2 DEF Fills
  <2>2. workTemp' = Catalog!Whole(Append(done, p))
    BY <1>4, <2>1 DEF Catalog!Reads, Catalog!Whole
  <2>3. PICK n : n = [phase |-> "installing", todo |-> Tail(m.todo), expected |-> m.expected,
                      required |-> m.required]
    OBVIOUS
  <2>4. m = [phase |-> "installing", todo |-> m.todo, expected |-> m.expected,
             required |-> m.required]
    BY <1>2 DEF Admitted
  <2>5. command' = [command EXCEPT ![c] = n]
    <3>1. [m EXCEPT !.todo = Tail(@)] = n
      <4>1. [m EXCEPT !.todo = Tail(@)] = [m EXCEPT !.todo = Tail(m.todo)]
        OBVIOUS
      <4>2. m = Installer(m.todo, m.expected, m.required)
        BY <2>4 DEF Installer
      <4>3. n = Installer(Tail(m.todo), m.expected, m.required)
        BY <2>3 DEF Installer
      <4> HIDE DEF m
      <4>4. [m EXCEPT !.todo = Tail(m.todo)] = Installer(Tail(m.todo), m.expected, m.required)
        BY <4>2, InstallerGoesOn
      <4> QED
        BY <4>1, <4>3, <4>4
    <3>2. command' = [command EXCEPT ![c] = [m EXCEPT !.todo = Tail(@)]]
      BY <1>4
    <3> QED
      BY <3>1, <3>2
  <2>6. /\ m.todo \in Seq(receipts) /\ p \in receipts /\ Tail(m.todo) \in Seq(receipts)
        /\ Append(done, p) \in Seq(receipts)
    BY <1>2 DEF Admitted
  <2>7. Append(done, p) \o Tail(m.todo) = done \o m.todo
    BY <1>2, <2>6, MovedOver
  <2>8. Resolved(n, receipts) /\ Admitted(n, receipts, issued)
    BY <1>2, <2>3, <2>6 DEF Resolved, Admitted
  <2>9. Fills(n, workTemp', receipts)
    BY <2>1, <2>2, <2>3, <2>6, <2>7 DEF Fills
  <2>10. \A d \in Commands : command'[d] = IF d = c THEN n ELSE command[d]
    BY <2>5
  <2>11. \A d \in Commands : command'[d].phase = "installing" => d = c
    BY <1>2, <2>10
  <2> QED
    BY <1>1, <2>8, <2>9, <2>10, <2>11, InstallStep
<1> QED
  BY <1>3, <1>4 DEF Catalog!InstallNext

\* When nothing is to come, the directory is the lock.
LEMMA PublishWorkspaceInstalls ==
  ASSUME CatalogInv, InstallInv, NEW c \in Commands, Catalog!PublishWorkspace(c)
  PROVE  InstallInv'
<1> USE DEF CatalogInv, CatalogShape, Catalog!In, Catalog!Goto, Catalog!catalog, Catalog!locks
<1> DEFINE m == command[c]
<1>1. UNCHANGED <<receipts, issued>> /\ IsFiniteSet(receipts)
  BY DEF InstallInv, Catalog!PublishWorkspace
<1>2. /\ m.phase = "installing" /\ m.todo = <<>>
      /\ Admitted(m, receipts, issued) /\ Fills(m, workTemp, receipts)
      /\ \A d \in Commands : command[d].phase = "installing" => d = c
  BY DEF InstallInv, Catalog!PublishWorkspace
<1>3. command' = [command EXCEPT ![c] = Catalog!Idle]
  BY DEF Catalog!PublishWorkspace
<1>4. workspace' = workspace \/ workspace' = [packages |-> workTemp, lock |-> m.expected]
  BY DEF Catalog!PublishWorkspace
<1>5. workspace' = workspace \/ Installed(workspace', receipts, issued)
  <2>1. PICK done \in Seq(receipts) :
            /\ workTemp = Catalog!Whole(done)
            /\ m.expected # Catalog!Absent => m.expected = Catalog!Whole(done \o m.todo)
    BY <1>2 DEF Fills
  <2>2. done \o m.todo = done
    BY <1>2
  <2>3. m.expected # Catalog!Absent => m.expected = Catalog!Whole(done) /\ done \in issued
    BY <1>2, <2>1, <2>2, WholeIsThere DEF Admitted
  <2> QED
    BY <1>4, <2>1, <2>3 DEF Installed
<1>6. \A d \in Commands : command'[d] = IF d = c THEN Catalog!Idle ELSE command[d]
  BY <1>3
<1>7. \A d \in Commands : command'[d].phase # "installing"
  BY <1>2, <1>6 DEF Catalog!Idle
<1>8. Resolved(Catalog!Idle, receipts) /\ Admitted(Catalog!Idle, receipts, issued)
  BY DEF Resolved, Admitted, Catalog!Idle
<1> QED
  BY <1>1, <1>5, <1>6, <1>7, <1>8, InstallStep

LEMMA InstallEmpty == Catalog!Init => InstallInv
<1> SUFFICES ASSUME Catalog!Init PROVE InstallInv
  OBVIOUS
<1>1. \A c \in Commands : command[c] = Catalog!Idle
  BY DEF Catalog!Init
<1>2. receipts = {} /\ issued = {} /\ workspace = Catalog!Absent
  BY DEF Catalog!Init
<1> QED
  BY <1>1, <1>2, FS_EmptySet DEF InstallInv, Resolved, Admitted, Installed, Catalog!Idle

LEMMA InstallKept ==
  ASSUME OrderIsRight, CatalogInv, InstallInv, [Catalog!Next]_(Catalog!vars)
  PROVE  InstallInv'
<1>1. CASE UNCHANGED Catalog!vars
  BY <1>1 DEF Catalog!vars, InstallInv
<1>2. CASE Catalog!Surroundings
  BY <1>2, AroundInstalls
<1>3. ASSUME NEW c \in Commands, Catalog!Materialize(c)
      PROVE  InstallInv'
  BY <1>3, AdmissionInstalls, MakeWorkspaceInstalls, InstallNextInstalls,
     PublishWorkspaceInstalls DEF Catalog!Materialize
<1>4. ASSUME NEW c \in Commands, Catalog!Store(c) \/ Catalog!Lock(c) \/ Catalog!Crash(c)
      PROVE  InstallInv'
  BY <1>4, StoreInstalls, LockInstalls, AroundInstalls
<1> QED
  BY <1>1, <1>2, <1>3, <1>4 DEF Catalog!Next

-----------------------------------------------------------------------------
(* The commands together.                                                      *)

\* A debug command leaves the catalog alone, and a package command is one of the
\* catalog: what the command line does to packages is what PackageCatalog says.
THEOREM CommandsRunCatalog == CommandSpec => Catalog!Spec
<1>1. CommandInit => Catalog!Init
  BY DEF CommandInit
<1>2. [CommandNext]_<<sessionVars, catalogVars>> => [Catalog!Next]_(Catalog!vars)
  BY DEF CommandNext, catalogVars, Catalog!vars
<1> QED
  BY <1>1, <1>2, PTL DEF CommandSpec, Catalog!Spec

\* For any number of processes and releases, what a command reported as stored
\* stays in the catalog, whoever stores beside it and dies where
\* (PortableDesignCatalog.store_package).
THEOREM StoredIsKept == CommandSpec => []ReceiptsHold
<1>1. CatalogInv => ReceiptsHold
  BY DEF CatalogInv, ReceiptsHold
<1> QED
  BY <1>1, CommandsRunCatalog, CatalogEmpty, CatalogStep, PTL DEF Catalog!Spec

\* What is installed under a lock is what that lock says, a lock some command
\* reported, of reported packages, each after everything it was built on and none
\* without use: for any number of processes and packages, whatever happens to lock
\* and catalog meanwhile (DependencyClosedCatalog.materialize), if the install order
\* is right.
THEOREM InstalledIsClosed ==
  ASSUME OrderIsRight
  PROVE  CommandSpec => []WorkspaceIsClosed
<1>1. InstallInv => WorkspaceIsClosed
  <2> SUFFICES ASSUME InstallInv, workspace # Catalog!Absent
               PROVE  LET packages == workspace.packages.content
                      IN  /\ Catalog!ToSet(packages) \subseteq receipts
                          /\ workspace.lock # Catalog!Absent =>
                                 /\ workspace.lock = workspace.packages
                                 /\ packages \in issued
                                 /\ Right(packages)
    BY DEF WorkspaceIsClosed, Catalog!WorkspaceIsClosed, Right
  <2>1. PICK done \in Seq(receipts) :
            /\ workspace.packages = Catalog!Whole(done)
            /\ workspace.lock # Catalog!Absent =>
                   workspace.lock = workspace.packages /\ done \in issued
    BY DEF InstallInv, Installed
  <2>2. workspace.packages.content = done
    BY <2>1, WholeIsThere
  <2>3. Catalog!ToSet(done) \subseteq receipts
    BY DEF Catalog!ToSet
  <2> QED
    BY <2>1, <2>2, <2>3 DEF InstallInv, GoodOrder
<1>2. CatalogInv /\ InstallInv /\ [Catalog!Next]_(Catalog!vars) => CatalogInv' /\ InstallInv'
  BY CatalogStep, InstallKept
<1> QED
  BY <1>1, <1>2, CommandsRunCatalog, CatalogEmpty, InstallEmpty, PTL DEF Catalog!Spec

\* The waveform of a debug command, or none.
BlockInv ==
    \/ block = "fifo" /\ IInv
    \/ block = "skid buffer" /\ SkidInv
    \/ block = "none" /\ findings = {} /\ honest

LEMMA BlockInductive == CommandSpec => []BlockInv
<1>1. CommandInit => BlockInv
  BY FifoAssumption, InitInv, SkidInitInv DEF CommandInit, SessionInit, NoSession, BlockInv
<1>2. BlockInv /\ [CommandNext]_<<sessionVars, catalogVars>> => BlockInv'
  <2> SUFFICES ASSUME BlockInv, [CommandNext]_<<sessionVars, catalogVars>>
               PROVE  BlockInv'
    OBVIOUS
  <2>1. CASE block = "fifo"
    <3>1. IInv /\ [Next]_vars /\ UNCHANGED block
      BY <2>1 DEF BlockInv, CommandNext, SessionNext, sessionVars
    <3> QED
      BY <2>1, <3>1, NextInv DEF BlockInv
  <2>2. CASE block = "skid buffer"
    <3>1. SkidInv /\ [Skid!Next]_(Skid!vars) /\ UNCHANGED block
      BY <2>2 DEF BlockInv, CommandNext, SessionNext, sessionVars, vars, rtlVars, analyzerVars,
                  observerVars, Skid!vars
    <3> QED
      BY <2>2, <3>1, FifoAssumption, SkidNextInv DEF BlockInv
  <2>3. CASE block = "none"
    <3>1. UNCHANGED sessionVars /\ findings = {} /\ honest
      BY <2>3 DEF BlockInv, CommandNext, SessionNext
    <3> QED
      BY <2>3, <3>1 DEF BlockInv, sessionVars, vars, rtlVars, analyzerVars, observerVars
  <2> QED
    BY <2>1, <2>2, <2>3 DEF BlockInv
<1> QED
  BY <1>1, <1>2, PTL DEF CommandSpec

\* Whichever block a debug command is about, a simulation of its RTL source leaves
\* no finding (fifo_debug.py, skid_buffer_debug.py).
THEOREM NoCommandBlamesTheSource == CommandSpec => []NoFalseFinding
<1>1. BlockInv => NoFalseFinding
  BY DEF BlockInv, IInv, RtlInv, SkidInv, Skid!NoFalseFinding, NoFalseFinding
<1> QED
  BY <1>1, BlockInductive, PTL

\* Whichever block it is about, a trace it finds nothing in, of a design whose
\* status signals change at clock edges only, keeps the promises of the block at
\* its interface: those of a FIFO, or that a skid buffer loses and makes up no word.
THEOREM CleanMeansConforming == CommandSpec => []CleanTraceConforms
<1>1. BlockInv => CleanTraceConforms
  BY DEF BlockInv, IInv, Agreement, SkidInv, SkidAgreement, CleanTraceConforms
<1> QED
  BY <1>1, BlockInductive, PTL
=============================================================================
