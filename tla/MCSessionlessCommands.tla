------------------------ MODULE MCSessionlessCommands ------------------------
\* Small instances of WaveformDebug and PackageCatalog for TLC.
EXTENDS SessionlessCommands, FiniteSetsExt, TLC

CONSTANTS c1, c2

\* A diamond: 3 is built on 1 and 2, and 1 on 2.  Sorted by id, a dependency
\* would come after what is built on it.
MCReleases == [id : 1 .. 3, version : {1}]
MCNeeds == <<{2}, {}, {1, 2}>>
MCDepends == [r \in MCReleases |-> MCNeeds[r.id]]
MCPorts == <<{}, {"s_ready"}, {"s_ready"}>>
MCRequirements == {{"s_ready"}}
Symmetry == Permutations({c1, c2})

\* Two texts of each design, and what can be built on them.
MCTexts(id, deps) == {Catalog!Package([id |-> id, version |-> 1], text, deps) : text \in 0 .. 1}
MCPackages ==
    LET second == MCTexts(2, {})
        first == UNION {MCTexts(1, {p}) : p \in second}
    IN  second \cup first \cup UNION {MCTexts(3, {p, q}) : p \in first, q \in second}

\* The install order of packages that close is right: the hypothesis OrderIsRight
\* of the proof that a workspace is closed, for these packages.
ASSUME MCOrderIsRight ==
    \A packages \in UNION {kSubset(n, MCPackages) : n \in 1 .. 3} : \A root \in packages :
        Catalog!Closes(packages, root) =>
            LET order == Catalog!InstallOrder(packages, root)
            IN  /\ order \in Seq(packages)
                /\ Catalog!DependenciesFirst(order)
                /\ Catalog!EachIsNeeded(order)
                /\ Catalog!IsInjective(order)
=============================================================================
