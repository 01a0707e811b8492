------------------------- MODULE SessionlessCommands -------------------------
(* What the command line does beside design sessions and repairs: it debugs a  *)
(* waveform, or it keeps a catalog of packages.  The two share nothing; a      *)
(* behaviour is one of the one or of the other.                                *)
EXTENDS WaveformDebug

CONSTANTS Commands, Releases, Depends, Ports, Requirements, MaxTrouble

VARIABLES source, evidence, bundle, staged, lock, lockTemp, workspace, workTemp,
          receipts, issued, command, trouble

Catalog == INSTANCE PackageCatalog

catalogVars == <<source, evidence, bundle, staged, lock, lockTemp, workspace, workTemp,
                 receipts, issued, command, trouble>>
sessionVars == <<vars, block, held>>

NoSession ==
    /\ block = "none"
    /\ correct = TRUE /\ reg = Status(0, 0, 0)
    /\ memory = [location \in 0 .. MaxPointer |-> Zero]
    /\ queue_known = FALSE /\ queued_words = <<>> /\ findings = {}
    /\ reset_seen = FALSE /\ words = <<>> /\ held = 0 /\ honest = TRUE

CommandInit == Catalog!Init /\ (SessionInit \/ NoSession)

CommandNext ==
    \/ SessionNext /\ UNCHANGED catalogVars
    \/ block = "none" /\ Catalog!Next /\ UNCHANGED sessionVars

CommandSpec == CommandInit /\ [][CommandNext]_<<sessionVars, catalogVars>>

\* Reported packages stay in the catalog as they were reported
\* (PortableDesignCatalog.store_package).
ReceiptsHold == Catalog!ReceiptsHold

\* What is installed is a closed set of reported packages under a reported
\* lock (DependencyClosedCatalog.materialize).
WorkspaceIsClosed == Catalog!WorkspaceIsClosed
=============================================================================
