---------------------------- MODULE WaveformDebug ----------------------------
(* A debug session of the command line: over the waveform of a FIFO or over    *)
(* that of a skid buffer.                                                      *)
EXTENDS FifoDebug

VARIABLES block,  \* the block a session is about
          held    \* observer of the skid buffer

Skid == INSTANCE SkidBufferDebug

fifoOnly == <<memory, queue_known, queued_words, words>>

SessionInit ==
    \/ block = "fifo" /\ Init /\ held = 0
    \/ /\ block = "skid buffer" /\ Skid!Init
       /\ memory = [location \in 0 .. MaxPointer |-> Zero]
       /\ queue_known = FALSE /\ queued_words = <<>> /\ words = <<>>

SessionNext ==
    \/ block = "fifo" /\ Next /\ UNCHANGED <<block, held>>
    \/ block = "skid buffer" /\ Skid!Next /\ UNCHANGED <<block, fifoOnly>>

SessionSpec == SessionInit /\ [][SessionNext]_<<vars, block, held>>
=============================================================================
