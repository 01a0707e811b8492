------------------------------ MODULE FifoDebug ------------------------------
(* The debug session over a waveform of a synchronous FIFO: at every rising    *)
(* edge of the clock the analyzer samples the signals before and after it,     *)
(* checks the contract of the FIFO and keeps a queue of the words that should  *)
(* be inside.  The waveform comes from a simulation either of the RTL source   *)
(* of the FIFO or of any design at all with the same signals.                  *)
(*                                                                             *)
(* A step is one edge.  Signals are known at every edge (a session over an     *)
(* unknown value is refused), the status signals change at edges only, and the *)
(* selected interval starts with the trace.  A trace is followed to its first  *)
(* edge with a finding.                                                        *)
EXTENDS Integers, Sequences

CONSTANTS Depth,       \* number of words the FIFO holds
          Words,       \* what a word may be
          Zero,        \* the data output of an empty FIFO
          MaxLevel,    \* greatest numbers on the wires of level and
          MaxPointer   \* of a pointer

ASSUME FifoAssumption ==
    /\ Depth \in Nat /\ Depth >= 2
    /\ Zero \in Words
    /\ MaxLevel \in Nat /\ MaxLevel >= Depth
    /\ MaxPointer \in Nat /\ MaxPointer >= Depth - 1

VARIABLES
    correct,       \* is the design the RTL source?
    reg,           \* status signals since the last edge
    memory,        \* the memory of the RTL source
    queue_known,   \* analyzer: are the words inside known?
    queued_words,  \* analyzer: the words inside
    findings,      \* analyzer: what it found
    reset_seen,    \* has the trace been through a reset?
    words,         \* words accepted since and not yet delivered
    honest         \* has the interface behaved as a FIFO since?

rtlVars == <<reg, memory>>
analyzerVars == <<queue_known, queued_words, findings>>
observerVars == <<reset_seen, words, honest>>
vars == <<correct, rtlVars, analyzerVars, observerVars>>

Registers == [level : 0 .. MaxLevel, full : BOOLEAN, empty : BOOLEAN,
              write_pointer : 0 .. MaxPointer, read_pointer : 0 .. MaxPointer]

\* Signals sampled just before an edge
Samples == [rst_n : BOOLEAN,
            wr_valid : BOOLEAN, wr_ready : BOOLEAN, write_accepted : BOOLEAN, wr_data : Words,
            rd_valid : BOOLEAN, rd_ready : BOOLEAN, read_accepted : BOOLEAN, rd_data : Words]

Writes(s) == s.wr_valid /\ s.wr_ready
Reads(s) == s.rd_valid /\ s.rd_ready

-----------------------------------------------------------------------------
(* The RTL source.                                                             *)

Status(level, write_pointer, read_pointer) ==
    [level |-> level, full |-> level = Depth, empty |-> level = 0,
     write_pointer |-> write_pointer, read_pointer |-> read_pointer]

\* Combinational outputs
RtlSample(rst_n, wr_valid, wr_data, rd_ready) ==
    LET rd_valid == ~reg.empty
        read_accepted == rd_valid /\ rd_ready
        wr_ready == ~reg.full \/ read_accepted
    IN [rst_n |-> rst_n,
        wr_valid |-> wr_valid, wr_ready |-> wr_ready,
        write_accepted |-> wr_valid /\ wr_ready, wr_data |-> wr_data,
        rd_valid |-> rd_valid, rd_ready |-> rd_ready, read_accepted |-> read_accepted,
        rd_data |-> IF rd_valid THEN memory[reg.read_pointer] ELSE Zero]

Advance(pointer) == IF pointer = Depth - 1 THEN 0 ELSE pointer + 1

RtlRegisters(s) ==
    IF ~s.rst_n THEN Status(0, 0, 0)
    ELSE Status(IF s.write_accepted = s.read_accepted THEN reg.level
                ELSE IF s.write_accepted THEN reg.level + 1 ELSE reg.level - 1,
                IF s.write_accepted THEN Advance(reg.write_pointer) ELSE reg.write_pointer,
                IF s.read_accepted THEN Advance(reg.read_pointer) ELSE reg.read_pointer)

RtlMemory(s) ==
    IF s.rst_n /\ s.write_accepted THEN [memory EXCEPT ![reg.write_pointer] = s.wr_data]
    ELSE memory

-----------------------------------------------------------------------------
(* The analyzer.                                                               *)

When(wrong, kind, requirement) ==
    IF wrong THEN {[kind |-> kind, requirement |-> requirement]} ELSE {}

\* Mutant: a full FIFO never accepts a word.
HandshakeFindingsIgnoringReads(s) ==
         When(s.write_accepted # Writes(s), "write-handshake", "fifo.write")
    \cup When(s.read_accepted # Reads(s), "read-handshake", "fifo.read")
    \cup When(s.wr_ready # ~reg.full, "backpressure", "fifo.backpressure")
    \cup When(s.rd_valid # ~reg.empty, "read-valid", "fifo.status")

\* Handshakes and backpressure, from signals before the edge
HandshakeFindings(s) ==
         When(s.write_accepted # Writes(s), "write-handshake", "fifo.write")
    \cup When(s.read_accepted # Reads(s), "read-handshake", "fifo.read")
    \cup When(s.wr_ready # (~reg.full \/ Reads(s)), "backpressure", "fifo.backpressure")
    \cup When(s.rd_valid # ~reg.empty, "read-valid", "fifo.status")

Count(accepted) == IF accepted THEN 1 ELSE 0

ExpectedLevel(s) ==
    IF s.rst_n THEN reg.level + Count(Writes(s)) - Count(Reads(s)) ELSE 0

ExpectedPointer(s, pointer, accepted) ==
    IF ~s.rst_n THEN 0
    ELSE IF accepted THEN (pointer + 1) % Depth ELSE pointer

TransferRequirement(s) ==
    IF Writes(s) THEN IF Reads(s) THEN "fifo.simultaneous" ELSE "fifo.write"
    ELSE IF Reads(s) THEN "fifo.read" ELSE "fifo.status"

\* Mutant: level and pointers are not compared with the transfers.
StatusFindingsWithoutTransfers(s, after) ==
         When(after.full # (after.level = Depth), "full", "fifo.status")
    \cup When(after.empty # (after.level = 0), "empty", "fifo.status")

\* Level, flags and pointers after the edge
StatusFindings(s, after) ==
         When(after.level # ExpectedLevel(s), "level", TransferRequirement(s))
    \cup When(after.full # (after.level = Depth), "full", "fifo.status")
    \cup When(after.empty # (after.level = 0), "empty", "fifo.status")
    \cup When(after.write_pointer # ExpectedPointer(s, reg.write_pointer, Writes(s)),
              "write-pointer", IF Writes(s) THEN "fifo.wrap" ELSE "fifo.write")
    \cup When(after.read_pointer # ExpectedPointer(s, reg.read_pointer, Reads(s)),
              "read-pointer", IF Reads(s) THEN "fifo.wrap" ELSE "fifo.read")

\* The words inside are known from the first reset or empty level on.
Known(s) == queue_known \/ reg.level = 0 \/ ~s.rst_n
Delivers(s) == s.rst_n /\ Reads(s) /\ Known(s)

OrderFindings(s) ==
         When(Delivers(s) /\ queued_words = <<>>, "underflow", "fifo.read")
    \cup When(Delivers(s) /\ queued_words # <<>> /\ s.rd_data # Head(queued_words),
              "ordering", "fifo.order")

Queue(s) ==
    LET retained == IF Delivers(s) /\ queued_words # <<>> THEN Tail(queued_words)
                    ELSE queued_words
    IN IF ~s.rst_n THEN <<>>
       ELSE IF Writes(s) /\ Known(s) THEN Append(retained, s.wr_data) ELSE retained

Analyze(s, after) ==
    /\ findings' = findings \cup HandshakeFindings(s) \cup StatusFindings(s, after)
                            \cup OrderFindings(s)
    /\ queue_known' = (Known(s) \/ after.level = 0)
    /\ queued_words' = Queue(s)

-----------------------------------------------------------------------------
(* An observer of the interface alone, who knows what a FIFO promises.         *)

Conforms(s) ==
    /\ s.wr_ready = (Len(words) < Depth \/ Reads(s))
    /\ s.rd_valid = (words # <<>>)
    /\ Reads(s) /\ words # <<>> => s.rd_data = Head(words)

Observe(s) ==
    /\ reset_seen' = (reset_seen \/ ~s.rst_n)
    /\ honest' = (honest /\ (reset_seen /\ s.rst_n => Conforms(s)))
    /\ words' = LET kept == IF Reads(s) /\ words # <<>> THEN Tail(words) ELSE words
                IN IF ~(reset_seen /\ s.rst_n) THEN <<>>
                   ELSE IF Writes(s) THEN Append(kept, s.wr_data) ELSE kept

-----------------------------------------------------------------------------
Edge(s, after) ==
    /\ reg' = after
    /\ Analyze(s, after) /\ Observe(s)
    /\ UNCHANGED correct

\* The test bench holds the reset from power-up on.
RtlEdge(rst_n, wr_valid, wr_data, rd_ready) ==
    /\ correct /\ findings = {}
    /\ rst_n => reset_seen
    /\ LET s == RtlSample(rst_n, wr_valid, wr_data, rd_ready)
       IN Edge(s, RtlRegisters(s)) /\ memory' = RtlMemory(s)

AnyEdge ==
    /\ ~correct /\ findings = {}
    /\ \E s \in Samples, after \in Registers : Edge(s, after)
    /\ UNCHANGED memory

\* Registers power up with any value.
Init ==
    /\ correct \in BOOLEAN
    /\ reg \in Registers
    /\ correct => reg = Status(reg.level, reg.write_pointer, reg.read_pointer)
    /\ memory \in [0 .. MaxPointer -> Words]
    /\ ~correct => memory = [location \in 0 .. MaxPointer |-> Zero]
    /\ queue_known = FALSE /\ queued_words = <<>> /\ findings = {}
    /\ reset_seen = FALSE /\ words = <<>> /\ honest = TRUE

Next ==
    \/ \E rst_n, wr_valid, rd_ready \in BOOLEAN, wr_data \in Words :
           RtlEdge(rst_n, wr_valid, wr_data, rd_ready)
    \/ AnyEdge

Spec == Init /\ [][Next]_vars

-----------------------------------------------------------------------------
Findings ==
    [kind : {"write-handshake", "read-handshake", "backpressure", "read-valid", "level",
             "full", "empty", "write-pointer", "read-pointer", "underflow", "ordering"},
     requirement : {"fifo.write", "fifo.read", "fifo.backpressure", "fifo.status",
                    "fifo.simultaneous", "fifo.wrap", "fifo.order"}]

\* Types of the state.
TypeOK ==
    /\ correct \in BOOLEAN /\ reg \in Registers
    /\ memory \in [0 .. MaxPointer -> Words]
    /\ queue_known \in BOOLEAN /\ queued_words \in Seq(Words)
    /\ findings \subseteq Findings
    /\ reset_seen \in BOOLEAN /\ words \in Seq(Words) /\ honest \in BOOLEAN

\* A simulation of the FIFO source, from power-up on and whatever is written
\* and read when, shows nothing to the analyzer.
NoFalseFinding == correct => findings = {}

\* A trace without a finding is one of a FIFO: since the first reset, words were
\* accepted exactly when there was room, offered exactly when there were any, and
\* delivered once and in order, whatever design made the trace, provided its
\* status signals change at clock edges only, so that what the analyzer samples
\* before one edge is what it sampled after the last (the FIFO's are registers).
CleanTraceConforms == findings = {} => honest
=============================================================================
