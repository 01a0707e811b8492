--------------------------- MODULE SkidBufferDebug ---------------------------
(* The debug session over a waveform of a skid buffer, a one-word elastic      *)
(* buffer that passes words through while it is empty.  Unlike the analyzer of *)
(* the FIFO, this one judges every edge by itself and keeps no words of its    *)
(* own.  The waveform, the edges and the abstractions are those of FifoDebug.  *)
EXTENDS Integers

CONSTANTS Words,  \* what a word may be
          Zero    \* the retained word after a reset, one of Words

VARIABLES
    correct,     \* is the design the RTL source?
    reg,         \* register "full" and the word it retains, since the last edge
    findings,    \* analyzer: what it found
    reset_seen,  \* has the trace been through a reset?
    held,        \* words accepted since and not yet delivered
    honest       \* have valid and ready behaved as those of a skid buffer since?

vars == <<correct, reg, findings, reset_seen, held, honest>>

Registers == [full : BOOLEAN, data_q : Words]

\* Signals sampled just before an edge
Samples == [rst_n : BOOLEAN,
            s_valid : BOOLEAN, s_ready : BOOLEAN, input_accepted : BOOLEAN, s_data : Words,
            m_valid : BOOLEAN, m_ready : BOOLEAN, output_accepted : BOOLEAN, m_data : Words]

Enters(s) == s.s_valid /\ s.s_ready
Leaves(s) == s.m_valid /\ s.m_ready

-----------------------------------------------------------------------------
(* The RTL source.                                                             *)

RtlSample(rst_n, s_valid, s_data, m_ready) ==
    LET s_ready == ~reg.full \/ m_ready
        m_valid == reg.full \/ s_valid
    IN [rst_n |-> rst_n,
        s_valid |-> s_valid, s_ready |-> s_ready,
        input_accepted |-> s_valid /\ s_ready, s_data |-> s_data,
        m_valid |-> m_valid, m_ready |-> m_ready,
        output_accepted |-> m_valid /\ m_ready,
        m_data |-> IF reg.full THEN reg.data_q ELSE s_data]

RtlRegisters(s) ==
    IF ~s.rst_n THEN [full |-> FALSE, data_q |-> Zero]
    ELSE [full   |-> IF s.input_accepted = s.output_accepted THEN reg.full
                     ELSE s.input_accepted,
          data_q |-> IF s.input_accepted /\ (s.output_accepted => reg.full) THEN s.s_data
                     ELSE reg.data_q]

-----------------------------------------------------------------------------
(* The analyzer.                                                               *)

When(wrong, kind, requirement) ==
    IF wrong THEN {[kind |-> kind, requirement |-> requirement]} ELSE {}

ExpectedFull(s) ==
    IF Enters(s) = Leaves(s) THEN reg.full ELSE Enters(s)

\* At an edge in reset nothing else is looked at.
Shown(s, after) ==
    IF ~s.rst_n THEN When(after.full, "reset", "skid.reset")
    ELSE      When(s.s_ready # (~reg.full \/ s.m_ready), "refill-ready", "skid.refill")
         \cup When(s.m_valid # (reg.full \/ s.s_valid), "output-valid", "skid.accept")
         \cup When(s.input_accepted # Enters(s), "input-handshake", "skid.accept")
         \cup When(s.output_accepted # Leaves(s), "output-handshake", "skid.accept")
         \cup When(reg.full /\ s.m_data # reg.data_q, "retained-data", "skid.order")
         \cup When(after.full # ExpectedFull(s), "occupancy", "skid.backpressure")

-----------------------------------------------------------------------------
(* An observer of valid and ready, who counts the words inside.                *)

Count(accepted) == IF accepted THEN 1 ELSE 0

Conforms(s) ==
    /\ s.s_ready = (held = 0 \/ s.m_ready)
    /\ s.m_valid = (held > 0 \/ s.s_valid)

Observe(s) ==
    /\ reset_seen' = (reset_seen \/ ~s.rst_n)
    /\ honest' = (honest /\ (reset_seen /\ s.rst_n => Conforms(s)))
    /\ held' = IF reset_seen /\ s.rst_n THEN held + Count(Enters(s)) - Count(Leaves(s)) ELSE 0

-----------------------------------------------------------------------------
Edge(s, after) ==
    /\ reg' = after
    /\ findings' = findings \cup Shown(s, after)
    /\ Observe(s)
    /\ UNCHANGED correct

\* The test bench holds the reset from power-up on.
RtlEdge(rst_n, s_valid, s_data, m_ready) ==
    /\ correct /\ findings = {}
    /\ rst_n => reset_seen
    /\ LET s == RtlSample(rst_n, s_valid, s_data, m_ready) IN Edge(s, RtlRegisters(s))

AnyEdge ==
    /\ ~correct /\ findings = {}
    /\ \E s \in Samples, after \in Registers : Edge(s, after)

\* Registers power up with any value.
Init ==
    /\ correct \in BOOLEAN /\ reg \in Registers
    /\ findings = {} /\ reset_seen = FALSE /\ held = 0 /\ honest = TRUE

Next ==
    \/ \E rst_n, s_valid, m_ready \in BOOLEAN, s_data \in Words :
           RtlEdge(rst_n, s_valid, s_data, m_ready)
    \/ AnyEdge

Spec == Init /\ [][Next]_vars

-----------------------------------------------------------------------------
Findings ==
    [kind : {"reset", "refill-ready", "output-valid", "input-handshake", "output-handshake",
             "retained-data", "occupancy"},
     requirement : {"skid.reset", "skid.refill", "skid.accept", "skid.order",
                    "skid.backpressure"}]

\* Types of the state.
TypeOK ==
    /\ correct \in BOOLEAN /\ reg \in Registers
    /\ findings \subseteq Findings
    /\ reset_seen \in BOOLEAN /\ held \in Int /\ honest \in BOOLEAN

\* A simulation of the skid buffer's source shows nothing to the analyzer.
NoFalseFinding == correct => findings = {}

\* In a trace without a finding no word is lost or made up: since the first
\* reset, words were accepted exactly when there was room and offered exactly
\* when there were any.  As with the FIFO this is said of designs whose status
\* signals change at clock edges only.  Words are counted here: which of them is
\* offered is another matter, as the analyzer looks at the data of a retained
\* word only.
CleanTraceConforms == findings = {} => honest
=============================================================================
