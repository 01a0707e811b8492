------------------------- MODULE WaveformDebug_proofs -------------------------
(* For a FIFO of any depth and a skid buffer, over words of any kind: a trace  *)
(* without a finding is one of the block, and the RTL source of the block      *)
(* leaves no finding.                                                          *)
EXTENDS WaveformDebug, TLAPS

-----------------------------------------------------------------------------
(* What an edge without a finding tells.                                       *)

LEMMA CleanHandshakes ==
    ASSUME NEW s \in Samples, reg \in Registers, HandshakeFindings(s) = {}
    PROVE  /\ s.write_accepted = Writes(s) /\ s.read_accepted = Reads(s)
           /\ s.wr_ready = (~reg.full \/ Reads(s))
           /\ s.rd_valid = ~reg.empty
  BY DEF HandshakeFindings, When

LEMMA CleanStatus ==
    ASSUME NEW s \in Samples, NEW after, StatusFindings(s, after) = {}
    PROVE  /\ after.level = ExpectedLevel(s)
           /\ after.full = (after.level = Depth)
           /\ after.empty = (after.level = 0)
  BY DEF StatusFindings, When

LEMMA CleanOrder ==
    ASSUME NEW s \in Samples, OrderFindings(s) = {}, Delivers(s)
    PROVE  queued_words # <<>> /\ s.rd_data = Head(queued_words)
  BY DEF OrderFindings, When

-----------------------------------------------------------------------------
(* Type correctness.                                                           *)

LEMMA QueueType ==
    ASSUME TypeOK, NEW s \in Samples
    PROVE  Queue(s) \in Seq(Words)
  <1>1. s.wr_data \in Words
    BY DEF Samples
  <1>2. queued_words # <<>> => Tail(queued_words) \in Seq(Words)
    BY DEF TypeOK
  <1>3. CASE Delivers(s) /\ queued_words # <<>>
    BY <1>1, <1>2, <1>3 DEF Queue
  <1>4. CASE ~(Delivers(s) /\ queued_words # <<>>)
    BY <1>1, <1>4 DEF TypeOK, Queue
  <1> QED
    BY <1>3, <1>4

LEMMA WordsType ==
    ASSUME TypeOK, NEW s \in Samples, Observe(s)
    PROVE  words' \in Seq(Words)
  <1>1. s.wr_data \in Words /\ s.rst_n \in BOOLEAN
    BY DEF Samples
  <1>2. words # <<>> => Tail(words) \in Seq(Words)
    BY DEF TypeOK
  <1> QED
    BY <1>1, <1>2 DEF TypeOK, Observe

LEMMA FindingsType ==
    ASSUME NEW s \in Samples, NEW after
    PROVE  HandshakeFindings(s) \cup StatusFindings(s, after) \cup OrderFindings(s)
               \subseteq Findings
  <1>1. HandshakeFindings(s) \subseteq Findings
    BY DEF HandshakeFindings, When, Findings
  <1>2. StatusFindings(s, after) \subseteq Findings
    BY DEF StatusFindings, TransferRequirement, When, Findings
  <1>3. OrderFindings(s) \subseteq Findings
    BY DEF OrderFindings, When, Findings
  <1> QED
    BY <1>1, <1>2, <1>3

LEMMA EdgeType ==
    ASSUME TypeOK, NEW s \in Samples, NEW after \in Registers, Edge(s, after),
           memory' \in [0 .. MaxPointer -> Words]
    PROVE  TypeOK'
  <1>1. correct' \in BOOLEAN /\ reg' \in Registers
    BY DEF TypeOK, Edge
  <1>2. queue_known' \in BOOLEAN
    BY DEF Edge, Analyze
  <1>3. queued_words' \in Seq(Words)
    BY QueueType DEF Edge, Analyze
  <1>4. findings' \subseteq Findings
    BY FindingsType DEF TypeOK, Edge, Analyze
  <1>5. reset_seen' \in BOOLEAN /\ honest' \in BOOLEAN
    BY DEF Edge, Observe
  <1>6. words' \in Seq(Words)
    BY WordsType DEF Edge
  <1> QED
    BY <1>1, <1>2, <1>3, <1>4, <1>5, <1>6 DEF TypeOK

-----------------------------------------------------------------------------
(* A trace without a finding: analyzer, status signals and observer agree.     *)

\* While nothing was found, and once the FIFO has been reset, the analyzer's
\* queue is what the observer of the interface counts on, and the status signals
\* tell its length.
Agreement ==
    findings = {} =>
        /\ honest
        /\ reset_seen => /\ queue_known /\ queued_words = words
                         /\ reg.level = Len(words) /\ Len(words) <= Depth
                         /\ reg.full = (reg.level = Depth) /\ reg.empty = (reg.level = 0)

\* A clean edge of an honest trace conforms, and the length of the queue follows
\* the level.
LEMMA CleanEdgeConforms ==
    ASSUME TypeOK, Agreement, findings = {}, reset_seen, NEW s \in Samples, s.rst_n,
           HandshakeFindings(s) = {}, OrderFindings(s) = {}
    PROVE  /\ Conforms(s)
           /\ Reads(s) => words # <<>>
           /\ Writes(s) => (Len(words) < Depth \/ Reads(s))
  <1>1. /\ reg.level = Len(words) /\ Len(words) <= Depth
        /\ reg.full = (reg.level = Depth) /\ reg.empty = (reg.level = 0)
        /\ queue_known /\ queued_words = words
    BY DEF Agreement
  <1>2. reg \in Registers /\ words \in Seq(Words) /\ Len(words) \in Nat
    BY DEF TypeOK
  <1>3. (words = <<>>) = (Len(words) = 0)
    BY <1>2
  <1>4. s.wr_ready = (Len(words) < Depth \/ Reads(s))
    <2>1. reg.full = ~(Len(words) < Depth)
      BY <1>1, <1>2, FifoAssumption
    <2> QED
      BY <2>1, <1>2, CleanHandshakes DEF Registers
  <1>5. s.rd_valid = (words # <<>>)
    BY CleanHandshakes, <1>1, <1>2, <1>3
  <1>6. Reads(s) => s.rd_data = Head(words)
    BY CleanOrder, <1>1 DEF Delivers, Known
  <1>7. Reads(s) => words # <<>>
    BY <1>5 DEF Reads
  <1> QED
    BY <1>4, <1>5, <1>6, <1>7 DEF Conforms, Writes

\* What the queue becomes at a clean edge outside reset.
LEMMA QueueFollows ==
    ASSUME TypeOK, Agreement, findings = {}, reset_seen, NEW s \in Samples, s.rst_n,
           NEW after \in Registers, Edge(s, after), findings' = {}
    PROVE  /\ queued_words' = words'
           /\ Len(words') = Len(words) + Count(Writes(s)) - Count(Reads(s))
           /\ Len(words') <= Depth
  <1>1. HandshakeFindings(s) = {} /\ OrderFindings(s) = {}
    BY DEF Edge, Analyze
  <1>2. /\ Reads(s) => words # <<>>
        /\ Writes(s) => (Len(words) < Depth \/ Reads(s))
    BY <1>1, CleanEdgeConforms
  <1>3. queue_known /\ queued_words = words /\ Len(words) <= Depth
    BY DEF Agreement
  <1>4. words \in Seq(Words) /\ Len(words) \in Nat /\ s.wr_data \in Words
    BY DEF TypeOK, Samples
  <1> DEFINE kept == IF Reads(s) THEN Tail(words) ELSE words
  <1>5. kept \in Seq(Words) /\ Len(kept) = Len(words) - Count(Reads(s))
    BY <1>2, <1>4 DEF Count
  <1>6. words' = IF Writes(s) THEN Append(kept, s.wr_data) ELSE kept
    BY <1>2 DEF Edge, Observe
  <1>7. queued_words' = IF Writes(s) THEN Append(kept, s.wr_data) ELSE kept
    BY <1>2, <1>3 DEF Edge, Analyze, Queue, Delivers, Known
  <1>8. kept \in Seq(Words) => Len(Append(kept, s.wr_data)) = Len(kept) + 1
    BY <1>4
  <1>9. Len(words') = Len(kept) + Count(Writes(s))
    <2>1. CASE Writes(s)
      <3>1. words' = Append(kept, s.wr_data)
        BY <1>6, <2>1
      <3> HIDE DEF kept
      <3> QED
        BY <1>5, <1>8, <2>1, <3>1 DEF Count
    <2>2. CASE ~Writes(s)
      <3>1. words' = kept
        BY <1>6, <2>2
      <3> HIDE DEF kept
      <3>2. Len(kept) \in Nat
        BY <1>5
      <3> QED
        BY <2>2, <3>1, <3>2 DEF Count
    <2> QED
      BY <2>1, <2>2
  <1>10. Count(Writes(s)) \in {0, 1} /\ Count(Reads(s)) \in {0, 1}
    BY DEF Count
  <1>11. Len(words') = Len(words) + Count(Writes(s)) - Count(Reads(s))
    <2> HIDE DEF kept
    <2> QED
      BY <1>4, <1>5, <1>9, <1>10
  <1>12. Len(words') <= Depth
    <2>1. CASE Writes(s) /\ ~Reads(s)
      <3>1. Len(words) < Depth
        BY <1>2, <2>1
      <3>2. Count(Writes(s)) = 1 /\ Count(Reads(s)) = 0
        BY <2>1 DEF Count
      <3> QED
        BY <1>4, <1>11, <3>1, <3>2, FifoAssumption
    <2>2. CASE ~Writes(s) \/ Reads(s)
      <3>1. Count(Writes(s)) <= Count(Reads(s))
        BY <2>2 DEF Count
      <3> QED
        BY <1>3, <1>4, <1>10, <1>11, <3>1, FifoAssumption
    <2> QED
      BY <2>1, <2>2
  <1> QED
    BY <1>6, <1>7, <1>11, <1>12

\* An edge without a finding keeps analyzer, signals and observer in agreement.
LEMMA CleanEdge ==
    ASSUME TypeOK, Agreement, findings = {}, NEW s \in Samples, NEW after \in Registers,
           Edge(s, after)
    PROVE  Agreement'
  <1> SUFFICES ASSUME findings' = {} PROVE Agreement'
    BY DEF Agreement
  <1>1. /\ HandshakeFindings(s) = {} /\ OrderFindings(s) = {}
        /\ StatusFindings(s, after) = {} /\ reg' = after
    BY DEF Edge, Analyze
  <1>2. /\ reg'.level = ExpectedLevel(s)
        /\ reg'.full = (reg'.level = Depth) /\ reg'.empty = (reg'.level = 0)
    BY <1>1, CleanStatus
  <1>3. honest
    BY DEF Agreement
  <1>4. CASE ~s.rst_n
    <2>1. honest' /\ words' = <<>> /\ queued_words' = <<>> /\ queue_known'
      BY <1>3, <1>4 DEF Edge, Analyze, Observe, Queue, Known
    <2>2. reg'.level = 0
      BY <1>2, <1>4 DEF ExpectedLevel
    <2> QED
      BY <1>2, <2>1, <2>2, FifoAssumption DEF Agreement
  <1>5. CASE s.rst_n /\ ~reset_seen
    BY <1>3, <1>5 DEF Edge, Observe, Agreement
  <1>6. CASE s.rst_n /\ reset_seen
    <2>1. honest'
      BY <1>1, <1>3, <1>6, CleanEdgeConforms DEF Edge, Observe
    <2>2. queue_known'
      BY <1>6 DEF Edge, Analyze, Known, Agreement
    <2>3. /\ queued_words' = words' /\ Len(words') <= Depth
          /\ Len(words') = Len(words) + Count(Writes(s)) - Count(Reads(s))
      BY <1>6, QueueFollows
    <2>4. reg'.level = Len(words')
      BY <1>2, <1>6, <2>3 DEF ExpectedLevel, Agreement
    <2> QED
      BY <1>2, <2>1, <2>2, <2>3, <2>4 DEF Agreement
  <1> QED
    BY <1>4, <1>5, <1>6

-----------------------------------------------------------------------------
(* The RTL source: the memory between the pointers is the analyzer's queue.    *)

\* The location n places from location 0, around the end of the memory.
Slot(n) == IF n < Depth THEN n ELSE n - Depth

Stored ==
    /\ reg.write_pointer \in 0 .. Depth - 1 /\ reg.read_pointer \in 0 .. Depth - 1
    /\ reg.write_pointer = Slot(reg.read_pointer + reg.level)
    /\ \A i \in 1 .. Len(queued_words) :
           queued_words[i] = memory[Slot(reg.read_pointer + i - 1)]

RtlInv ==
    correct => /\ findings = {}
               /\ reg = Status(reg.level, reg.write_pointer, reg.read_pointer)
               /\ reset_seen => Stored

\* The pointer arithmetic of the source is that of the analyzer.
LEMMA AdvanceIsModulo ==
    ASSUME NEW pointer \in 0 .. Depth - 1
    PROVE  /\ Advance(pointer) = (pointer + 1) % Depth
           /\ Advance(pointer) \in 0 .. Depth - 1
           /\ Advance(pointer) = Slot(pointer + 1)
  <1>1. Advance(pointer) \in 0 .. Depth - 1 /\ Advance(pointer) = Slot(pointer + 1)
    BY FifoAssumption DEF Advance, Slot
  <1>2. CASE pointer = Depth - 1
    <2>1. (pointer + 1) % Depth = Depth % Depth
      BY <1>2, FifoAssumption
    <2>2. Depth % Depth = 0
      BY FifoAssumption
    <2> QED
      BY <1>1, <1>2, <2>1, <2>2 DEF Advance
  <1>3. CASE pointer # Depth - 1
    <2>1. pointer + 1 \in 0 .. Depth - 1
      BY <1>3, FifoAssumption
    <2>2. (pointer + 1) % Depth = pointer + 1
      BY <2>1, FifoAssumption
    <2> QED
      BY <1>1, <1>3, <2>2 DEF Advance
  <1> QED
    BY <1>2, <1>3

LEMMA RtlSampleType ==
    ASSUME TypeOK, NEW rst_n \in BOOLEAN, NEW wr_valid \in BOOLEAN, NEW wr_data \in Words,
           NEW rd_ready \in BOOLEAN
    PROVE  RtlSample(rst_n, wr_valid, wr_data, rd_ready) \in Samples
  <1>1. reg \in Registers /\ memory[reg.read_pointer] \in Words
    BY DEF TypeOK, Registers
  <1> QED
    BY <1>1, FifoAssumption DEF RtlSample, Samples, Registers

\* What the combinational outputs are.
LEMMA RtlOutputs ==
    ASSUME TypeOK, NEW rst_n \in BOOLEAN, NEW wr_valid \in BOOLEAN, NEW wr_data \in Words,
           NEW rd_ready \in BOOLEAN, NEW s, s = RtlSample(rst_n, wr_valid, wr_data, rd_ready)
    PROVE  /\ s.rst_n = rst_n /\ s.wr_data = wr_data
           /\ s.write_accepted = Writes(s) /\ s.read_accepted = Reads(s)
           /\ s.wr_ready = (~reg.full \/ Reads(s)) /\ s.rd_valid = ~reg.empty
           /\ Reads(s) => s.rd_data = memory[reg.read_pointer]
  BY DEF RtlSample, Writes, Reads, TypeOK, Registers

\* The situation before an edge of the RTL source outside reset.
RtlEdgeOutsideReset(s, after) ==
    /\ TypeOK /\ Agreement /\ RtlInv
    /\ correct /\ findings = {} /\ reset_seen
    /\ s \in Samples /\ s.rst_n
    /\ s.write_accepted = Writes(s) /\ s.read_accepted = Reads(s)
    /\ s.wr_ready = (~reg.full \/ Reads(s)) /\ s.rd_valid = ~reg.empty
    /\ Reads(s) => s.rd_data = memory[reg.read_pointer]
    /\ after = RtlRegisters(s)

\* The range of the registers, and when there is room and when there are words.
LEMMA RtlRoom ==
    ASSUME NEW s, NEW after, RtlEdgeOutsideReset(s, after)
    PROVE  /\ reg.level \in 0 .. Depth
           /\ reg.level = Len(queued_words) /\ queued_words \in Seq(Words) /\ queue_known
           /\ Reads(s) => reg.level > 0
           /\ Writes(s) => reg.level < Depth \/ Reads(s)
           /\ reg.write_pointer \in 0 .. Depth - 1 /\ reg.read_pointer \in 0 .. Depth - 1
           /\ reg.write_pointer = Slot(reg.read_pointer + reg.level)
           /\ \A i \in 1 .. Len(queued_words) :
                  queued_words[i] = memory[Slot(reg.read_pointer + i - 1)]
  <1>1. /\ queue_known /\ queued_words = words /\ reg.level = Len(words) /\ Len(words) <= Depth
        /\ reg.full = (reg.level = Depth) /\ reg.empty = (reg.level = 0)
    BY DEF RtlEdgeOutsideReset, Agreement
  <1>2. queued_words \in Seq(Words) /\ Len(queued_words) \in Nat
    BY DEF RtlEdgeOutsideReset, TypeOK
  <1>3. reg.level \in 0 .. Depth
    BY <1>1, <1>2, FifoAssumption
  <1>4. Stored
    BY DEF RtlEdgeOutsideReset, RtlInv
  <1>5. Reads(s) => reg.level # 0
    BY <1>1 DEF RtlEdgeOutsideReset, Reads
  <1>6. Writes(s) => reg.level # Depth \/ Reads(s)
    BY <1>1 DEF RtlEdgeOutsideReset, Writes
  <1>7. (reg.level # 0 => reg.level > 0) /\ (reg.level # Depth => reg.level < Depth)
    BY <1>3, FifoAssumption
  <1> QED
    BY <1>1, <1>2, <1>3, <1>4, <1>5, <1>6, <1>7 DEF Stored

\* The registers after the edge.
LEMMA RtlAfter ==
    ASSUME NEW s, NEW after, RtlEdgeOutsideReset(s, after)
    PROVE  /\ after = Status(after.level, after.write_pointer, after.read_pointer)
           /\ after.level = reg.level + Count(Writes(s)) - Count(Reads(s))
           /\ after.level \in 0 .. Depth
           /\ after.write_pointer =
                  IF Writes(s) THEN Advance(reg.write_pointer) ELSE reg.write_pointer
           /\ after.read_pointer =
                  IF Reads(s) THEN Advance(reg.read_pointer) ELSE reg.read_pointer
           /\ after.write_pointer \in 0 .. Depth - 1 /\ after.read_pointer \in 0 .. Depth - 1
  <1>1. /\ reg.level \in 0 .. Depth
        /\ Reads(s) => reg.level > 0
        /\ Writes(s) => reg.level < Depth \/ Reads(s)
        /\ reg.write_pointer \in 0 .. Depth - 1 /\ reg.read_pointer \in 0 .. Depth - 1
    BY RtlRoom
  <1> DEFINE level == IF Writes(s) = Reads(s) THEN reg.level
                      ELSE IF Writes(s) THEN reg.level + 1 ELSE reg.level - 1
             wp == IF Writes(s) THEN Advance(reg.write_pointer) ELSE reg.write_pointer
             rp == IF Reads(s) THEN Advance(reg.read_pointer) ELSE reg.read_pointer
  <1>2. after = Status(level, wp, rp)
    BY DEF RtlEdgeOutsideReset, RtlRegisters
  <1>3. after.level = level /\ after.write_pointer = wp /\ after.read_pointer = rp
    <2> HIDE DEF level, wp, rp
    <2> QED
      BY <1>2 DEF Status
  <1> DEFINE in == Count(Writes(s))
             out == Count(Reads(s))
  <1>4. level = reg.level + in - out /\ level \in 0 .. Depth
    <2>0. Writes(s) \in BOOLEAN /\ Reads(s) \in BOOLEAN
      BY DEF Writes, Reads
    <2>1. CASE Writes(s) = Reads(s)
      <3>1. level = reg.level /\ in = out /\ in \in {0, 1}
        BY <2>0, <2>1 DEF Count
      <3> HIDE DEF level, in, out
      <3> QED
        BY <1>1, <3>1, FifoAssumption
    <2>2. CASE Writes(s) /\ ~Reads(s)
      <3>1. level = reg.level + 1
        BY <2>2, Zenon
      <3>2. in = 1 /\ out = 0
        BY <2>2 DEF Count
      <3>3. reg.level < Depth
        BY <1>1, <2>2
      <3> HIDE DEF level, in, out
      <3> QED
        BY <1>1, <3>1, <3>2, <3>3, FifoAssumption
    <2>3. CASE ~Writes(s) /\ Reads(s)
      <3>1. level = reg.level - 1
        BY <2>3, Zenon
      <3>2. in = 0 /\ out = 1
        BY <2>3 DEF Count
      <3>3. reg.level > 0
        BY <1>1, <2>3
      <3> HIDE DEF level, in, out
      <3> QED
        BY <1>1, <3>1, <3>2, <3>3, FifoAssumption
    <2> QED
      BY <2>0, <2>1, <2>2, <2>3
  <1>5. wp \in 0 .. Depth - 1 /\ rp \in 0 .. Depth - 1
    BY <1>1, AdvanceIsModulo
  <1> QED
    BY <1>2, <1>3, <1>4, <1>5

\* Such an edge shows the analyzer nothing.
LEMMA RtlShowsNothing ==
    ASSUME NEW s, NEW after, RtlEdgeOutsideReset(s, after)
    PROVE  /\ HandshakeFindings(s) = {} /\ StatusFindings(s, after) = {}
           /\ OrderFindings(s) = {}
  <1>1. HandshakeFindings(s) = {}
    BY DEF RtlEdgeOutsideReset, HandshakeFindings, When
  <1>2. StatusFindings(s, after) = {}
    <2>1. s.rst_n
      BY DEF RtlEdgeOutsideReset
    <2>2. after.level = ExpectedLevel(s)
      BY <2>1, RtlAfter DEF ExpectedLevel
    <2>3. after.full = (after.level = Depth) /\ after.empty = (after.level = 0)
      <3>1. after = Status(after.level, after.write_pointer, after.read_pointer)
        BY RtlAfter
      <3> QED
        BY <3>1 DEF Status
    <2>4. after.write_pointer = ExpectedPointer(s, reg.write_pointer, Writes(s))
      <3>1. reg.write_pointer \in 0 .. Depth - 1
        BY RtlRoom
      <3>2. Advance(reg.write_pointer) = (reg.write_pointer + 1) % Depth
        BY <3>1, AdvanceIsModulo
      <3>3. after.write_pointer =
                IF Writes(s) THEN Advance(reg.write_pointer) ELSE reg.write_pointer
        BY RtlAfter
      <3> QED
        BY <2>1, <3>2, <3>3, Zenon DEF ExpectedPointer
    <2>5. after.read_pointer = ExpectedPointer(s, reg.read_pointer, Reads(s))
      <3>1. reg.read_pointer \in 0 .. Depth - 1
        BY RtlRoom
      <3>2. Advance(reg.read_pointer) = (reg.read_pointer + 1) % Depth
        BY <3>1, AdvanceIsModulo
      <3>3. after.read_pointer =
                IF Reads(s) THEN Advance(reg.read_pointer) ELSE reg.read_pointer
        BY RtlAfter
      <3> QED
        BY <2>1, <3>2, <3>3, Zenon DEF ExpectedPointer
    <2> QED
      BY <2>2, <2>3, <2>4, <2>5 DEF StatusFindings, When
  <1>3. OrderFindings(s) = {}
    <2> SUFFICES ASSUME Reads(s)
                 PROVE  queued_words # <<>> /\ s.rd_data = Head(queued_words)
      BY DEF OrderFindings, When, Delivers
    <2>1. /\ Len(queued_words) > 0 /\ queued_words \in Seq(Words)
          /\ reg.read_pointer \in 0 .. Depth - 1
          /\ queued_words[1] = memory[Slot(reg.read_pointer + 1 - 1)]
      BY RtlRoom
    <2>2. Slot(reg.read_pointer + 1 - 1) = reg.read_pointer
      BY <2>1, FifoAssumption DEF Slot
    <2>3. queued_words # <<>> /\ Head(queued_words) = queued_words[1]
      BY <2>1
    <2>4. s.rd_data = memory[reg.read_pointer]
      BY DEF RtlEdgeOutsideReset
    <2> QED
      BY <2>1, <2>2, <2>3, <2>4
  <1> QED
    BY <1>1, <1>2, <1>3

\* Walking around the memory in two goes is walking once.
LEMMA SlotAdd ==
    ASSUME NEW p \in 0 .. Depth - 1, NEW g \in {0, 1}, NEW i \in Nat, g + i <= Depth
    PROVE  Slot(Slot(p + g) + i) = Slot(p + g + i)
  BY FifoAssumption DEF Slot

LEMMA SlotRange ==
    ASSUME NEW p \in 0 .. Depth - 1, NEW i \in 0 .. Depth
    PROVE  Slot(p + i) \in 0 .. Depth - 1 /\ Slot(p + Depth) = p /\ Slot(p + 0) = p
  BY FifoAssumption DEF Slot

\* Moving both ends of the queue keeps the write pointer where the queue ends.
LEMMA SlotMoves ==
    ASSUME NEW p \in 0 .. Depth - 1, NEW n \in 0 .. Depth,
           NEW i \in {0, 1}, NEW o \in {0, 1}, o <= n, n + i - o \in 0 .. Depth
    PROVE  Slot(Slot(p + n) + i) = Slot(Slot(p + o) + (n + i - o))
  <1> USE FifoAssumption DEF Slot
  <1>1. CASE i = 0 /\ o = 0
    BY <1>1
  <1>2. CASE i = 0 /\ o = 1
    BY <1>2
  <1>3. CASE i = 1 /\ o = 0
    BY <1>3
  <1>4. CASE i = 1 /\ o = 1
    BY <1>4
  <1> QED
    BY <1>1, <1>2, <1>3, <1>4

\* The memory between the pointers follows the queue.
LEMMA StoredFollows ==
    ASSUME NEW s, NEW after, RtlEdgeOutsideReset(s, after), Edge(s, after),
           memory' = RtlMemory(s)
    PROVE  Stored'
  <1>0. /\ s.rst_n /\ s.write_accepted = Writes(s) /\ reg' = after
        /\ s \in Samples /\ memory \in [0 .. MaxPointer -> Words]
    BY DEF RtlEdgeOutsideReset, Edge, TypeOK
  <1> DEFINE level == reg.level
             rp == reg.read_pointer
             wp == reg.write_pointer
             in == Count(Writes(s))
             out == Count(Reads(s))
             kept == IF Reads(s) THEN Tail(queued_words) ELSE queued_words
  <1>1. /\ level \in 0 .. Depth /\ rp \in 0 .. Depth - 1 /\ wp \in 0 .. Depth - 1
        /\ level = Len(queued_words) /\ queued_words \in Seq(Words) /\ queue_known
        /\ Reads(s) => level > 0
        /\ Writes(s) => level < Depth \/ Reads(s)
        /\ wp = Slot(rp + level)
        /\ \A i \in 1 .. Len(queued_words) : queued_words[i] = memory[Slot(rp + i - 1)]
    BY RtlRoom
  <1>2. /\ after.level = level + in - out /\ after.level \in 0 .. Depth
        /\ after.write_pointer = IF Writes(s) THEN Advance(wp) ELSE wp
        /\ after.read_pointer = IF Reads(s) THEN Advance(rp) ELSE rp
        /\ after.write_pointer \in 0 .. Depth - 1 /\ after.read_pointer \in 0 .. Depth - 1
    BY RtlAfter
  <1>3. /\ in \in {0, 1} /\ out \in {0, 1} /\ out <= level
        /\ Writes(s) => in = 1 /\ (level < Depth \/ out = 1)
        /\ ~Writes(s) => in = 0
    BY <1>1, FifoAssumption DEF Count
  <1>4. /\ kept \in Seq(Words) /\ Len(kept) = level - out
        /\ \A i \in 1 .. Len(kept) : kept[i] = queued_words[i + out]
    BY <1>1 DEF Count
  <1>5. queued_words' = IF Writes(s) THEN Append(kept, s.wr_data) ELSE kept
    <2>1. Reads(s) => queued_words # <<>>
      BY <1>1
    <2> QED
      BY <1>0, <1>1, <2>1 DEF Edge, Analyze, Queue, Delivers, Known
  <1>6. memory' = IF Writes(s) THEN [memory EXCEPT ![wp] = s.wr_data] ELSE memory
    BY <1>0 DEF RtlMemory
  <1>7. after.read_pointer = Slot(rp + out)
    <2>1. CASE Reads(s)
      BY <1>1, <1>2, <2>1, AdvanceIsModulo DEF Count
    <2>2. CASE ~Reads(s)
      <3>1. out = 0 /\ after.read_pointer = rp
        BY <1>2, <2>2 DEF Count
      <3> QED
        BY <1>1, <3>1, FifoAssumption DEF Slot
    <2> QED
      BY <2>1, <2>2
  <1>8. after.write_pointer = Slot(wp + in)
    <2>1. CASE Writes(s)
      BY <1>1, <1>2, <2>1, AdvanceIsModulo DEF Count
    <2>2. CASE ~Writes(s)
      <3>1. in = 0 /\ after.write_pointer = wp
        BY <1>2, <2>2 DEF Count
      <3> QED
        BY <1>1, <3>1, FifoAssumption DEF Slot
    <2> QED
      BY <2>1, <2>2
  <1> HIDE DEF level, rp, wp, in, out, kept
  <1>9. after.write_pointer = Slot(after.read_pointer + after.level)
    <2>1. Slot(Slot(rp + level) + in) = Slot(Slot(rp + out) + (level + in - out))
      <3>1. rp \in 0 .. Depth - 1 /\ level \in 0 .. Depth
        BY <1>1
      <3>2. in \in {0, 1} /\ out \in {0, 1} /\ out <= level
        BY <1>3
      <3>3. level + in - out \in 0 .. Depth
        BY <1>2
      <3> QED
        BY <3>1, <3>2, <3>3, SlotMoves
    <2>2. wp = Slot(rp + level)
      BY <1>1
    <2> QED
      BY <1>2, <1>7, <1>8, <2>1, <2>2
  <1>10. ASSUME NEW i \in 1 .. Len(kept)
         PROVE  kept[i] = memory'[Slot(after.read_pointer + i - 1)]
    <2>1. i \in 1 .. level - out /\ i + out \in 1 .. level /\ out + (i - 1) \in 0 .. Depth - 1
      BY <1>1, <1>3, <1>4, FifoAssumption
    <2>2. Slot(after.read_pointer + (i - 1)) = Slot(rp + out + (i - 1))
      <3>1. i - 1 \in Nat /\ out + (i - 1) <= Depth
        BY <1>1, <1>3, <2>1, FifoAssumption
      <3>2. Slot(Slot(rp + out) + (i - 1)) = Slot(rp + out + (i - 1))
        BY <1>1, <1>3, <3>1, SlotAdd
      <3> QED
        BY <1>7, <3>2
    <2>3. kept[i] = memory[Slot(rp + (i + out) - 1)]
      BY <1>1, <1>4, <2>1
    <2>4. /\ rp + (i + out) - 1 = rp + out + (i - 1)
          /\ after.read_pointer + i - 1 = after.read_pointer + (i - 1)
      BY <1>1, <1>2, <1>3, <2>1, FifoAssumption
    <2>5. Writes(s) => Slot(rp + out + (i - 1)) # wp
      <3> SUFFICES ASSUME Writes(s) PROVE Slot(rp + out + (i - 1)) # wp
        OBVIOUS
      <3> QED
        BY <1>1, <1>3, <2>1, FifoAssumption DEF Slot
    <2>6. Writes(s) => memory'[Slot(rp + out + (i - 1))] = memory[Slot(rp + out + (i - 1))]
      <3>1. Slot(rp + out + (i - 1)) \in 0 .. MaxPointer
        <4>1. rp + out + (i - 1) = rp + (out + (i - 1))
          BY <1>1, <1>3, <2>1, FifoAssumption
        <4>2. Slot(rp + (out + (i - 1))) \in 0 .. Depth - 1
          <5>1. \A p \in 0 .. Depth - 1, k \in 0 .. Depth : Slot(p + k) \in 0 .. Depth - 1
            BY SlotRange
          <5>2. rp \in 0 .. Depth - 1 /\ out + (i - 1) \in 0 .. Depth
            BY <1>1, <2>1, FifoAssumption
          <5> QED
            BY <5>1, <5>2
        <4> QED
          BY <4>1, <4>2, FifoAssumption
      <3> QED
        BY <1>0, <1>6, <2>5, <3>1
    <2> QED
      BY <1>6, <2>2, <2>3, <2>4, <2>6
  <1>11. ASSUME NEW i \in 1 .. Len(queued_words')
         PROVE  queued_words'[i] = memory'[Slot(after.read_pointer + i - 1)]
    <2>1. CASE ~Writes(s)
      BY <1>5, <1>10, <2>1
    <2>2. CASE Writes(s) /\ i \in 1 .. Len(kept)
      <3>1. queued_words'[i] = kept[i]
        BY <1>0, <1>4, <1>5, <2>2 DEF Samples
      <3> QED
        BY <1>10, <2>2, <3>1
    <2>3. CASE Writes(s) /\ i \notin 1 .. Len(kept)
      <3>1. i = Len(kept) + 1 /\ queued_words'[i] = s.wr_data
        BY <1>0, <1>4, <1>5, <2>3 DEF Samples
      <3>2. Slot(after.read_pointer + i - 1) = wp
        <4>1. after.read_pointer + i - 1 = after.read_pointer + (level - out)
          BY <1>1, <1>2, <1>3, <1>4, <3>1, FifoAssumption
        <4>2. /\ level - out \in Nat /\ out + (level - out) = level
              /\ out + (level - out) <= Depth
          BY <1>1, <1>3, FifoAssumption
        <4>3. Slot(Slot(rp + out) + (level - out)) = Slot(rp + out + (level - out))
          BY <1>1, <1>3, <4>2, SlotAdd
        <4>4. rp + out + (level - out) = rp + level
          BY <1>1, <1>3, FifoAssumption
        <4> QED
          BY <1>1, <1>7, <4>1, <4>3, <4>4
      <3>3. wp \in 0 .. MaxPointer
        BY <1>1, FifoAssumption
      <3> QED
        BY <1>0, <1>6, <2>3, <3>1, <3>2, <3>3
    <2> QED
      BY <2>1, <2>2, <2>3
  <1> QED
    BY <1>0, <1>2, <1>9, <1>11 DEF Stored

\* The same of an edge in reset, from any registers.
LEMMA RtlReset ==
    ASSUME TypeOK, NEW s, NEW after, s \in Samples, ~s.rst_n,
           s.write_accepted = Writes(s), s.read_accepted = Reads(s),
           s.wr_ready = (~reg.full \/ Reads(s)), s.rd_valid = ~reg.empty,
           after = RtlRegisters(s), Edge(s, after)
    PROVE  /\ HandshakeFindings(s) = {} /\ StatusFindings(s, after) = {}
           /\ OrderFindings(s) = {}
           /\ after = Status(0, 0, 0)
           /\ Stored'
  <1>1. after = Status(0, 0, 0)
    BY DEF RtlRegisters
  <1>2. /\ after.level = 0 /\ after.write_pointer = 0 /\ after.read_pointer = 0
        /\ after.full = (after.level = Depth) /\ after.empty = (after.level = 0)
    BY <1>1 DEF Status
  <1>3. HandshakeFindings(s) = {}
    BY DEF HandshakeFindings, When
  <1>4. StatusFindings(s, after) = {}
    <2>1. /\ ExpectedLevel(s) = 0
          /\ ExpectedPointer(s, reg.write_pointer, Writes(s)) = 0
          /\ ExpectedPointer(s, reg.read_pointer, Reads(s)) = 0
      BY Zenon DEF ExpectedLevel, ExpectedPointer
    <2> QED
      BY <1>2, <2>1 DEF StatusFindings, When
  <1>5. OrderFindings(s) = {}
    BY DEF OrderFindings, When, Delivers
  <1>6. queued_words' = <<>> /\ reg' = after
    BY DEF Edge, Analyze, Queue
  <1>7. Stored'
    BY <1>2, <1>6, FifoAssumption DEF Stored, Slot
  <1> QED
    BY <1>1, <1>3, <1>4, <1>5, <1>7

\* An edge of the RTL source keeps the type and shows nothing.
LEMMA RtlKeeps ==
    ASSUME TypeOK, Agreement, RtlInv,
           NEW rst_n \in BOOLEAN, NEW wr_valid \in BOOLEAN, NEW wr_data \in Words,
           NEW rd_ready \in BOOLEAN, RtlEdge(rst_n, wr_valid, wr_data, rd_ready)
    PROVE  TypeOK' /\ Agreement' /\ RtlInv'
  <1> DEFINE s == RtlSample(rst_n, wr_valid, wr_data, rd_ready)
             after == RtlRegisters(s)
  <1>1. s \in Samples
    BY RtlSampleType
  <1>2. /\ s.rst_n = rst_n
        /\ s.write_accepted = Writes(s) /\ s.read_accepted = Reads(s)
        /\ s.wr_ready = (~reg.full \/ Reads(s)) /\ s.rd_valid = ~reg.empty
        /\ Reads(s) => s.rd_data = memory[reg.read_pointer]
    BY RtlOutputs
  <1>3. /\ correct /\ correct' /\ findings = {} /\ (rst_n => reset_seen)
        /\ Edge(s, after) /\ memory' = RtlMemory(s) /\ reg' = after
        /\ reset_seen' = (reset_seen \/ ~s.rst_n)
    BY DEF RtlEdge, Edge, Observe
  <1> HIDE DEF s
  <1>4. memory' \in [0 .. MaxPointer -> Words]
    BY <1>1, <1>3 DEF RtlMemory, TypeOK, Samples
  <1>5. /\ after \in Registers
        /\ after = Status(after.level, after.write_pointer, after.read_pointer)
        /\ HandshakeFindings(s) = {} /\ StatusFindings(s, after) = {}
        /\ OrderFindings(s) = {}
        /\ Stored'
    <2>1. CASE s.rst_n
      <3>1. RtlEdgeOutsideReset(s, after)
        BY <1>1, <1>2, <1>3, <2>1 DEF RtlEdgeOutsideReset
      <3> HIDE DEF after
      <3>2. /\ after = Status(after.level, after.write_pointer, after.read_pointer)
            /\ after.level \in 0 .. Depth
            /\ after.write_pointer \in 0 .. Depth - 1 /\ after.read_pointer \in 0 .. Depth - 1
        BY <3>1, RtlAfter
      <3>3. /\ after.level \in 0 .. MaxLevel /\ after.write_pointer \in 0 .. MaxPointer
            /\ after.read_pointer \in 0 .. MaxPointer
        BY <3>2, FifoAssumption
      <3>4. after \in Registers
        <4>1. Status(after.level, after.write_pointer, after.read_pointer) \in Registers
          BY <3>3 DEF Status, Registers
        <4> QED
          BY <3>2, <4>1
      <3>5. /\ HandshakeFindings(s) = {} /\ StatusFindings(s, after) = {}
            /\ OrderFindings(s) = {}
        BY <3>1, RtlShowsNothing
      <3>6. Stored'
        BY <1>3, <3>1, StoredFollows
      <3> QED
        BY <3>2, <3>4, <3>5, <3>6
    <2>2. CASE ~s.rst_n
      <3>1. /\ HandshakeFindings(s) = {} /\ StatusFindings(s, after) = {}
            /\ OrderFindings(s) = {}
            /\ after = Status(0, 0, 0)
            /\ Stored'
        BY <1>1, <1>2, <1>3, <2>2, RtlReset
      <3> HIDE DEF after
      <3>2. /\ after.level = 0 /\ after.write_pointer = 0 /\ after.read_pointer = 0
            /\ after.full \in BOOLEAN /\ after.empty \in BOOLEAN
        BY <3>1 DEF Status
      <3>3. 0 \in 0 .. MaxLevel /\ 0 \in 0 .. MaxPointer
        BY FifoAssumption
      <3> QED
        BY <3>1, <3>2, <3>3 DEF Status, Registers
    <2> QED
      BY <1>1, <2>1, <2>2 DEF Samples
  <1> HIDE DEF after
  <1>6. TypeOK'
    BY <1>1, <1>3, <1>4, <1>5, EdgeType
  <1>7. Agreement'
    BY <1>1, <1>3, <1>5, CleanEdge
  <1>8. findings' = {}
    BY <1>3, <1>5 DEF Edge, Analyze
  <1> QED
    BY <1>3, <1>5, <1>6, <1>7, <1>8 DEF RtlInv

\* An edge of any other trace keeps the type and the agreement.
LEMMA AnyKeeps ==
    ASSUME TypeOK, Agreement, AnyEdge
    PROVE  TypeOK' /\ Agreement' /\ RtlInv'
  <1>1. PICK s \in Samples, after \in Registers : Edge(s, after)
    BY DEF AnyEdge
  <1>2. ~correct' /\ findings = {} /\ memory' \in [0 .. MaxPointer -> Words]
    BY <1>1 DEF AnyEdge, Edge, TypeOK
  <1>3. TypeOK'
    BY <1>1, <1>2, EdgeType
  <1>4. Agreement'
    BY <1>1, <1>2, CleanEdge
  <1> QED
    BY <1>2, <1>3, <1>4 DEF RtlInv

-----------------------------------------------------------------------------
(* The theorems.                                                               *)

\* The inductive invariant.
IInv == TypeOK /\ Agreement /\ RtlInv

\* It holds of a trace before its first edge.
LEMMA InitInv == Init => IInv
  <1> SUFFICES ASSUME Init PROVE IInv
    OBVIOUS
  <1>1. TypeOK
    <2>1. queued_words \in Seq(Words) /\ words \in Seq(Words)
      BY DEF Init
    <2>2. findings \subseteq Findings
      BY DEF Init
    <2> QED
      BY <2>1, <2>2 DEF Init, TypeOK
  <1>2. Agreement
    BY DEF Init, Agreement
  <1>3. RtlInv
    BY DEF Init, RtlInv
  <1> QED
    BY <1>1, <1>2, <1>3 DEF IInv

\* Every edge, and every step that is none, keeps it.
LEMMA NextInv == IInv /\ [Next]_vars => IInv'
  <1> SUFFICES ASSUME IInv, [Next]_vars PROVE IInv'
    OBVIOUS
  <1> USE DEF IInv
  <1>1. CASE \E rst_n, wr_valid, rd_ready \in BOOLEAN, wr_data \in Words :
                 RtlEdge(rst_n, wr_valid, wr_data, rd_ready)
    BY <1>1, RtlKeeps
  <1>2. CASE AnyEdge
    BY <1>2, AnyKeeps
  <1>3. CASE UNCHANGED vars
    BY <1>3 DEF vars, rtlVars, analyzerVars, observerVars, TypeOK, Agreement, RtlInv, Stored
  <1> QED
    BY <1>1, <1>2, <1>3 DEF Next

\* It holds at every edge of every trace.
THEOREM Invariance == Spec => []IInv
  BY InitInv, NextInv, PTL DEF Spec

\* The state has its type in every trace (fifo_debug.py: the queue holds words
\* and the findings are of the kinds and requirements the analyzer names).
THEOREM TypeCorrect == Spec => []TypeOK
  BY Invariance, PTL DEF IInv

\* The RTL source of the FIFO leaves no finding (fifo_debug.py on a simulation
\* of sync_fifo.sv), for every depth and every sequence of writes, reads and
\* resets.
THEOREM FifoNoFalseFinding == Spec => []NoFalseFinding
  <1>1. IInv => NoFalseFinding
    BY DEF IInv, RtlInv, NoFalseFinding
  <1> QED
    BY <1>1, Invariance, PTL

\* A trace in which the analyzer finds nothing keeps the promises of a FIFO at its
\* interface, for every depth and whatever design made the trace, provided its
\* status signals change at clock edges only.
THEOREM FifoCleanTraceConforms == Spec => []CleanTraceConforms
  <1>1. IInv => CleanTraceConforms
    BY DEF IInv, Agreement, CleanTraceConforms
  <1> QED
    BY <1>1, Invariance, PTL

-----------------------------------------------------------------------------
(* The skid buffer.                                                            *)

\* What an edge without a finding tells.
LEMMA SkidCleanEdge ==
    ASSUME NEW s \in Skid!Samples, NEW after, Skid!Shown(s, after) = {}
    PROVE  /\ ~s.rst_n => ~after.full
           /\ s.rst_n => /\ s.s_ready = (~reg.full \/ s.m_ready)
                         /\ s.m_valid = (reg.full \/ s.s_valid)
                         /\ after.full = Skid!ExpectedFull(s)
  BY DEF Skid!Shown, Skid!When

LEMMA SkidFindingsType ==
    ASSUME NEW s, NEW after
    PROVE  Skid!Shown(s, after) \subseteq Skid!Findings
  BY DEF Skid!Shown, Skid!When, Skid!Findings

-----------------------------------------------------------------------------
(* The RTL source.                                                             *)

LEMMA SkidRtlSampleType ==
    ASSUME Skid!TypeOK, NEW rst_n \in BOOLEAN, NEW s_valid \in BOOLEAN, NEW s_data \in Words,
           NEW m_ready \in BOOLEAN
    PROVE  Skid!RtlSample(rst_n, s_valid, s_data, m_ready) \in Skid!Samples
  BY DEF Skid!TypeOK, Skid!Registers, Skid!RtlSample, Skid!Samples

LEMMA SkidRtlRegistersType ==
    ASSUME Skid!TypeOK, Zero \in Words, NEW s \in Skid!Samples
    PROVE  Skid!RtlRegisters(s) \in Skid!Registers
  BY DEF Skid!TypeOK, Skid!Registers, Skid!RtlRegisters, Skid!Samples

\* Whatever is retained, the analyzer has nothing to say of an edge of the source.
LEMMA SkidRtlShowsNothing ==
    ASSUME Skid!TypeOK, NEW rst_n \in BOOLEAN, NEW s_valid \in BOOLEAN, NEW s_data \in Words,
           NEW m_ready \in BOOLEAN, NEW s, s = Skid!RtlSample(rst_n, s_valid, s_data, m_ready)
    PROVE  Skid!Shown(s, Skid!RtlRegisters(s)) = {}
  <1>1. reg.full \in BOOLEAN
    BY DEF Skid!TypeOK, Skid!Registers
  <1>2. /\ s.rst_n = rst_n /\ s.s_valid = s_valid /\ s.m_ready = m_ready
        /\ s.s_ready = (~reg.full \/ m_ready)
        /\ s.m_valid = (reg.full \/ s_valid)
        /\ s.input_accepted = Skid!Enters(s) /\ s.output_accepted = Skid!Leaves(s)
        /\ reg.full => s.m_data = reg.data_q
    BY DEF Skid!RtlSample, Skid!Enters, Skid!Leaves
  <1>3. Skid!RtlRegisters(s).full = IF ~s.rst_n THEN FALSE ELSE Skid!ExpectedFull(s)
    BY <1>2 DEF Skid!RtlRegisters, Skid!ExpectedFull
  <1> QED
    BY <1>1, <1>2, <1>3 DEF Skid!Shown, Skid!When

-----------------------------------------------------------------------------
(* The inductive invariant.                                                    *)

\* While nothing was found, the observer of valid and ready counts a word
\* exactly when one is retained.
SkidAgreement ==
    findings = {} => /\ honest
                     /\ reset_seen => held = IF reg.full THEN 1 ELSE 0

SkidInv == Skid!TypeOK /\ Skid!NoFalseFinding /\ SkidAgreement

LEMMA SkidEdgeType ==
    ASSUME Skid!TypeOK, NEW s \in Skid!Samples, NEW after \in Skid!Registers, Skid!Edge(s, after)
    PROVE  Skid!TypeOK'
  <1>1. correct' \in BOOLEAN /\ reg' \in Skid!Registers
    BY DEF Skid!TypeOK, Skid!Edge
  <1>2. findings' \subseteq Skid!Findings
    BY SkidFindingsType DEF Skid!TypeOK, Skid!Edge
  <1>3. reset_seen' \in BOOLEAN /\ honest' \in BOOLEAN
    BY DEF Skid!Edge, Skid!Observe
  <1>4. held' \in Int
    BY DEF Skid!TypeOK, Skid!Edge, Skid!Observe, Skid!Count
  <1> QED
    BY <1>1, <1>2, <1>3, <1>4 DEF Skid!TypeOK

LEMMA SkidEdgeAgreement ==
    ASSUME Skid!TypeOK, SkidAgreement, findings = {}, NEW s \in Skid!Samples,
           NEW after \in Skid!Registers, Skid!Edge(s, after)
    PROVE  SkidAgreement'
  <1> SUFFICES ASSUME findings' = {}
               PROVE  honest' /\ (reset_seen' => held' = IF reg'.full THEN 1 ELSE 0)
    BY DEF SkidAgreement
  <1>1. Skid!Shown(s, after) = {} /\ reg' = after /\ Skid!Observe(s)
    BY DEF Skid!Edge
  <1>2. /\ honest /\ (reset_seen => held = IF reg.full THEN 1 ELSE 0)
        /\ reg.full \in BOOLEAN /\ after.full \in BOOLEAN
        /\ s.rst_n \in BOOLEAN /\ s.s_valid \in BOOLEAN /\ s.m_ready \in BOOLEAN
        /\ reset_seen \in BOOLEAN
    BY DEF SkidAgreement, Skid!TypeOK, Skid!Registers, Skid!Samples
  <1>3. CASE ~s.rst_n
    <2>1. ~after.full
      BY <1>1, <1>3, SkidCleanEdge
    <2> QED
      BY <1>1, <1>2, <1>3, <2>1 DEF Skid!Observe
  <1>4. CASE s.rst_n /\ reset_seen
    <2>1. /\ s.s_ready = (~reg.full \/ s.m_ready)
          /\ s.m_valid = (reg.full \/ s.s_valid)
          /\ after.full = Skid!ExpectedFull(s)
      BY <1>1, <1>4, SkidCleanEdge
    <2>2. Skid!Conforms(s)
      BY <1>2, <1>4, <2>1 DEF Skid!Conforms
    <2>3. held' = held + Skid!Count(Skid!Enters(s)) - Skid!Count(Skid!Leaves(s))
      BY <1>1, <1>4 DEF Skid!Observe
    <2>4. held' = IF after.full THEN 1 ELSE 0
      BY <1>2, <1>4, <2>1, <2>3 DEF Skid!ExpectedFull, Skid!Enters, Skid!Leaves, Skid!Count
    <2> QED
      BY <1>1, <1>2, <2>2, <2>4 DEF Skid!Observe
  <1>5. CASE s.rst_n /\ ~reset_seen
    BY <1>1, <1>2, <1>5 DEF Skid!Observe
  <1> QED
    BY <1>2, <1>3, <1>4, <1>5

LEMMA SkidInitInv ==
    ASSUME Zero \in Words, Skid!Init
    PROVE  SkidInv
  <1>1. Skid!TypeOK
    <2>1. findings \subseteq Skid!Findings /\ held \in Int
      BY DEF Skid!Init
    <2>2. /\ correct \in BOOLEAN /\ reg \in Skid!Registers
          /\ reset_seen \in BOOLEAN /\ honest \in BOOLEAN
      BY DEF Skid!Init
    <2> QED
      BY <2>1, <2>2 DEF Skid!TypeOK
  <1>2. findings = {} /\ honest /\ ~reset_seen
    BY DEF Skid!Init
  <1> QED
    BY <1>1, <1>2 DEF SkidInv, Skid!NoFalseFinding, SkidAgreement

LEMMA SkidNextInv ==
    ASSUME Zero \in Words, SkidInv, [Skid!Next]_(Skid!vars)
    PROVE  SkidInv'
  <1>1. ASSUME NEW rst_n \in BOOLEAN, NEW s_valid \in BOOLEAN, NEW m_ready \in BOOLEAN,
               NEW s_data \in Words, Skid!RtlEdge(rst_n, s_valid, s_data, m_ready)
        PROVE  SkidInv'
    <2> DEFINE s == Skid!RtlSample(rst_n, s_valid, s_data, m_ready)
    <2>1. Skid!TypeOK /\ SkidAgreement
      BY DEF SkidInv
    <2>2. s \in Skid!Samples /\ Skid!RtlRegisters(s) \in Skid!Registers
      BY <2>1, SkidRtlSampleType, SkidRtlRegistersType
    <2>3. findings = {} /\ Skid!Edge(s, Skid!RtlRegisters(s))
      BY <1>1 DEF Skid!RtlEdge
    <2>4. findings' = {}
      BY <2>1, <2>3, SkidRtlShowsNothing DEF Skid!Edge
    <2> HIDE DEF s
    <2>5. Skid!TypeOK' /\ SkidAgreement'
      BY <2>1, <2>2, <2>3, SkidEdgeType, SkidEdgeAgreement
    <2> QED
      BY <2>4, <2>5 DEF SkidInv, Skid!NoFalseFinding
  <1>2. ASSUME Skid!AnyEdge
        PROVE  SkidInv'
    <2>1. PICK s \in Skid!Samples, after \in Skid!Registers : Skid!Edge(s, after)
      BY <1>2 DEF Skid!AnyEdge
    <2>2. Skid!TypeOK' /\ SkidAgreement'
      BY <1>2, <2>1, SkidEdgeType, SkidEdgeAgreement DEF SkidInv, Skid!AnyEdge
    <2>3. ~correct'
      BY <1>2, <2>1 DEF Skid!AnyEdge, Skid!Edge
    <2> QED
      BY <2>2, <2>3 DEF SkidInv, Skid!NoFalseFinding
  <1>3. CASE UNCHANGED Skid!vars
    BY <1>3 DEF Skid!vars, SkidInv, Skid!TypeOK, Skid!NoFalseFinding, SkidAgreement
  <1> QED
    BY <1>1, <1>2, <1>3 DEF Skid!Next

\* The invariant holds in every state.
THEOREM SkidInvariance == ASSUME Zero \in Words PROVE Skid!Spec => []SkidInv
  BY SkidInitInv, SkidNextInv, PTL DEF Skid!Spec

-----------------------------------------------------------------------------
\* A simulation of the skid buffer's source shows nothing to the analyzer.
THEOREM SkidNoFalseFinding == ASSUME Zero \in Words PROVE Skid!Spec => []Skid!NoFalseFinding
  <1>1. SkidInv => Skid!NoFalseFinding
    BY DEF SkidInv
  <1> QED
    BY <1>1, SkidInvariance, PTL

\* In a trace without a finding, of a design whose status signals change at clock
\* edges only, no word is lost or made up; which word comes out is not said.
THEOREM SkidCleanTraceConforms == ASSUME Zero \in Words PROVE Skid!Spec => []Skid!CleanTraceConforms
  <1>1. SkidInv => Skid!CleanTraceConforms
    BY DEF SkidInv, SkidAgreement, Skid!CleanTraceConforms
  <1> QED
    BY <1>1, SkidInvariance, PTL
=============================================================================
