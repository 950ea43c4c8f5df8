-------------------------- MODULE SendStreamProofs --------------------------
(***************************************************************************)
(* The safety properties of SendStream hold for every window size, every   *)
(* length of the stream, every set of read and write lengths and every set *)
(* of limits a peer may announce.                                          *)
(*                                                                         *)
(* None of them is inductive alone: the order of the offsets in TypeOK     *)
(* needs Conservation (an acknowledged run lies below sent_offset),        *)
(* ClosedWhenDelivered needs FinRidesLastByte (after the fin everything    *)
(* written was sent), and so on; their conjunction is.                     *)
(***************************************************************************)
EXTENDS SendStream, ByteRangesProofs

\* Conservation, offset by offset.
TrackedOnce ==
  /\ \A x \in acks : x \notin retransmits /\ acked <= x /\ x < sentOffset
  /\ \A x \in retransmits : acked <= x /\ x < sentOffset
  /\ \A f \in outstanding : \A x \in Bytes(f) :
       x \notin acks /\ x \notin retransmits /\ acked <= x /\ x < sentOffset
  /\ \A f, g \in outstanding : f # g => Bytes(f) \intersect Bytes(g) = {}
  /\ \A x \in Span(acked, sentOffset) :
       x \in acks \/ x \in retransmits \/ \E f \in outstanding : x \in Bytes(f)

LEMMA Tracked ==
  ASSUME TypeOK
  PROVE  Conservation <=> TrackedOnce
  <1> DEFINE Out == UNION { Bytes(f) : f \in outstanding }
             Sent == Span(acked, sentOffset)
  <1>1. \A x : x \in Out <=> \E f \in outstanding : x \in Bytes(f)
    OBVIOUS
  <1>2. \A x : x \in Sent <=> x \in Int /\ acked <= x /\ x < sentOffset
    BY DEF TypeOK, Span, LesserOf
  <1>3. acks \subseteq Int /\ retransmits \subseteq Int /\ Out \subseteq Int
    BY DEF TypeOK, Frames, Bytes, Span
  <1>4. Conservation <=>
          /\ acks \intersect retransmits = {}
          /\ \A f \in outstanding : Bytes(f) \intersect (acks \union retransmits) = {}
          /\ \A f, g \in outstanding : f # g => Bytes(f) \intersect Bytes(g) = {}
          /\ acks \union retransmits \union Out = Sent
    BY Zenon DEF Conservation
  <1> HIDE DEF Out, Sent
  <1>5. acks \union retransmits \union Out = Sent <=>
          /\ \A x \in acks : acked <= x /\ x < sentOffset
          /\ \A x \in retransmits : acked <= x /\ x < sentOffset
          /\ \A x \in Out : acked <= x /\ x < sentOffset
          /\ \A x \in Sent : x \in acks \/ x \in retransmits \/ x \in Out
    BY <1>2, <1>3
  <1>6. (\A x \in Out : acked <= x /\ x < sentOffset) <=>
          \A f \in outstanding : \A x \in Bytes(f) : acked <= x /\ x < sentOffset
    BY <1>1, Zenon
  <1>7. Sent = Span(acked, sentOffset)
    BY DEF Sent
  <1> QED
    BY <1>1, <1>4, <1>5, <1>6, <1>7, Zenon DEF TrackedOnce


\* The inductive invariant.
Inv == TypeOK /\ TrackedOnce /\ PrefixMaximal /\ FinRidesLastByte /\ ClosedWhenDelivered

LEMMA InitInv == Init => Inv
  <1> SUFFICES ASSUME Init PROVE Inv
    OBVIOUS
  <1> USE DEF Init
  <1>0. MaxWindow \in Nat /\ LesserOf(MaxWindow, 0) = 0
    BY SendConstants DEF SendConstants, LesserOf
  <1>1. TypeOK
    <2>1. sstate \in SendStates /\ closing \in BOOLEAN /\ wrote \in BOOLEAN
      BY DEF SendStates
    <2>2. maxData \in Nat /\ wroteOffset \in Nat
      BY <1>0
    <2>3. sentOffset \in 0..LesserOf(maxData, wroteOffset) /\ acked \in 0..sentOffset
      BY <1>0
    <2> QED
      BY <2>1, <2>2, <2>3 DEF TypeOK
  <1>2. TrackedOnce
    BY DEF TrackedOnce, Span
  <1>3. PrefixMaximal /\ FinRidesLastByte /\ ClosedWhenDelivered
    BY DEF PrefixMaximal, FinRidesLastByte, ClosedWhenDelivered
  <1> QED
    BY <1>1, <1>2, <1>3 DEF Inv

-----------------------------------------------------------------------------
(***************************************************************************)
(* The actions, one lemma each.                                            *)
(***************************************************************************)
LEMMA AppWriteInv == Inv /\ AppWrite => Inv'
  <1> SUFFICES ASSUME Inv, NEW len \in Lens, Write(len), UNCHANGED outstanding
               PROVE  Inv'
    BY DEF AppWrite
  <1> USE DEF Inv, Write
  <1>0. len \in Nat /\ wroteOffset \in Nat
    BY SendConstants DEF SendConstants, TypeOK
  <1>1. TypeOK'
    BY <1>0 DEF TypeOK, LesserOf
  <1>2. TrackedOnce'
    BY DEF TrackedOnce, Bytes
  <1>3. PrefixMaximal'
    BY DEF PrefixMaximal
  <1>4. FinRidesLastByte'
    BY DEF FinRidesLastByte, Bytes
  <1>5. ClosedWhenDelivered'
    BY DEF ClosedWhenDelivered, FinRidesLastByte, Bytes
  <1> QED
    BY <1>1, <1>2, <1>3, <1>4, <1>5

LEMMA AppWroteInv == Inv /\ AppWrote => Inv'
  <1> SUFFICES ASSUME Inv, ~wrote, Wrote, UNCHANGED outstanding
               PROVE  Inv'
    BY DEF AppWrote
  <1> USE DEF Inv, Wrote, window
  <1>1. TypeOK'
    BY DEF TypeOK
  <1>2. TrackedOnce'
    BY DEF TrackedOnce, Bytes
  <1>3. PrefixMaximal'
    BY DEF PrefixMaximal
  <1>4. FinRidesLastByte'
    BY DEF FinRidesLastByte, Bytes
  <1>5. ClosedWhenDelivered'
    BY DEF ClosedWhenDelivered, FinRidesLastByte, Bytes
  <1> QED
    BY <1>1, <1>2, <1>3, <1>4, <1>5

LEMMA AppCloseInv == Inv /\ AppClose => Inv'
  BY DEF Inv, AppClose, Close, window, TypeOK, TrackedOnce, PrefixMaximal,
         FinRidesLastByte, ClosedWhenDelivered, Bytes

LEMMA PeerLimitInv == Inv /\ PeerLimit => Inv'
  <1> SUFFICES ASSUME Inv, NEW limit \in Limits, MaxData(limit), UNCHANGED outstanding
               PROVE  Inv'
    BY DEF PeerLimit
  <1> USE DEF Inv, MaxData
  <1>0. limit \in Nat
    BY SendConstants DEF SendConstants
  <1>1. TypeOK'
    BY <1>0 DEF TypeOK, LesserOf
  <1>2. TrackedOnce' /\ PrefixMaximal' /\ FinRidesLastByte' /\ ClosedWhenDelivered'
    BY DEF TrackedOnce, PrefixMaximal, FinRidesLastByte, ClosedWhenDelivered, Bytes
  <1> QED
    BY <1>1, <1>2

\* What Fin, Chunk and the two parts of SendWindow::read guarantee: the chunk
\* is a first part of the lost offsets, or of those never sent.
LEMMA ReadFacts ==
  ASSUME Inv, NEW len \in Nat, NEW f \in ReadResult(len)
  PROVE  /\ f \in Frames
         /\ f.fin <=> wrote /\ f.hi = wroteOffset
         /\ sstate \in {"Ready", "Send", "DataSent"}
         /\ f.lo <= f.hi /\ acked <= f.lo /\ (len > 0 => f.lo < f.hi)
         /\ \/ retransmits # {} /\ Bytes(f) \subseteq retransmits /\ f.lo < sentOffset
            \/ /\ retransmits = {} /\ sstate \in {"Ready", "Send"}
               /\ f.lo = sentOffset /\ f.lo < wroteOffset
               /\ f.hi <= LesserOf(maxData, wroteOffset)
  <1> USE DEF Inv, TypeOK, TrackedOnce
  <1>0. sstate \in {"Ready", "Send", "DataSent"}
    BY DEF ReadResult, SendStates
  <1>1. CASE f \in RetransmitChunk(len)
    <2>1. PICK run \in FirstRun(retransmits) :
            f = Chunk(run[1], run[1] + LesserOf(len, run[2] - run[1]))
      BY <1>1 DEF RetransmitChunk
    <2>2. /\ run[1] \in retransmits /\ run[2] \in Nat /\ run[1] < run[2]
          /\ \A x \in Span(run[1], run[2]) : x \in retransmits
      BY FirstRunFacts
    <2>3. /\ f.lo = run[1] /\ f.hi = run[1] + LesserOf(len, run[2] - run[1])
          /\ f.fin = Fin(f.hi)
          /\ f = [lo |-> f.lo, hi |-> f.hi, fin |-> f.fin]
      BY <2>1 DEF Chunk
    <2>4. /\ f.lo \in Nat /\ f.hi \in Nat /\ f.lo <= f.hi /\ f.hi <= run[2]
          /\ len > 0 => f.lo < f.hi
      BY <2>2, <2>3 DEF LesserOf
    <2>5. f.fin \in BOOLEAN /\ (f.fin <=> wrote /\ f.hi = wroteOffset)
      BY <2>3 DEF Fin
    <2>6. f \in Frames
      BY <2>3, <2>4, <2>5 DEF Frames
    <2>7. Bytes(f) \subseteq retransmits
      BY <2>2, <2>3, <2>4 DEF Bytes, Span
    <2> QED
      BY <1>0, <2>2, <2>3, <2>4, <2>5, <2>6, <2>7
  <1>2. CASE f \in FreshChunk(len) /\ sstate \in {"Ready", "Send"}
    <2>1. /\ retransmits = {} /\ Available > 0
          /\ f = Chunk(sentOffset, sentOffset + LesserOf(len, Available))
      BY <1>2 DEF FreshChunk
    <2>2. /\ f.lo = sentOffset /\ f.hi = sentOffset + LesserOf(len, Available)
          /\ f.fin = Fin(f.hi)
          /\ f = [lo |-> f.lo, hi |-> f.hi, fin |-> f.fin]
      BY <2>1 DEF Chunk
    <2>3. /\ f.lo \in Nat /\ f.hi \in Nat /\ f.lo <= f.hi /\ f.lo < wroteOffset
          /\ len > 0 => f.lo < f.hi
          /\ f.hi <= LesserOf(maxData, wroteOffset)
      BY <2>1, <2>2 DEF LesserOf, Available
    <2>4. f.fin \in BOOLEAN /\ (f.fin <=> wrote /\ f.hi = wroteOffset)
      BY <2>2 DEF Fin
    <2>5. f \in Frames
      BY <2>2, <2>3, <2>4 DEF Frames
    <2> QED
      BY <1>0, <1>2, <2>1, <2>2, <2>3, <2>4, <2>5
  <1> QED
    BY <1>0, <1>1, <1>2 DEF ReadResult

LEMMA ReadFrameInv ==
  ASSUME Inv, NEW len \in Nat, NEW f \in ReadResult(len),
         Read(f), outstanding' = outstanding \union {f}
  PROVE  Inv'
  <1> USE DEF Inv
  <1>1. /\ f \in Frames
        /\ f.fin <=> wrote /\ f.hi = wroteOffset
        /\ sstate \in {"Ready", "Send", "DataSent"}
        /\ f.lo <= f.hi /\ acked <= f.lo
    BY ReadFacts
  <1>2. \/ retransmits # {} /\ Bytes(f) \subseteq retransmits /\ f.lo < sentOffset
        \/ /\ retransmits = {} /\ sstate \in {"Ready", "Send"}
           /\ f.lo = sentOffset /\ f.lo < wroteOffset
           /\ f.hi <= LesserOf(maxData, wroteOffset)
    BY ReadFacts
  <1>3. f.lo \in Nat /\ f.hi \in Nat /\ f.fin \in BOOLEAN
    BY <1>1 DEF Frames
  <1>4. UNCHANGED <<closing, wrote, acked, maxData, wroteOffset, acks>>
    BY DEF Read
  <1>5. sstate' = IF sstate = "DataSent" \/ f.fin THEN "DataSent" ELSE "Send"
    BY DEF Read
  <1>6. CASE /\ retransmits # {} /\ Bytes(f) \subseteq retransmits /\ f.lo < sentOffset
             /\ retransmits' = retransmits \ Bytes(f) /\ UNCHANGED sentOffset
    <2>1. TypeOK'
      BY <1>1, <1>3, <1>4, <1>5, <1>6 DEF TypeOK, SendStates
    <2>2. TrackedOnce'
      <3>1. \A x \in acks' : x \notin retransmits' /\ acked' <= x /\ x < sentOffset'
        BY <1>4, <1>6 DEF TrackedOnce
      <3>2. \A x \in retransmits' : acked' <= x /\ x < sentOffset'
        BY <1>4, <1>6 DEF TrackedOnce
      <3>3. \A g \in outstanding' : \A x \in Bytes(g) :
              x \notin acks' /\ x \notin retransmits' /\ acked' <= x /\ x < sentOffset'
        BY <1>4, <1>6 DEF TrackedOnce
      <3>4. \A g, h \in outstanding' : g # h => Bytes(g) \intersect Bytes(h) = {}
        BY <1>6 DEF TrackedOnce
      <3>5. \A x \in Span(acked', sentOffset') :
              x \in acks' \/ x \in retransmits' \/ \E g \in outstanding' : x \in Bytes(g)
        BY <1>4, <1>6 DEF TrackedOnce
      <3> QED
        BY <3>1, <3>2, <3>3, <3>4, <3>5 DEF TrackedOnce, Bytes
    <2>3. PrefixMaximal'
      BY <1>4 DEF PrefixMaximal
    <2>4. FinRidesLastByte'
      \* A retransmission that ends at the last byte ends at sent_offset.
      <3>1. f.hi = wroteOffset => sentOffset = wroteOffset
        <4>1. CASE f.lo < f.hi
          BY <1>3, <1>6, <4>1 DEF TrackedOnce, TypeOK, Bytes, Span, LesserOf
        <4>2. CASE f.lo = f.hi
          BY <1>3, <1>6, <4>2 DEF TypeOK, LesserOf
        <4> QED
          BY <1>1, <1>3, <4>1, <4>2
      <3>2. ASSUME NEW g \in outstanding', sstate' = "DataSent",
                   Bytes(g) # {}, g.hi = wroteOffset
            PROVE  g.fin
        <4>1. CASE g = f
          BY <1>1, <1>4, <1>5, <3>2, <4>1 DEF FinRidesLastByte
        <4>2. CASE g # f /\ sstate = "DataSent"
          BY <3>2, <4>2 DEF FinRidesLastByte
        <4>3. CASE g # f /\ f.fin
          \* f and g would share the last byte, unless f is empty.
          <5>1. g \in outstanding /\ g.lo \in Nat /\ g.lo < g.hi
            BY <3>2, <4>3 DEF TypeOK, Frames, Bytes, Span
          <5>2. f.lo < f.hi
            BY <1>1, <1>3, <1>6, <3>1, <4>3 DEF TypeOK, LesserOf
          <5>3. wroteOffset - 1 \in Bytes(g) /\ wroteOffset - 1 \in Bytes(f)
            BY <1>1, <1>3, <3>2, <4>3, <5>1, <5>2 DEF Bytes, Span, TypeOK
          <5> QED
            BY <1>6, <5>1, <5>3 DEF TrackedOnce
        <4> QED
          BY <1>5, <3>2, <4>1, <4>2, <4>3
      <3> QED
        BY <1>1, <1>4, <1>5, <1>6, <3>1, <3>2 DEF FinRidesLastByte, Bytes
    <2>5. ClosedWhenDelivered'
      BY <1>5 DEF ClosedWhenDelivered
    <2> QED
      BY <2>1, <2>2, <2>3, <2>4, <2>5
  <1>7. CASE /\ retransmits = {} /\ sstate \in {"Ready", "Send"}
             /\ f.lo = sentOffset /\ f.lo < wroteOffset
             /\ f.hi <= LesserOf(maxData, wroteOffset)
             /\ sentOffset' = f.hi /\ UNCHANGED retransmits
    <2>1. TypeOK'
      BY <1>1, <1>3, <1>4, <1>5, <1>7 DEF TypeOK, SendStates, LesserOf
    <2>2. Bytes(f) = Span(sentOffset, sentOffset') /\ sentOffset <= sentOffset'
      BY <1>1, <1>7 DEF Bytes
    <2>3. TrackedOnce'
      <3> USE DEF TypeOK
      <3>1. \A x \in acks' : x \notin retransmits' /\ acked' <= x /\ x < sentOffset'
        BY <1>3, <1>4, <1>7, <2>2 DEF TrackedOnce, LesserOf
      <3>2. retransmits' = {}
        BY <1>7
      <3>3. \A g \in outstanding' : \A x \in Bytes(g) :
              x \notin acks' /\ acked' <= x /\ x < sentOffset'
        <4>1. \A x \in Bytes(f) : sentOffset <= x /\ x < sentOffset' /\ x \in Int
          BY <1>3, <1>7, <2>2 DEF Span, LesserOf
        <4>2. \A g \in outstanding : \A x \in Bytes(g) : x < sentOffset /\ x \in Int
          BY DEF TrackedOnce, Bytes, Span, Frames
        <4> QED
          BY <1>3, <1>4, <1>7, <2>2, <4>1, <4>2 DEF TrackedOnce, LesserOf
      <3>4. \A g, h \in outstanding' : g # h => Bytes(g) \intersect Bytes(h) = {}
        <4>1. \A x \in Bytes(f) : sentOffset <= x /\ x \in Int
          BY <1>3, <1>7, <2>2 DEF Span, LesserOf
        <4>2. \A g \in outstanding : \A x \in Bytes(g) : x < sentOffset
          BY DEF TrackedOnce
        <4>3. \A g \in outstanding : Bytes(g) \intersect Bytes(f) = {}
          BY <4>1, <4>2 DEF LesserOf
        <4> QED
          BY <4>3 DEF TrackedOnce
      <3>5. \A x \in Span(acked', sentOffset') :
              x \in acks' \/ \E g \in outstanding' : x \in Bytes(g)
        <4>1. \A x \in Span(acked, sentOffset') :
                x \in Span(acked, sentOffset) \/ x \in Bytes(f)
          BY <1>3, <1>7, <2>2 DEF Span, LesserOf
        <4> QED
          BY <1>4, <1>7, <4>1 DEF TrackedOnce
      <3> QED
        BY <3>1, <3>2, <3>3, <3>4, <3>5 DEF TrackedOnce, Bytes
    <2>4. PrefixMaximal'
      BY <1>4 DEF PrefixMaximal
    <2>5. FinRidesLastByte'
      \* Nothing sent before ends at the last byte: it lies below f.
      <3>1. \A g \in outstanding : Bytes(g) # {} => g.hi <= sentOffset
        <4>1. SUFFICES ASSUME NEW g \in outstanding, Bytes(g) # {}
                       PROVE  g.hi <= sentOffset
          OBVIOUS
        <4>2. g.lo \in Nat /\ g.hi \in Nat /\ g.hi - 1 \in Bytes(g)
          BY <4>1 DEF TypeOK, Frames, Bytes, Span
        <4> QED
          BY <4>2 DEF TrackedOnce, TypeOK, LesserOf
      <3>2. \A g \in outstanding : Bytes(g) # {} => g.hi # wroteOffset
        BY <1>7, <3>1 DEF TypeOK, LesserOf, Frames
      <3> QED
        BY <1>1, <1>4, <1>5, <1>7, <3>2 DEF FinRidesLastByte, Bytes
    <2>6. ClosedWhenDelivered'
      BY <1>5 DEF ClosedWhenDelivered
    <2> QED
      BY <2>1, <2>3, <2>4, <2>5, <2>6
  <1> QED
    BY <1>2, <1>6, <1>7 DEF Read

LEMMA TickInv == Inv /\ Tick => Inv'
  BY ReadFrameInv, SendConstants DEF Tick, ReadFrame, SendConstants

LEMMA PacketizeInv == Inv /\ Packetize => Inv'
  <1> SUFFICES ASSUME Inv, NEW f \in outstanding, NEW mid \in Bytes(f), Split(f, mid)
               PROVE  Inv'
    BY DEF Packetize
  <1> USE DEF Inv
  <1> DEFINE head == [lo |-> f.lo, hi |-> mid, fin |-> FALSE]
             tail == [f EXCEPT !.lo = mid]
  <1>1. /\ f \in Frames /\ f.lo \in Nat /\ f.hi \in Nat /\ f.fin \in BOOLEAN
        /\ mid \in Nat /\ f.lo < mid /\ mid < f.hi
    BY DEF Split, TypeOK, Frames, Bytes, Span
  <1>2. /\ head \in Frames /\ head.lo = f.lo /\ head.hi = mid /\ head.fin = FALSE
        /\ tail \in Frames /\ tail.lo = mid /\ tail.hi = f.hi /\ tail.fin = f.fin
    BY <1>1 DEF Frames
  <1>3. Bytes(head) = Span(f.lo, mid) /\ Bytes(tail) = Span(mid, f.hi)
    BY <1>2 DEF Bytes
  <1>4. outstanding' = (outstanding \ {f}) \union {head, tail}
    BY DEF Split
  <1>5. UNCHANGED svars
    BY DEF Split
  <1> HIDE DEF head, tail
  <1>6. /\ Bytes(head) \subseteq Bytes(f) /\ Bytes(tail) \subseteq Bytes(f)
        /\ Bytes(head) \intersect Bytes(tail) = {}
        /\ \A x \in Bytes(f) : x \in Bytes(head) \/ x \in Bytes(tail)
    <2>1. /\ \A x : x \in Bytes(head) <=> x \in Int /\ f.lo <= x /\ x < mid
          /\ \A x : x \in Bytes(tail) <=> x \in Int /\ mid <= x /\ x < f.hi
      BY <1>1, <1>3 DEF Span
    <2>2. \A x : x \in Bytes(f) <=> x \in Int /\ f.lo <= x /\ x < f.hi
      BY <1>1 DEF Bytes, Span
    <2> QED
      BY <1>1, <2>1, <2>2
  <1>7. TypeOK'
    BY <1>2, <1>4, <1>5 DEF TypeOK, svars, window
  <1>8. TrackedOnce'
    <2>1. \A g \in outstanding' : \A x \in Bytes(g) :
            x \notin acks /\ x \notin retransmits /\ acked <= x /\ x < sentOffset
      BY <1>4, <1>6 DEF TrackedOnce
    <2>2. \A g, h \in outstanding' : g # h => Bytes(g) \intersect Bytes(h) = {}
      BY <1>4, <1>6 DEF TrackedOnce
    <2>3. \A x \in Span(acked, sentOffset) :
            x \in acks \/ x \in retransmits \/ \E g \in outstanding' : x \in Bytes(g)
      BY <1>4, <1>6 DEF TrackedOnce
    <2> QED
      BY <1>5, <2>1, <2>2, <2>3 DEF TrackedOnce, svars, window, Bytes
  <1>9. PrefixMaximal'
    BY <1>5 DEF PrefixMaximal, svars, window
  <1>10. FinRidesLastByte'
    <2>1. \A g \in outstanding' : g.fin => wrote /\ g.hi = wroteOffset
      BY <1>2, <1>4 DEF FinRidesLastByte
    <2>2. ASSUME sstate \in {"DataSent", "DataRecvd"}
          PROVE  /\ wrote /\ sentOffset = wroteOffset
                 /\ \A g \in outstanding' : Bytes(g) # {} /\ g.hi = wroteOffset => g.fin
      \* The head ends below the last byte, the tail inherits the fin.
      <3>1. mid < wroteOffset
        <4>1. mid \in Bytes(f)
          OBVIOUS
        <4> QED
          BY <1>1, <4>1 DEF TrackedOnce, TypeOK, LesserOf
      <3>2. f.hi = wroteOffset => f.fin
        BY <1>1, <2>2 DEF FinRidesLastByte
      <3> QED
        BY <1>1, <1>2, <1>4, <2>2, <3>1, <3>2 DEF FinRidesLastByte
    <2> QED
      BY <1>5, <2>1, <2>2 DEF FinRidesLastByte, svars, window, Bytes
  <1>11. ClosedWhenDelivered'
    BY <1>4, <1>5, <1>6 DEF ClosedWhenDelivered, svars, window, Bytes
  <1> QED
    BY <1>7, <1>8, <1>9, <1>10, <1>11

\* An outstanding frame that holds bytes is never ignored.
LEMMA OutstandingFacts ==
  ASSUME Inv, NEW f \in outstanding
  PROVE  /\ f.lo \in Nat /\ f.hi \in Nat
         /\ f.lo < f.hi => ~Ignored(f.lo, f.hi) /\ ~IgnoredAck(f.lo, f.hi) /\ f.hi <= sentOffset
         /\ f.lo >= f.hi => Ignored(f.lo, f.hi) /\ IgnoredAck(f.lo, f.hi) /\ Bytes(f) = {}
  <1> USE DEF Inv, TypeOK
  <1>1. f.lo \in Nat /\ f.hi \in Nat
    BY DEF Frames
  <1>2. ASSUME f.lo < f.hi
        PROVE  ~Ignored(f.lo, f.hi) /\ ~IgnoredAck(f.lo, f.hi) /\ f.hi <= sentOffset
    <2>1. f.lo \in Bytes(f) /\ f.hi - 1 \in Bytes(f)
      BY <1>1, <1>2 DEF Bytes, Span
    <2>2. acked <= f.lo /\ f.lo \notin retransmits /\ f.hi - 1 < sentOffset
      BY <2>1 DEF TrackedOnce
    <2>3. f.hi <= sentOffset
      BY <1>1, <2>2 DEF LesserOf
    <2> QED
      BY <1>1, <1>2, <2>1, <2>2, <2>3 DEF Ignored, IgnoredAck, Bytes, LesserOf
  <1>3. ASSUME f.lo >= f.hi
        PROVE  Ignored(f.lo, f.hi) /\ IgnoredAck(f.lo, f.hi) /\ Bytes(f) = {}
    BY <1>1, <1>3 DEF Ignored, IgnoredAck, Bytes, Span
  <1> QED
    BY <1>1, <1>2, <1>3

LEMMA FrameLostInv == Inv /\ FrameLost => Inv'
  <1> SUFFICES ASSUME Inv, NEW f \in outstanding, LoseFrame(f)
               PROVE  Inv'
    BY DEF FrameLost
  <1> USE DEF Inv
  <1>1. /\ outstanding' = outstanding \ {f}
        /\ UNCHANGED <<sstate, closing, wrote, acked, maxData, sentOffset, wroteOffset, acks>>
    BY DEF LoseFrame, Retransmit
  <1>2. retransmits' = retransmits \union Bytes(f)
    <2>1. retransmits' = IF Ignored(f.lo, f.hi) THEN retransmits ELSE retransmits \union Bytes(f)
      BY DEF LoseFrame, Retransmit, Bytes
    <2>2. CASE f.lo < f.hi
      BY <2>1, <2>2, OutstandingFacts
    <2>3. CASE f.lo >= f.hi
      BY <2>1, <2>3, OutstandingFacts
    <2> QED
      BY <2>2, <2>3, OutstandingFacts
  <1>3. Bytes(f) \subseteq Nat
    BY DEF TypeOK, Frames, Bytes, Span
  <1>4. TypeOK'
    BY <1>1, <1>2, <1>3 DEF TypeOK
  <1>5. TrackedOnce'
    BY <1>1, <1>2 DEF TrackedOnce, Bytes
  <1>6. PrefixMaximal' /\ FinRidesLastByte'
    BY <1>1 DEF PrefixMaximal, FinRidesLastByte, Bytes
  <1>7. ClosedWhenDelivered'
    BY <1>1, <1>2 DEF ClosedWhenDelivered, Bytes
  <1> QED
    BY <1>4, <1>5, <1>6, <1>7

\* The acknowledged run leaves the buffer or waits in acks; in both cases the
\* acknowledged prefix stays maximal.
LEMMA WindowAckFacts ==
  ASSUME Inv, NEW f \in outstanding, f.lo < f.hi, WindowAck(f.lo, f.hi)
  PROVE  /\ acked' \in acked..sentOffset
         /\ \A x : x \in acks' <=> (x \in acks \/ x \in Bytes(f)) /\ acked' <= x
         /\ acked' \notin acks'
         /\ \A x \in Span(acked, acked') : x \in acks \/ x \in Bytes(f)
  <1> USE DEF Inv, TypeOK
  <1> DEFINE all == acks \union Bytes(f)
  <1>1. \A x \in all : x \in Nat /\ acked <= x /\ x < sentOffset
    <2>1. Bytes(f) \subseteq Nat
      BY DEF Frames, Bytes, Span
    <2> QED
      BY <2>1 DEF TrackedOnce
  <1>2. PICK run \in FirstRun(all) :
          IF run[1] = acked
          THEN acks' = all \ Span(run[1], run[2]) /\ acked' = run[2]
          ELSE acks' = all /\ acked' = acked
    BY OutstandingFacts DEF WindowAck, Bytes
  <1> HIDE DEF all
  <1>3. all \in SUBSET Nat
    BY <1>1
  <1>4. /\ run[1] \in all /\ run[2] \in Nat /\ run[1] < run[2]
        /\ \A x \in Span(run[1], run[2]) : x \in all
        /\ run[2] \notin all
        /\ \A x \in all : run[1] <= x
    BY <1>3, FirstRunFacts
  <1>5. CASE run[1] = acked /\ acks' = all \ Span(run[1], run[2]) /\ acked' = run[2]
    <2>1. run[2] - 1 \in all
      BY <1>1, <1>4 DEF Span
    <2>2. acked' \in acked..sentOffset
      BY <1>1, <1>4, <1>5, <2>1 DEF LesserOf
    <2>3. \A x : x \in acks' <=> x \in all /\ acked' <= x
      BY <1>1, <1>4, <1>5 DEF Span, LesserOf
    <2>4. acked' \notin acks' /\ \A x \in Span(acked, acked') : x \in all
      BY <1>4, <1>5
    <2> QED
      BY <2>2, <2>3, <2>4 DEF all
  <1>6. CASE run[1] # acked /\ acks' = all /\ acked' = acked
    <2>1. acked \notin all
      BY <1>1, <1>4, <1>6 DEF LesserOf
    <2>2. acked' \in acked..sentOffset /\ Span(acked, acked') = {}
      BY <1>6 DEF Span, LesserOf
    <2>3. \A x : x \in acks' <=> x \in all /\ acked' <= x
      BY <1>1, <1>6
    <2> QED
      BY <1>6, <2>1, <2>2, <2>3 DEF all
  <1> QED
    BY <1>2, <1>5, <1>6

LEMMA FrameAckedInv == Inv /\ FrameAcked => Inv'
  <1> SUFFICES ASSUME Inv, NEW f \in outstanding, AckFrame(f)
               PROVE  Inv'
    BY DEF FrameAcked
  <1> USE DEF Inv
  <1>1. /\ WindowAck(f.lo, f.hi)
        /\ outstanding' = outstanding \ {f}
        /\ UNCHANGED <<wrote, maxData, sentOffset, wroteOffset, retransmits>>
    BY DEF AckFrame, Ack
  <1>2. IF sstate = "DataSent" /\ acked' = wroteOffset
        THEN sstate' = "DataRecvd" /\ closing' = FALSE
        ELSE UNCHANGED <<sstate, closing>>
    BY DEF AckFrame, Ack
  \* What both cases share: the window after the acknowledgement.
  <1>3. /\ acked' \in acked..sentOffset
        /\ \A x : x \in acks' <=> (x \in acks \/ x \in Bytes(f)) /\ acked' <= x
        /\ acked' \notin acks'
        /\ \A x \in Span(acked, acked') : x \in acks \/ x \in Bytes(f)
    <2>1. CASE f.lo < f.hi
      BY <1>1, <2>1, WindowAckFacts
    <2>2. CASE f.lo >= f.hi
      <3>1. acks' = acks /\ acked' = acked /\ Bytes(f) = {}
        BY <1>1, <2>2, OutstandingFacts DEF WindowAck
      <3>2. acked' \in acked..sentOffset /\ Span(acked, acked') = {}
        BY <3>1 DEF TypeOK, Span, LesserOf
      <3> QED
        BY <3>1, <3>2 DEF PrefixMaximal, TrackedOnce
    <2> QED
      BY <2>1, <2>2, OutstandingFacts
  <1>4. acked \in Nat /\ acked' \in Nat /\ sentOffset \in Nat /\ acked' <= sentOffset
    BY <1>3 DEF TypeOK, LesserOf
  <1>5. TypeOK'
    <2>1. acks' \subseteq Nat
      <3>1. Bytes(f) \subseteq Nat /\ acks \subseteq Nat
        BY DEF TypeOK, Frames, Bytes, Span
      <3> QED
        BY <1>3, <3>1
    <2>2. sstate' \in SendStates /\ closing' \in BOOLEAN
      BY <1>2 DEF TypeOK, SendStates
    <2> QED
      BY <1>1, <1>4, <2>1, <2>2 DEF TypeOK
  <1>6. TrackedOnce'
    \* An offset that is lost or in another frame lies above the new prefix.
    <2>1. ASSUME NEW x \in Nat, acked <= x, x \notin acks, x \notin Bytes(f)
          PROVE  acked' <= x
      <3>1. x \notin Span(acked, acked')
        BY <1>3, <2>1
      <3> QED
        BY <1>4, <2>1, <3>1, SpanMember
    <2>2. \A x \in acks' : x \notin retransmits' /\ acked' <= x /\ x < sentOffset'
      BY <1>1, <1>3 DEF TrackedOnce
    <2>3. \A x \in retransmits' : acked' <= x /\ x < sentOffset'
      BY <1>1, <2>1 DEF TrackedOnce, TypeOK
    <2>4. \A g \in outstanding' : \A x \in Bytes(g) :
            x \notin acks' /\ x \notin retransmits' /\ acked' <= x /\ x < sentOffset'
      <3>1. \A g \in outstanding' : \A x \in Bytes(g) : x \in Nat /\ x \notin Bytes(f)
        BY <1>1 DEF TrackedOnce, TypeOK, Frames, Bytes, Span
      <3> QED
        BY <1>1, <1>3, <2>1, <3>1 DEF TrackedOnce
    <2>5. \A g, h \in outstanding' : g # h => Bytes(g) \intersect Bytes(h) = {}
      BY <1>1 DEF TrackedOnce
    <2>6. \A x \in Span(acked', sentOffset') :
            x \in acks' \/ x \in retransmits' \/ \E g \in outstanding' : x \in Bytes(g)
      <3>1. \A x \in Span(acked', sentOffset) : x \in Span(acked, sentOffset) /\ acked' <= x
        BY <1>3, <1>4 DEF Span
      <3> QED
        BY <1>1, <1>3, <3>1 DEF TrackedOnce
    <2> QED
      BY <2>2, <2>3, <2>4, <2>5, <2>6 DEF TrackedOnce, Bytes
  <1>7. PrefixMaximal'
    BY <1>3 DEF PrefixMaximal
  <1>8. FinRidesLastByte'
    BY <1>1, <1>2 DEF FinRidesLastByte, Bytes
  <1>9. ClosedWhenDelivered'
    <2>1. CASE sstate = "DataSent" /\ acked' = wroteOffset
      <3>1. sentOffset' = wroteOffset' /\ acked' = sentOffset'
        BY <1>1, <2>1 DEF FinRidesLastByte
      <3>2. acks' = {} /\ retransmits' = {} /\ \A g \in outstanding' : Bytes(g) = {}
        <4>1. /\ \A x \in acks' : x \in Nat /\ acked' <= x /\ x < sentOffset'
              /\ \A x \in retransmits' : x \in Nat /\ acked' <= x /\ x < sentOffset'
              /\ \A g \in outstanding' : \A x \in Bytes(g) :
                   x \in Nat /\ acked' <= x /\ x < sentOffset'
          BY <1>5, <1>6 DEF TypeOK, TrackedOnce, Frames, Bytes, Span
        <4> QED
          BY <1>1, <1>4, <3>1, <4>1
      <3> QED
        BY <1>1, <1>2, <2>1, <3>1, <3>2 DEF ClosedWhenDelivered, Bytes
    <2>2. CASE ~(sstate = "DataSent" /\ acked' = wroteOffset) /\ sstate = "DataRecvd"
      <3>1. Bytes(f) = {} /\ acks = {} /\ acked = wroteOffset
        BY <2>2 DEF ClosedWhenDelivered
      <3>2. acked' = acked
        <4>1. acked \notin Span(acked, acked')
          BY <1>3, <3>1
        <4> QED
          BY <1>3, <1>4, <4>1, SpanMember
      <3>3. acks' = {}
        BY <1>3, <3>1
      <3> QED
        BY <1>1, <1>2, <2>2, <3>1, <3>2, <3>3 DEF ClosedWhenDelivered, Bytes
    <2>3. CASE ~(sstate = "DataSent" /\ acked' = wroteOffset) /\ sstate # "DataRecvd"
      BY <1>2, <2>3 DEF ClosedWhenDelivered
    <2> QED
      BY <2>1, <2>2, <2>3
  <1> QED
    BY <1>5, <1>6, <1>7, <1>8, <1>9
-----------------------------------------------------------------------------
(***************************************************************************)
(* The theorems.                                                           *)
(***************************************************************************)
LEMMA StepInv == Inv /\ [Next]_vars => Inv'
  <1> SUFFICES ASSUME Inv, [Next]_vars PROVE Inv'
    OBVIOUS
  <1>1. CASE UNCHANGED vars
    BY <1>1 DEF Inv, vars, svars, window, TypeOK, TrackedOnce, PrefixMaximal,
                FinRidesLastByte, ClosedWhenDelivered, Bytes
  <1> QED
    BY <1>1, AppWriteInv, AppWroteInv, AppCloseInv, TickInv, PacketizeInv,
       PeerLimitInv, FrameAckedInv, FrameLostInv DEF Next

LEMMA SpecInv == Spec => []Inv
  BY InitInv, StepInv, PTL DEF Spec

\* Types and the order acked <= sent_offset <= min(max_data, wrote_offset):
\* the window arithmetic never underflows and nothing is sent past the limit
\* that the peer announced, for any window and any lengths.
THEOREM TypeCorrect == Spec => []TypeOK
  BY SpecInv, PTL DEF Inv

\* Every offset below sent_offset is acknowledged, lost or outstanding, in
\* exactly one of these ways, whatever the order of acks, losses and reads.
THEOREM NothingForgotten == Spec => []Conservation
  <1>1. Inv => Conservation
    BY Tracked DEF Inv
  <1> QED
    BY <1>1, SpecInv, PTL

\* Reordered acks never leave the acknowledged prefix short of what they allow.
THEOREM PrefixIsMaximal == Spec => []PrefixMaximal
  BY SpecInv, PTL DEF Inv

\* The fin survives every loss, every repeated read and every cut, and is
\* never handed out before the last byte.
THEOREM FinSurvives == Spec => []FinRidesLastByte
  BY SpecInv, PTL DEF Inv

\* A close is answered only after every written byte was acknowledged.
THEOREM CloseIsHonest == Spec => []ClosedWhenDelivered
  BY SpecInv, PTL DEF Inv
=============================================================================
