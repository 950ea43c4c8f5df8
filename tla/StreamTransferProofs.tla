------------------------ MODULE StreamTransferProofs ------------------------
(***************************************************************************)
(* One stream end to end: flow control, the refinement of ByteStream and,  *)
(* when retransmission timers do not fire too early, the meaning of an     *)
(* acknowledgement, for every window size, length of the stream, way of    *)
(* writing and reading it, and every behaviour of the network.             *)
(*                                                                         *)
(* The handlers of the two ends are those of SendStream and RecvStream:    *)
(* what the lemmas of SendStreamProofs and RecvStreamProofs say of them is *)
(* used here through SP and RP.                                            *)
(***************************************************************************)
EXTENDS StreamTransfer, ByteRangesProofs

SP == INSTANCE SendStreamProofs WITH outstanding <- flight, Limits <- Nat
RP == INSTANCE RecvStreamProofs WITH MaxTotal <- MaxBytes

\* A frame that was cut from the stream: not empty, sent, and with the fin
\* only on the last byte of a finished stream.
Sent(f) ==
  /\ f.lo < f.hi /\ f.hi <= sentOffset
  /\ f.fin => wrote /\ f.hi = wroteOffset

\* Every packet of this stream in the network carries such a frame.
FramesSent == \A f \in flight \union stale : Sent(f)

\* No limit the sender knows, or will hear of, exceeds the receiver's.
LimitsAnnounced ==
  /\ maxData <= start + MaxWindow
  /\ \A limit \in limits : limit <= start + MaxWindow

\* The receiver has only what was sent, and knows the right end.
OnlySent ==
  /\ consumed <= sentOffset /\ \A x \in recv : x < sentOffset
  /\ finOffset # RP!NoFin => wrote /\ finOffset = wroteOffset

\* How the parts of the network relate (TypeOK).
Packets ==
  /\ transit \subseteq flight /\ got \subseteq flight
  /\ transit \intersect got = {}
  /\ stale \subseteq SP!Frames
  /\ limits \subseteq Nat

\* The inductive invariant.
Inv ==
  /\ SP!Inv /\ RP!StreamInv
  /\ Packets /\ FramesSent /\ LimitsAnnounced /\ OnlySent
-----------------------------------------------------------------------------
(***************************************************************************)
(* The definitions of the instances S and R are those the lemmas of SP and *)
(* RP are about.                                                           *)
(***************************************************************************)
LEMMA SameRead == \A len : R!Read(len) <=> RP!Read(len)
  BY DEF R!Read, RP!Read, R!HandlePending, RP!HandlePending, R!Progress, RP!Progress,
         R!ReadableEnd, RP!ReadableEnd, R!NotifyUpdate, RP!NotifyUpdate,
         R!ShouldUpdate, RP!ShouldUpdate, R!Span, RP!Span, R!LesserOf, RP!LesserOf

LEMMA SameWrite == \A lo, hi, fin : R!Write(lo, hi, fin) <=> RP!Write(lo, hi, fin)
  BY DEF R!Write, RP!Write, R!HandlePending, RP!HandlePending, R!Progress, RP!Progress,
         R!ReadableEnd, RP!ReadableEnd, R!NotifyUpdate, RP!NotifyUpdate,
         R!AfterWrite, RP!AfterWrite, R!Dropped, RP!Dropped, R!Recvd, RP!Recvd,
         R!NoFin, RP!NoFin, R!window, RP!window, R!ShouldUpdate, RP!ShouldUpdate,
         R!Span, RP!Span, R!LesserOf, RP!LesserOf

LEMMA SameUpdate == R!Update <=> RP!Update
  BY DEF R!Update, RP!Update, R!Span, RP!Span

LEMMA SameReadResult == \A len : S!ReadResult(len) = SP!ReadResult(len)
  BY DEF S!ReadResult, SP!ReadResult, S!RetransmitChunk, SP!RetransmitChunk,
     S!FreshChunk, SP!FreshChunk, S!Chunk, SP!Chunk, S!Fin, SP!Fin, S!FirstRun, SP!FirstRun,
     S!Available, SP!Available, S!Span, SP!Span, S!LesserOf, SP!LesserOf

LEMMA SameHandlers ==
  /\ \A f : S!Bytes(f) = SP!Bytes(f)
  /\ \A f : S!Read(f) <=> SP!Read(f)
  /\ \A len : S!Write(len) <=> SP!Write(len)
  /\ S!Wrote <=> SP!Wrote
  /\ S!Close <=> SP!Close
  /\ \A f, mid : S!Split(f, mid) <=> SP!Split(f, mid)
  /\ \A limit : S!MaxData(limit) <=> SP!MaxData(limit)
  <1> USE DEF S!Bytes, SP!Bytes, S!Span, SP!Span
  <1>1. \A f : S!Bytes(f) = SP!Bytes(f)
    OBVIOUS
  <1>2. \A f : S!Read(f) <=> SP!Read(f)
    BY DEF S!Read, SP!Read
  <1>3. \A len : S!Write(len) <=> SP!Write(len)
    BY DEF S!Write, SP!Write
  <1>4. S!Wrote <=> SP!Wrote
    BY DEF S!Wrote, SP!Wrote, S!window, SP!window
  <1>5. S!Close <=> SP!Close
    BY DEF S!Close, SP!Close, S!window, SP!window
  <1>6. \A f, mid : S!Split(f, mid) <=> SP!Split(f, mid)
    BY DEF S!Split, SP!Split, S!svars, SP!svars, S!window, SP!window
  <1>7. \A limit : S!MaxData(limit) <=> SP!MaxData(limit)
    BY DEF S!MaxData, SP!MaxData
  <1> QED
    BY <1>1, <1>2, <1>3, <1>4, <1>5, <1>6, <1>7

LEMMA SameFeedback ==
  /\ \A f : S!AckFrame(f) <=> SP!AckFrame(f)
  /\ \A f : S!LoseFrame(f) <=> SP!LoseFrame(f)
  <1>1. \A f : S!AckFrame(f) <=> SP!AckFrame(f)
    BY DEF S!AckFrame, SP!AckFrame, S!Ack, SP!Ack, S!WindowAck, SP!WindowAck,
       S!FirstRun, SP!FirstRun, S!IgnoredAck, SP!IgnoredAck, S!Ignored, SP!Ignored,
       S!Span, SP!Span
  <1>2. \A f : S!LoseFrame(f) <=> SP!LoseFrame(f)
    BY DEF S!LoseFrame, SP!LoseFrame, S!Retransmit, SP!Retransmit, S!Ignored, SP!Ignored,
       S!Span, SP!Span
  <1> QED
    BY <1>1, <1>2

\* The assumptions of the two modules on their constants hold here.
LEMMA SenderConstants ==
  MaxWindow \in Nat \ {0} /\ Lens \subseteq Nat /\ MaxBytes \in Nat /\ Nat \subseteq Nat
  BY TransferConstants DEF TransferConstants

LEMMA ReceiverConstants ==
  /\ MaxWindow \in Nat \ {0} /\ ReadLens \subseteq Nat
  /\ MaxReaders \in Nat \ {0} /\ MaxUpdates \in Nat /\ MaxBytes \in Nat
  BY TransferConstants DEF TransferConstants

-----------------------------------------------------------------------------
(***************************************************************************)
(* What the invariants of the two ends say, in the terms of this module.   *)
(***************************************************************************)
LEMMA SenderTypes ==
  SP!Inv =>
    /\ sentOffset \in Nat /\ wroteOffset \in Nat /\ maxData \in Nat /\ acked \in Nat
    /\ sentOffset <= maxData /\ sentOffset <= wroteOffset /\ acked <= sentOffset
    /\ wrote \in BOOLEAN /\ acks \subseteq Nat /\ retransmits \subseteq Nat
    /\ flight \subseteq SP!Frames
  BY DEF SP!Inv, SP!TypeOK, SP!LesserOf

LEMMA FrameTypes ==
  \A f \in SP!Frames :
    /\ f.lo \in Nat /\ f.hi \in Nat /\ f.fin \in BOOLEAN
    /\ \A x : x \in SP!Bytes(f) <=> x \in Nat /\ f.lo <= x /\ x < f.hi
  BY DEF SP!Frames, SP!Bytes, SP!Span

LEMMA ReceiverTypes ==
  RP!StreamInv =>
    /\ consumed \in Nat /\ start \in Nat /\ start <= consumed /\ recv \subseteq Nat
    /\ updates \in Nat /\ finOffset \in Nat \union {RP!NoFin}
  BY DEF RP!StreamInv, RP!TypeOK

\* A frame in flight that is not empty was cut from the stream.
LEMMA FlightSent ==
  SP!Inv => \A f \in flight : f.lo < f.hi => Sent(f)
  <1> SUFFICES ASSUME SP!Inv, NEW f \in flight, f.lo < f.hi PROVE Sent(f)
    OBVIOUS
  <1>1. sentOffset \in Nat /\ f \in SP!Frames
    BY SenderTypes
  <1>2. f.lo \in Nat /\ f.hi \in Nat /\ f.hi - 1 \in SP!Bytes(f)
    BY <1>1, FrameTypes
  <1>3. f.hi - 1 < sentOffset
    BY <1>2 DEF SP!Inv, SP!TrackedOnce
  <1>4. f.hi <= sentOffset
    BY <1>1, <1>2, <1>3
  <1>5. f.fin => wrote /\ f.hi = wroteOffset
    BY DEF SP!Inv, SP!FinRidesLastByte
  <1> QED
    BY <1>4, <1>5 DEF Sent

\* The sender only moves on: more is sent, and the end, once declared, stays.
Grows ==
  /\ sentOffset <= sentOffset'
  /\ wrote => wrote' /\ wroteOffset' = wroteOffset

\* What holds of the other parts is untouched by a step of the sender.
LEMMA SenderStep ==
  ASSUME Inv, SP!Inv', Packets', Grows, UNCHANGED <<receiver, limits>>,
         maxData' <= start + MaxWindow,
         \A f \in flight' : f.lo < f.hi,
         stale' \subseteq stale \union flight
  PROVE  Inv'
  <1>1. RP!StreamInv'
    BY DEF Inv, receiver, RP!StreamInv, RP!TypeOK, RP!OnlyPeerBytes, RP!EndOfStream,
           RP!NoneBehindData, RP!Span
  <1>2. sentOffset \in Nat /\ sentOffset' \in Nat /\ consumed \in Nat /\ recv \subseteq Nat
    BY SenderTypes, ReceiverTypes DEF Inv, SP!Inv, SP!TypeOK
  <1>3. FramesSent'
    <2>0. (SP!Inv => \A f \in flight : f.lo < f.hi => Sent(f))'
      BY FlightSent, PTL
    <2>1. \A f \in flight' : Sent(f)'
      BY <2>0
    <2>2. ASSUME NEW f \in stale \union flight PROVE Sent(f)'
      <3>1. Sent(f) /\ f.hi \in Nat
        BY FrameTypes, SenderTypes DEF Inv, FramesSent, Packets
      <3> QED
        BY <1>2, <3>1 DEF Sent, Grows
    <2> QED
      BY <2>1, <2>2 DEF FramesSent
  <1>4. LimitsAnnounced'
    BY DEF Inv, LimitsAnnounced, receiver
  <1>5. OnlySent'
    BY <1>2 DEF Inv, OnlySent, Grows, receiver
  <1> QED
    BY <1>1, <1>3, <1>4, <1>5 DEF Inv

-----------------------------------------------------------------------------
(***************************************************************************)
(* The sender's actions.                                                   *)
(***************************************************************************)
\* FramesSent without what changes when the sender moves on.
LEMMA FlightFacts ==
  Inv => \A f \in flight : f.lo < f.hi /\ f \in SP!Frames
  BY SenderTypes DEF Inv, FramesSent, Sent

LEMMA AppWriteInv == Inv /\ AppWrite => Inv'
  <1> SUFFICES ASSUME Inv, ~wrote, NEW len \in Lens, wroteOffset + len <= MaxBytes,
                      S!Write(len), UNCHANGED <<receiver, network>>
               PROVE  Inv'
    BY DEF AppWrite
  <1>1. SP!Write(len)
    BY SameHandlers
  <1>2. SP!Inv'
    <2>1. SP!AppWrite
      BY <1>1 DEF SP!AppWrite, network
    <2> QED
      BY <2>1, SP!AppWriteInv, SenderConstants DEF Inv
  <1>3. UNCHANGED <<sentOffset, maxData, flight, stale, limits, transit, got>>
    BY <1>1 DEF SP!Write, network
  <1>4. Grows /\ maxData' <= start + MaxWindow
    BY <1>3, SenderTypes DEF Grows, Inv, LimitsAnnounced
  <1> QED
    BY <1>2, <1>3, <1>4, FlightFacts, SenderStep DEF Packets, Inv

LEMMA AppWroteInv == Inv /\ AppWrote => Inv'
  <1> SUFFICES ASSUME Inv, ~wrote, S!Wrote, UNCHANGED <<receiver, network>>
               PROVE  Inv'
    BY DEF AppWrote
  <1>1. SP!Wrote
    BY SameHandlers
  <1>2. SP!Inv'
    <2>1. SP!AppWrote
      BY <1>1 DEF SP!AppWrote, network
    <2> QED
      BY <2>1, SP!AppWroteInv, SenderConstants DEF Inv
  <1>3. UNCHANGED <<sentOffset, maxData, flight, stale, limits, transit, got>>
    BY <1>1 DEF SP!Wrote, SP!window, network
  <1>4. Grows /\ maxData' <= start + MaxWindow
    BY <1>3, SenderTypes DEF Grows, Inv, LimitsAnnounced
  <1> QED
    BY <1>2, <1>3, <1>4, FlightFacts, SenderStep DEF Packets, Inv

LEMMA AppCloseInv == Inv /\ AppClose => Inv'
  <1> SUFFICES ASSUME Inv, S!Close, UNCHANGED <<receiver, network>>
               PROVE  Inv'
    BY DEF AppClose
  <1>1. SP!Close
    BY SameHandlers
  <1>2. SP!Inv'
    <2>1. SP!AppClose
      BY <1>1 DEF SP!AppClose, network
    <2> QED
      BY <2>1, SP!AppCloseInv, SenderConstants DEF Inv
  <1>3. UNCHANGED <<sentOffset, wrote, wroteOffset, maxData, flight, stale, limits, transit, got>>
    BY <1>1 DEF SP!Close, SP!window, network
  <1>4. Grows /\ maxData' <= start + MaxWindow
    BY <1>3, SenderTypes DEF Grows, Inv, LimitsAnnounced
  <1> QED
    BY <1>2, <1>3, <1>4, FlightFacts, SenderStep DEF Packets, Inv

\* The frame of a tick is new: its bytes were lost, or never sent.
LEMMA NewFrame ==
  ASSUME Inv, NEW len \in Budgets, NEW f \in S!ReadResult(len)
  PROVE  f \in SP!ReadResult(len) /\ len \in Nat /\ f.lo < f.hi /\ f \notin flight
  <1>1. len \in Nat /\ len > 0
    BY TransferConstants DEF TransferConstants
  <1>2. f \in SP!ReadResult(len)
    BY SameReadResult
  <1>3. /\ f \in SP!Frames /\ (len > 0 => f.lo < f.hi)
        /\ \/ retransmits # {} /\ SP!Bytes(f) \subseteq retransmits /\ f.lo < sentOffset
           \/ f.lo = sentOffset
    BY <1>1, <1>2, SP!ReadFacts, SenderConstants DEF Inv
  <1>4. f.lo < f.hi
    BY <1>1, <1>3
  <1>5. f.lo \in SP!Bytes(f) /\ f.lo \in Nat /\ sentOffset \in Nat
    BY <1>3, <1>4, FrameTypes, SenderTypes DEF Inv
  <1>6. f.lo \in retransmits \/ f.lo = sentOffset
    BY <1>3, <1>5
  <1>7. f \notin flight
    BY <1>5, <1>6 DEF Inv, SP!Inv, SP!TrackedOnce
  <1> QED
    BY <1>1, <1>2, <1>4, <1>7

LEMMA TickInv == Inv /\ Tick => Inv'
  <1> SUFFICES ASSUME Inv, NEW len \in Budgets, NEW f \in S!ReadResult(len), S!Read(f),
                      flight' = flight \union {f}, transit' = transit \union {f},
                      UNCHANGED <<receiver, got, stale, limits>>
               PROVE  Inv'
    BY DEF Tick
  <1>1. f \in SP!ReadResult(len) /\ len \in Nat /\ f.lo < f.hi /\ f \notin flight
    BY NewFrame
  <1>2. SP!Read(f)
    BY SameHandlers
  <1>3. SP!Inv'
    BY <1>1, <1>2, SP!ReadFrameInv, SenderConstants DEF Inv
  <1>4. Packets'
    BY <1>1 DEF Inv, Packets
  <1>5. UNCHANGED <<wrote, wroteOffset, maxData>>
    BY <1>2 DEF SP!Read
  <1>6. sentOffset <= sentOffset'
    <2>1. /\ f.lo <= f.hi
          /\ \/ retransmits # {}
             \/ f.lo = sentOffset
      BY <1>1, SP!ReadFacts, SenderConstants DEF Inv
    <2>2. sentOffset \in Nat
      BY SenderTypes DEF Inv
    <2> QED
      BY <1>2, <2>1, <2>2 DEF SP!Read
  <1>7. Grows /\ maxData' <= start + MaxWindow
    BY <1>5, <1>6 DEF Grows, Inv, LimitsAnnounced
  <1>8. \A g \in flight' : g.lo < g.hi
    BY <1>1, FlightFacts
  <1> QED
    BY <1>3, <1>4, <1>7, <1>8, SenderStep

LEMMA PacketizeInv == Inv /\ Packetize => Inv'
  <1> SUFFICES ASSUME Inv, NEW f \in transit, NEW mid \in S!Bytes(f), S!Split(f, mid),
                      transit' = (transit \ {f}) \union (flight' \ flight),
                      UNCHANGED <<receiver, got, stale, limits>>
               PROVE  Inv'
    BY DEF Packetize
  <1>1. SP!Split(f, mid) /\ mid \in SP!Bytes(f)
    BY SameHandlers
  <1>2. f \in flight /\ f \notin got
    BY DEF Inv, Packets
  <1>3. SP!Inv'
    <2>1. SP!Packetize
      BY <1>1, <1>2 DEF SP!Packetize
    <2> QED
      BY <2>1, SP!PacketizeInv, SenderConstants DEF Inv
  <1>4. /\ f.lo < mid /\ mid < f.hi
        /\ flight' = (flight \ {f}) \union
             { [lo |-> f.lo, hi |-> mid, fin |-> FALSE], [f EXCEPT !.lo = mid] }
        /\ UNCHANGED <<sentOffset, wrote, wroteOffset, maxData>>
    BY <1>1 DEF SP!Split, SP!svars, SP!window
  <1>5. Packets'
    BY <1>2, <1>4 DEF Inv, Packets
  <1>6. Grows /\ maxData' <= start + MaxWindow
    BY <1>4, SenderTypes DEF Grows, Inv, LimitsAnnounced
  <1>7. \A g \in flight' : g.lo < g.hi
    <2> DEFINE head == [lo |-> f.lo, hi |-> mid, fin |-> FALSE]
               tail == [f EXCEPT !.lo = mid]
    <2>1. /\ head.lo = f.lo /\ head.hi = mid
          /\ tail.lo = mid /\ tail.hi = f.hi
      BY <1>2, FlightFacts DEF SP!Frames
    <2>2. flight' = (flight \ {f}) \union {head, tail}
      BY <1>4
    <2> HIDE DEF head, tail
    <2> QED
      BY <1>4, <2>1, <2>2, FlightFacts
  <1> QED
    BY <1>3, <1>5, <1>6, <1>7, SenderStep

LEMMA TimeoutInv ==
  ASSUME Inv, NEW f \in flight, Timeout(f)
  PROVE  Inv'
  <1>1. /\ SP!LoseFrame(f)
        /\ transit' = transit \ {f} /\ got' = got \ {f}
        /\ stale' = stale \union (transit \intersect {f})
        /\ UNCHANGED <<receiver, limits>>
    BY SameFeedback DEF Timeout
  <1>2. SP!Inv'
    <2>1. SP!FrameLost
      BY <1>1 DEF SP!FrameLost
    <2> QED
      BY <2>1, SP!FrameLostInv, SenderConstants DEF Inv
  <1>3. flight' = flight \ {f} /\ UNCHANGED <<sentOffset, wrote, wroteOffset, maxData>>
    BY <1>1 DEF SP!LoseFrame, SP!Retransmit
  <1>4. Packets'
    BY <1>1, <1>3, FlightFacts DEF Inv, Packets
  <1>5. Grows /\ maxData' <= start + MaxWindow
    BY <1>3, SenderTypes DEF Grows, Inv, LimitsAnnounced
  <1>6. stale' \subseteq stale \union flight
    BY <1>1
  <1>7. \A g \in flight' : g.lo < g.hi
    BY <1>3, FlightFacts
  <1> QED
    BY <1>1, <1>2, <1>4, <1>5, <1>6, <1>7, SenderStep

LEMMA AckArrivesInv ==
  ASSUME Inv, NEW f \in got, AckArrives(f)
  PROVE  Inv'
  <1>1. /\ SP!AckFrame(f) /\ got' = got \ {f}
        /\ UNCHANGED <<receiver, transit, stale, limits>>
    BY SameFeedback DEF AckArrives
  <1>2. f \in flight /\ f \notin transit
    BY DEF Inv, Packets
  <1>3. SP!Inv'
    <2>1. SP!FrameAcked
      BY <1>1, <1>2 DEF SP!FrameAcked
    <2> QED
      BY <2>1, SP!FrameAckedInv, SenderConstants DEF Inv
  <1>4. flight' = flight \ {f} /\ UNCHANGED <<sentOffset, wrote, wroteOffset, maxData>>
    BY <1>1 DEF SP!AckFrame, SP!Ack
  <1>5. Packets'
    BY <1>1, <1>2, <1>4 DEF Inv, Packets
  <1>6. Grows /\ maxData' <= start + MaxWindow
    BY <1>4, SenderTypes DEF Grows, Inv, LimitsAnnounced
  <1>7. \A g \in flight' : g.lo < g.hi
    BY <1>4, FlightFacts
  <1> QED
    BY <1>1, <1>3, <1>5, <1>6, <1>7, SenderStep

LEMMA LimitArrivesInv ==
  ASSUME Inv, NEW limit \in limits, LimitArrives(limit)
  PROVE  Inv'
  <1>1. /\ SP!MaxData(limit) /\ limits' = limits \ {limit}
        /\ UNCHANGED <<receiver, flight, transit, got, stale>>
    BY SameHandlers DEF LimitArrives
  <1>2. limit \in Nat /\ limit <= start + MaxWindow
    BY DEF Inv, Packets, LimitsAnnounced
  <1>3. SP!Inv'
    <2>1. SP!PeerLimit
      BY <1>1, <1>2 DEF SP!PeerLimit
    <2> QED
      BY <2>1, SP!PeerLimitInv, SenderConstants DEF Inv
  <1>4. UNCHANGED <<sentOffset, wrote, wroteOffset>>
    BY <1>1 DEF SP!MaxData
  <1>5. maxData' <= start + MaxWindow
    BY <1>1, <1>2 DEF SP!MaxData, Inv, LimitsAnnounced
  <1>6. RP!StreamInv'
    BY <1>1 DEF Inv, receiver, RP!StreamInv, RP!TypeOK, RP!OnlyPeerBytes, RP!EndOfStream,
           RP!NoneBehindData, RP!Span
  <1>7. Packets' /\ FramesSent'
    BY <1>1, <1>4 DEF Inv, Packets, FramesSent, Sent
  <1>8. LimitsAnnounced' /\ OnlySent'
    BY <1>1, <1>4, <1>5 DEF Inv, LimitsAnnounced, OnlySent, receiver
  <1> QED
    BY <1>3, <1>6, <1>7, <1>8 DEF Inv

-----------------------------------------------------------------------------
(***************************************************************************)
(* The receiver's actions.                                                 *)
(***************************************************************************)
\* What holds of the sender is untouched by a step of the receiver.
LEMMA SenderUnchanged ==
  SP!Inv /\ UNCHANGED <<sender, flight>> => SP!Inv'
  BY DEF sender, SP!Inv, SP!TypeOK, SP!TrackedOnce, SP!PrefixMaximal, SP!FinRidesLastByte,
         SP!ClosedWhenDelivered, SP!Bytes, SP!Span, SP!LesserOf

LEMMA FramesUnchanged ==
  ASSUME FramesSent, UNCHANGED <<sender, flight>>, stale' \subseteq stale \union flight
  PROVE  FramesSent'
  BY DEF FramesSent, Sent, sender

\* A step that takes only what was sent keeps the receiver behind the sender.
LEMMA ReceiverBehind ==
  ASSUME Inv, RP!StreamInv', NEW bytes \in SUBSET Nat, \A x \in bytes : x < sentOffset,
         RP!Takes(bytes)
  PROVE  consumed' <= sentOffset /\ \A x \in recv' : x < sentOffset
  <1>1. consumed \in Nat /\ sentOffset \in Nat /\ consumed <= sentOffset
    BY SenderTypes, ReceiverTypes DEF Inv, OnlySent
  <1>2. consumed' \in Nat
    BY DEF RP!StreamInv, RP!TypeOK
  <1> QED
    BY <1>1, <1>2, RP!TakesBelow, ReceiverConstants

LEMMA AppReadInv == Inv /\ AppRead => Inv'
  <1> SUFFICES ASSUME Inv, NEW len \in ReadLens, R!Read(len), UNCHANGED <<sender, network>>
               PROVE  Inv'
    BY DEF AppRead
  <1>1. RP!Read(len)
    BY SameRead
  <1>2. RP!StreamInv' /\ RP!Takes(recv)
    BY <1>1, RP!ReadInv, ReceiverConstants DEF Inv
  <1>3. UNCHANGED <<start, finOffset>>
    BY <1>1 DEF RP!Read
  <1>4. consumed' <= sentOffset /\ \A x \in recv' : x < sentOffset
    BY <1>2, ReceiverBehind, ReceiverTypes DEF Inv, OnlySent
  <1>5. SP!Inv' /\ FramesSent'
    BY SenderUnchanged, FramesUnchanged DEF Inv, network
  <1>6. Packets' /\ LimitsAnnounced'
    BY <1>3 DEF Inv, Packets, LimitsAnnounced, network, sender
  <1>7. OnlySent'
    BY <1>3, <1>4 DEF Inv, OnlySent, sender
  <1> QED
    BY <1>2, <1>5, <1>6, <1>7 DEF Inv

\* A frame of this stream is one the receiver may expect.
LEMMA FrameAdmissible ==
  ASSUME Inv, NEW f \in flight \union stale
  PROVE  RP!Admissible(f.lo, f.hi, f.fin)
  <1>1. f \in SP!Frames /\ Sent(f)
    BY FlightFacts DEF Inv, Packets, FramesSent
  <1>2. f.lo \in Nat /\ f.hi \in Nat /\ f.fin \in BOOLEAN
    BY <1>1, FrameTypes
  <1>3. /\ sentOffset \in Nat /\ wroteOffset \in Nat /\ maxData \in Nat
        /\ sentOffset <= maxData /\ sentOffset <= wroteOffset
        /\ consumed \in Nat /\ start \in Nat /\ recv \subseteq Nat /\ MaxWindow \in Nat
    BY SenderTypes, ReceiverTypes, ReceiverConstants DEF Inv
  <1>4. f.lo <= f.hi /\ f.hi <= sentOffset /\ (f.fin => wrote /\ f.hi = wroteOffset)
    BY <1>1, <1>2 DEF Sent
  <1>5. f.hi <= start + MaxWindow
    BY <1>2, <1>3, <1>4 DEF Inv, LimitsAnnounced
  <1>6. finOffset # RP!NoFin => finOffset = wroteOffset /\ f.hi <= finOffset
    BY <1>2, <1>3, <1>4 DEF Inv, OnlySent
  <1>7. f.fin => /\ finOffset \in {RP!NoFin, f.hi} /\ consumed <= f.hi
                 /\ \A x \in recv : x < f.hi
    BY <1>2, <1>3, <1>4, <1>6 DEF Inv, OnlySent
  <1> QED
    BY <1>2, <1>4, <1>5, <1>6, <1>7 DEF RP!Admissible, RP!MaxStreamData

\* Handing a frame to the stream, whatever becomes of the packet.
LEMMA HandOver ==
  ASSUME Inv, NEW f \in flight \union stale, R!Write(f.lo, f.hi, f.fin),
         UNCHANGED <<sender, flight, limits>>, Packets', stale' \subseteq stale \union flight
  PROVE  /\ Inv' /\ RP!Takes(recv \union SP!Bytes(f)) /\ RP!Keeps(recv)
         /\ f.lo >= consumed /\ rstate \notin {"DataRecvd", "DataRead"} => RP!Keeps(SP!Bytes(f))
         /\ rstate = "DataRead" => UNCHANGED <<rstate, consumed>>
  <1>1. RP!Write(f.lo, f.hi, f.fin)
    BY SameWrite
  <1>2. RP!Admissible(f.lo, f.hi, f.fin)
    BY FrameAdmissible
  <1>3. RP!Span(f.lo, f.hi) = SP!Bytes(f)
    BY DEF RP!Span, SP!Bytes, SP!Span
  <1>4. /\ RP!StreamInv' /\ RP!Takes(recv \union SP!Bytes(f)) /\ RP!Keeps(recv)
        /\ consumed <= f.lo /\ rstate \notin {"DataRecvd", "DataRead"} => RP!Keeps(SP!Bytes(f))
        /\ finOffset' = finOffset \/ (f.fin /\ finOffset' = f.hi)
        /\ rstate = "DataRead" => UNCHANGED <<rstate, consumed>>
    BY <1>1, <1>2, <1>3, RP!WriteInv, ReceiverConstants DEF Inv
  <1>5. start' = start
    BY <1>1 DEF RP!Write, RP!window
  <1>6. f \in SP!Frames /\ Sent(f)
    BY FlightFacts DEF Inv, Packets, FramesSent
  <1>7. /\ recv \union SP!Bytes(f) \in SUBSET Nat
        /\ \A x \in recv \union SP!Bytes(f) : x < sentOffset
    <2>1. \A x \in SP!Bytes(f) : x \in Nat /\ x < f.hi
      BY <1>6, FrameTypes
    <2>2. f.hi \in Nat /\ f.hi <= sentOffset /\ sentOffset \in Nat /\ recv \subseteq Nat
      BY <1>6, FrameTypes, SenderTypes, ReceiverTypes DEF Sent, Inv
    <2>3. \A x \in SP!Bytes(f) : x < sentOffset
      BY <2>1, <2>2
    <2>4. \A x \in recv : x < sentOffset
      BY DEF Inv, OnlySent
    <2> QED
      BY <2>1, <2>2, <2>3, <2>4
  <1>8. consumed' <= sentOffset /\ \A x \in recv' : x < sentOffset
    BY <1>4, <1>7, ReceiverBehind
  <1>9. SP!Inv' /\ FramesSent'
    BY SenderUnchanged, FramesUnchanged DEF Inv
  <1>10. LimitsAnnounced'
    BY <1>5 DEF Inv, LimitsAnnounced, sender
  <1>11. OnlySent'
    BY <1>4, <1>6, <1>8 DEF Inv, OnlySent, Sent, sender
  <1>12. consumed \in Nat /\ f.lo \in Nat
    BY <1>6, FrameTypes, ReceiverTypes DEF Inv
  <1> QED
    BY <1>4, <1>9, <1>10, <1>11, <1>12 DEF Inv

LEMMA DeliverInv ==
  ASSUME Inv, NEW f \in transit, Deliver(f)
  PROVE  Inv'
  <1>1. /\ R!Write(f.lo, f.hi, f.fin)
        /\ transit' = transit \ {f} /\ got' = got \union {f}
        /\ stale' \in {stale, stale \union {f}}
        /\ UNCHANGED <<sender, flight, limits>>
    BY DEF Deliver
  <1>2. f \in flight /\ f \in SP!Frames
    BY FlightFacts DEF Inv, Packets
  <1>3. Packets'
    BY <1>1, <1>2 DEF Inv, Packets
  <1> QED
    BY <1>1, <1>2, <1>3, HandOver

LEMMA DeliverStaleInv ==
  ASSUME Inv, NEW f \in stale, DeliverStale(f)
  PROVE  Inv'
  <1>1. /\ R!Write(f.lo, f.hi, f.fin)
        /\ stale' \in {stale, stale \ {f}}
        /\ UNCHANGED <<sender, flight, transit, got, limits>>
    BY DEF DeliverStale
  <1>2. Packets'
    BY <1>1 DEF Inv, Packets
  <1> QED
    BY <1>1, <1>2, HandOver

\* Moving the window announces no more than the receiver holds to, and
\* takes back nothing that was announced.
LEMMA WindowMoved ==
  ASSUME Inv, R!Update, updates' \in Nat, UNCHANGED <<sender, flight, transit, got, stale>>,
         limits' \subseteq limits \union Announced
  PROVE  Inv' /\ UNCHANGED <<consumed, rstate, recv>>
  <1>1. RP!Update
    BY SameUpdate
  <1>2. RP!StreamInv'
    BY <1>1, RP!UpdateInv, ReceiverConstants DEF Inv
  <1>3. start' = consumed /\ UNCHANGED <<rstate, recv, consumed, finOffset>>
    BY <1>1 DEF RP!Update
  <1>4. /\ consumed \in Nat /\ start \in Nat /\ start <= consumed /\ MaxWindow \in Nat
        /\ maxData \in Nat /\ limits \subseteq Nat
    BY SenderTypes, ReceiverTypes, ReceiverConstants DEF Inv, Packets
  <1>5. \A limit \in Announced : limit = consumed + MaxWindow
    BY <1>3 DEF Announced
  <1>6. Packets'
    BY <1>4, <1>5 DEF Inv, Packets
  <1>7. LimitsAnnounced'
    <2>1. maxData <= consumed + MaxWindow
      BY <1>4 DEF Inv, LimitsAnnounced
    <2>2. \A limit \in limits : limit <= consumed + MaxWindow
      BY <1>4 DEF Inv, LimitsAnnounced
    <2>3. \A limit \in limits' : limit <= consumed + MaxWindow
      BY <1>4, <1>5, <2>2
    <2> QED
      BY <1>3, <2>1, <2>3 DEF LimitsAnnounced, sender
  <1>8. SP!Inv' /\ FramesSent'
    BY SenderUnchanged, FramesUnchanged DEF Inv
  <1>9. OnlySent'
    BY <1>3 DEF Inv, OnlySent, sender
  <1> QED
    BY <1>2, <1>3, <1>6, <1>7, <1>8, <1>9 DEF Inv

LEMMA RunUpdateInv == Inv /\ RunUpdate => Inv' /\ UNCHANGED <<consumed, rstate, recv>>
  <1> SUFFICES ASSUME Inv, R!RunUpdate, limits' = limits \union Announced,
                      UNCHANGED <<sender, flight, transit, got, stale>>
               PROVE  Inv' /\ UNCHANGED <<consumed, rstate, recv>>
    BY DEF RunUpdate
  <1>1. R!Update /\ updates' \in Nat
    BY ReceiverTypes DEF R!RunUpdate, Inv
  <1> QED
    BY <1>1, WindowMoved

LEMMA LimitLostInv == Inv /\ LimitLost => Inv' /\ UNCHANGED <<consumed, rstate, recv>>
  <1> SUFFICES ASSUME Inv, NEW limit \in limits, R!LostUpdate,
                      limits' \in {limits \union Announced, (limits \ {limit}) \union Announced},
                      UNCHANGED <<sender, flight, transit, got, stale>>
               PROVE  Inv' /\ UNCHANGED <<consumed, rstate, recv>>
    BY DEF LimitLost
  <1>1. R!Update /\ updates' \in Nat
    BY ReceiverTypes DEF R!LostUpdate, Inv
  <1>2. limits' \subseteq limits \union Announced
    OBVIOUS
  <1> QED
    BY <1>1, <1>2, WindowMoved

LEMMA LimitAckLostInv == Inv /\ LimitAckLost => Inv' /\ UNCHANGED <<consumed, rstate, recv>>
  <1> SUFFICES ASSUME Inv, R!LostUpdate, limits' = limits \union Announced,
                      UNCHANGED <<sender, flight, transit, got, stale>>
               PROVE  Inv' /\ UNCHANGED <<consumed, rstate, recv>>
    BY DEF LimitAckLost
  <1>1. R!Update /\ updates' \in Nat
    BY ReceiverTypes DEF R!LostUpdate, Inv
  <1> QED
    BY <1>1, WindowMoved

LEMMA DropInv == Inv /\ Drop => Inv'
  <1> SUFFICES ASSUME Inv, NEW f \in transit, transit' = transit \ {f},
                      UNCHANGED <<sender, receiver, flight, got, stale, limits>>
               PROVE  Inv'
    BY DEF Drop
  <1>1. SP!Inv' /\ FramesSent'
    BY SenderUnchanged, FramesUnchanged DEF Inv
  <1>2. RP!StreamInv'
    BY DEF Inv, receiver, RP!StreamInv, RP!TypeOK, RP!OnlyPeerBytes, RP!EndOfStream,
           RP!NoneBehindData, RP!Span
  <1>3. Packets'
    BY DEF Inv, Packets
  <1>4. LimitsAnnounced' /\ OnlySent'
    BY DEF Inv, LimitsAnnounced, OnlySent, sender, receiver
  <1> QED
    BY <1>1, <1>2, <1>3, <1>4 DEF Inv

-----------------------------------------------------------------------------
LEMMA InitInv == Init => Inv
  <1> SUFFICES ASSUME Init PROVE Inv
    OBVIOUS
  <1>1. SP!Inv
    <2>1. SP!Init
      BY DEF Init, S!Init, SP!Init
    <2> QED
      BY <2>1, SP!InitInv, SenderConstants
  <1>2. RP!StreamInv
    <2>1. RP!Init
      BY DEF Init, R!Init, RP!Init, R!NoFin, RP!NoFin
    <2> QED
      BY <2>1, RP!InitInv, ReceiverConstants DEF RP!Inv
  <1>3. /\ flight = {} /\ transit = {} /\ got = {} /\ stale = {} /\ limits = {}
        /\ maxData = MaxWindow /\ start = 0 /\ sentOffset = 0 /\ consumed = 0
        /\ recv = {} /\ finOffset = RP!NoFin /\ MaxWindow \in Nat
    BY SenderConstants DEF Init, S!Init, R!Init, R!NoFin, RP!NoFin
  <1>4. Packets /\ FramesSent
    BY <1>3 DEF Packets, FramesSent
  <1>5. LimitsAnnounced /\ OnlySent
    BY <1>3 DEF LimitsAnnounced, OnlySent
  <1> QED
    BY <1>1, <1>2, <1>4, <1>5 DEF Inv

LEMMA StepInv == Inv /\ [Next]_vars => Inv'
  <1> SUFFICES ASSUME Inv, [Next]_vars PROVE Inv'
    OBVIOUS
  <1>1. CASE AppWrite \/ AppWrote \/ AppClose \/ AppRead
    BY <1>1, AppWriteInv, AppWroteInv, AppCloseInv, AppReadInv
  <1>2. CASE Tick \/ Packetize
    BY <1>2, TickInv, PacketizeInv
  <1>3. CASE \E f \in flight : Timeout(f)
    BY <1>3, TimeoutInv
  <1>4. CASE \E f \in got : AckArrives(f)
    BY <1>4, AckArrivesInv
  <1>5. CASE \E limit \in limits : LimitArrives(limit)
    BY <1>5, LimitArrivesInv
  <1>6. CASE \E f \in transit : Deliver(f)
    BY <1>6, DeliverInv
  <1>7. CASE \E f \in stale : DeliverStale(f)
    BY <1>7, DeliverStaleInv
  <1>8. CASE RunUpdate \/ LimitLost \/ LimitAckLost
    BY <1>8, RunUpdateInv, LimitLostInv, LimitAckLostInv
  <1>9. CASE Drop
    BY <1>9, DropInv
  <1>10. CASE UNCHANGED vars
    <2>1. UNCHANGED <<sender, receiver, flight, transit, got, stale, limits>>
      BY <1>10 DEF vars, network
    <2>2. SP!Inv' /\ FramesSent'
      BY <2>1, SenderUnchanged, FramesUnchanged DEF Inv
    <2>3. RP!StreamInv'
      BY <2>1 DEF Inv, receiver, RP!StreamInv, RP!TypeOK, RP!OnlyPeerBytes, RP!EndOfStream,
             RP!NoneBehindData, RP!Span
    <2>4. Packets' /\ LimitsAnnounced' /\ OnlySent'
      BY <2>1 DEF Inv, Packets, LimitsAnnounced, OnlySent, sender, receiver
    <2> QED
      BY <2>2, <2>3, <2>4 DEF Inv
  <1> QED
    BY <1>1, <1>2, <1>3, <1>4, <1>5, <1>6, <1>7, <1>8, <1>9, <1>10 DEF Next

LEMMA Invariant == Spec => []Inv
  <1> QED
    BY InitInv, StepInv, PTL DEF Spec

\* Types, and how the parts of the network relate: a packet is not both on its
\* way and received.
THEOREM TypesHold == Spec => []TypeOK
  <1>1. Inv => TypeOK
    BY DEF Inv, SP!Inv, SP!TypeOK, S!TypeOK, SP!SendStates, S!SendStates, SP!LesserOf, S!LesserOf,
           SP!Frames, S!Frames, RP!StreamInv, RP!TypeOK, R!TypeOK, RP!RecvStates, R!RecvStates,
           RP!NoFin, R!NoFin, Packets, TypeOK
  <1> QED
    BY <1>1, Invariant, PTL

\* Flow control, whatever happens to the max_stream_data frames: the sender
\* believes in no limit the receiver did not announce, and nothing sent
\* outgrows the receiver's buffer.
THEOREM FlowIsControlled == Spec => []FlowControl
  <1>1. Inv => FlowControl
    <2> SUFFICES ASSUME Inv PROVE FlowControl
      OBVIOUS
    <2>1. sentOffset <= maxData
      BY SenderTypes DEF Inv
    <2>2. maxData <= R!MaxStreamData
      BY DEF Inv, LimitsAnnounced, R!MaxStreamData
    <2>3. bufLen <= MaxWindow
      BY ReceiverConstants DEF Inv, RP!StreamInv, RP!TypeOK
    <2>4. R!OnlyPeerBytes
      BY DEF Inv, RP!StreamInv, RP!OnlyPeerBytes, R!OnlyPeerBytes, RP!Span, R!Span
    <2> QED
      BY <2>1, <2>2, <2>3, <2>4 DEF FlowControl
  <1> QED
    BY <1>1, Invariant, PTL

-----------------------------------------------------------------------------
(***************************************************************************)
(* The stream implements ByteStream: each step is a step of the abstract   *)
(* stream or leaves it alone.                                              *)
(***************************************************************************)
LEMMA StreamUnchanged ==
  UNCHANGED <<wroteOffset, wrote, consumed, rstate>> => UNCHANGED B!bvars
  BY DEF B!bvars

LEMMA InitRefines == Init => B!Init
  BY DEF Init, S!Init, R!Init, B!Init

\* A write of no bytes is no step of the abstract stream.
LEMMA AppWriteRefines == Inv /\ AppWrite => [B!Next]_(B!bvars)
  <1> SUFFICES ASSUME Inv, ~wrote, NEW len \in Lens, S!Write(len),
                      UNCHANGED <<receiver, network>>
               PROVE  [B!Next]_(B!bvars)
    BY DEF AppWrite
  <1>1. /\ wroteOffset' = wroteOffset + len /\ len \in Nat /\ wroteOffset \in Nat
        /\ wrote = FALSE /\ UNCHANGED <<wrote, consumed, rstate>>
    BY SameHandlers, SenderTypes, SenderConstants DEF SP!Write, Inv, receiver
  <1>2. CASE len = 0
    <2>1. wroteOffset' = wroteOffset
      BY <1>1, <1>2
    <2> QED
      BY <1>1, <2>1, StreamUnchanged
  <1>3. CASE len # 0
    <2>1. wroteOffset' > wroteOffset
      BY <1>1, <1>3
    <2>2. B!Write
      BY <1>1, <2>1 DEF B!Write
    <2> QED
      BY <2>2 DEF B!Next
  <1> QED
    BY <1>2, <1>3

LEMMA AppWroteRefines == Inv /\ AppWrote => [B!Next]_(B!bvars)
  <1> SUFFICES ASSUME Inv, ~wrote, S!Wrote, UNCHANGED receiver PROVE B!Finish
    BY DEF AppWrote, B!Next
  <1>1. wrote = FALSE /\ wrote' = TRUE /\ UNCHANGED <<wroteOffset, consumed, rstate>>
    BY SenderTypes DEF Inv, S!Wrote, S!window, receiver
  <1> QED
    BY <1>1 DEF B!Finish

\* The other steps of the sender.
LEMMA SenderRefines ==
  ASSUME Inv, \/ AppClose \/ Tick \/ Packetize \/ Drop
              \/ \E f \in flight : Timeout(f)
              \/ \E f \in got : AckArrives(f)
              \/ \E limit \in limits : LimitArrives(limit)
  PROVE  UNCHANGED B!bvars
  <1>1. UNCHANGED <<wroteOffset, wrote>>
    <2>1. AppClose => UNCHANGED <<wroteOffset, wrote>>
      BY DEF AppClose, S!Close, S!window
    <2>2. Tick => UNCHANGED <<wroteOffset, wrote>>
      BY DEF Tick, S!Read
    <2>3. Packetize => UNCHANGED <<wroteOffset, wrote>>
      BY DEF Packetize, S!Split, S!svars, S!window
    <2>4. Drop => UNCHANGED <<wroteOffset, wrote>>
      BY DEF Drop, sender
    <2>5. \A f : Timeout(f) => UNCHANGED <<wroteOffset, wrote>>
      BY DEF Timeout, S!LoseFrame, S!Retransmit
    <2>6. \A f : AckArrives(f) => UNCHANGED <<wroteOffset, wrote>>
      BY DEF AckArrives, S!AckFrame, S!Ack
    <2>7. \A limit : LimitArrives(limit) => UNCHANGED <<wroteOffset, wrote>>
      BY DEF LimitArrives, S!MaxData
    <2> QED
      BY <2>1, <2>2, <2>3, <2>4, <2>5, <2>6, <2>7
  <1>2. UNCHANGED receiver
    BY DEF AppClose, Tick, Packetize, Drop, Timeout, AckArrives, LimitArrives
  <1> QED
    BY <1>1, <1>2, StreamUnchanged DEF receiver

\* A step of the receiver reads on, in order, and reports the end only when
\* the writer declared it and everything was read.
LEMMA ReceiverRefines ==
  ASSUME Inv, Inv', UNCHANGED sender, consumed <= consumed',
         rstate = "DataRead" => UNCHANGED <<rstate, consumed>>
  PROVE  [B!Next]_(B!bvars)
  <1>1. UNCHANGED <<wroteOffset, wrote>>
    BY DEF sender
  <1>2. CASE rstate = "DataRead"
    BY <1>1, <1>2, StreamUnchanged
  <1>3. CASE rstate # "DataRead"
    <2>1. consumed' \in consumed..wroteOffset
      <3>1. sentOffset \in Nat /\ wroteOffset \in Nat /\ sentOffset <= wroteOffset
            /\ consumed \in Nat
        BY SenderTypes, ReceiverTypes DEF Inv
      <3>2. consumed' \in Nat /\ consumed' <= sentOffset
        BY DEF Inv, OnlySent, RP!StreamInv, RP!TypeOK, sender
      <3> QED
        BY <3>1, <3>2
    <2>2. rstate' = "DataRead" => wrote /\ consumed' = wroteOffset
      BY <1>1 DEF Inv, OnlySent, RP!StreamInv, RP!EndOfStream
    <2>3. B!Read
      BY <1>1, <1>3, <2>1, <2>2 DEF B!Read
    <2> QED
      BY <2>3 DEF B!Next
  <1> QED
    BY <1>2, <1>3

LEMMA StepRefines == Inv /\ Inv' /\ [Next]_vars => [B!Next]_(B!bvars)
  <1> SUFFICES ASSUME Inv, Inv', [Next]_vars PROVE [B!Next]_(B!bvars)
    OBVIOUS
  <1>1. CASE AppWrite \/ AppWrote
    BY <1>1, AppWriteRefines, AppWroteRefines
  <1>2. CASE \/ AppClose \/ Tick \/ Packetize \/ Drop
             \/ \E f \in flight : Timeout(f)
             \/ \E f \in got : AckArrives(f)
             \/ \E limit \in limits : LimitArrives(limit)
    BY <1>2, SenderRefines
  <1>3. CASE AppRead
    <2>1. PICK len \in ReadLens : R!Read(len) /\ UNCHANGED sender
      BY <1>3 DEF AppRead
    <2>2. RP!Takes(recv) /\ (rstate = "DataRead" => UNCHANGED <<rstate, consumed>>)
      BY <2>1, SameRead, RP!ReadInv, ReceiverConstants DEF Inv
    <2> QED
      BY <2>1, <2>2, ReceiverRefines DEF RP!Takes
  <1>4. ASSUME NEW f \in flight \union stale, R!Write(f.lo, f.hi, f.fin), UNCHANGED sender
        PROVE  [B!Next]_(B!bvars)
    <2>1. RP!Admissible(f.lo, f.hi, f.fin)
      BY FrameAdmissible
    <2>2. /\ RP!Takes(recv \union RP!Span(f.lo, f.hi))
          /\ rstate = "DataRead" => UNCHANGED <<rstate, consumed>>
      BY <1>4, <2>1, SameWrite, RP!WriteInv, ReceiverConstants DEF Inv
    <2> QED
      BY <1>4, <2>2, ReceiverRefines DEF RP!Takes
  <1>5. CASE \/ \E f \in transit : Deliver(f)
             \/ \E f \in stale : DeliverStale(f)
    BY <1>4, <1>5 DEF Deliver, DeliverStale, Inv, Packets
  <1>6. CASE RunUpdate \/ LimitLost \/ LimitAckLost
    <2>1. UNCHANGED <<consumed, rstate>>
      BY <1>6, RunUpdateInv, LimitLostInv, LimitAckLostInv
    <2>2. UNCHANGED <<wroteOffset, wrote>>
      BY <1>6 DEF RunUpdate, LimitLost, LimitAckLost, sender
    <2> QED
      BY <2>1, <2>2, StreamUnchanged
  <1>7. CASE UNCHANGED vars
    BY <1>7, StreamUnchanged DEF vars, sender, receiver
  <1> QED
    BY <1>1, <1>2, <1>3, <1>5, <1>6, <1>7 DEF Next

\* What the application at one end reads is what the other one wrote: in
\* order, once each, and with the end reported only after the last byte.
THEOREM Refines == Spec => InOrder
  <1> QED
    BY InitRefines, StepRefines, Invariant, PTL DEF Spec, InOrder, B!Spec

-----------------------------------------------------------------------------
(***************************************************************************)
(* What an acknowledgement means.  The receiving stream drops a chunk that *)
(* begins below its read position, and AckSender acknowledges its packet   *)
(* all the same.  A byte is lost that way only when it shares a frame with *)
(* one that was read: the invariant is that no frame in flight is partly   *)
(* known to the receiver.                                                  *)
(***************************************************************************)
\* The receiving stream has the byte, or handed it out.
Has(x) == x < consumed \/ x \in recv

\* All of the frame is new to the receiver, or nothing of it.
Whole(f) ==
  \/ \A x \in SP!Bytes(f) : Has(x)
  \/ \A x \in SP!Bytes(f) : ~Has(x)

\* The condition of WholeFramesDeliver, on the steps: no timer fires for a
\* packet still on its way, and a frame read or cut is whole.  An ack that was
\* lost is within it, as long as the received bytes are sent again on their own.
ResentWhole ==
  /\ \A f \in transit : ~Timeout(f)
  /\ \A f \in flight' \ flight : Whole(f)

\* The invariant AckedDelivered needs.
DeliveredOnce ==
  /\ \A x \in Nat : x < acked \/ x \in acks => Has(x)
  /\ \A f \in got \union stale : \A x \in SP!Bytes(f) : Has(x)
  /\ \A f \in flight \ got : Whole(f)

\* Without lost acks more is true: what is sent again the receiver has not.
SentOnce ==
  /\ \A x \in retransmits : ~Has(x)
  /\ \A f \in flight \ got : \A x \in SP!Bytes(f) : ~Has(x)

LEMMA HasUnchanged == UNCHANGED receiver => \A x : Has(x)' = Has(x)
  BY DEF receiver, Has

\* A step of the receiver adds these bytes at most, and forgets nothing.
LEMMA HasMore ==
  ASSUME Inv, Inv', NEW bytes, RP!Takes(bytes), RP!Keeps(recv)
  PROVE  /\ \A x \in Nat : Has(x) => Has(x)'
         /\ \A x \in Nat : Has(x)' => Has(x) \/ x \in bytes
  <1>1. /\ consumed \in Nat /\ consumed' \in Nat /\ consumed <= consumed'
        /\ RP!Span(consumed, consumed') \subseteq bytes /\ recv' \subseteq bytes
        /\ \A x \in recv : x \in recv' \/ x < consumed'
    BY ReceiverTypes DEF Inv, RP!StreamInv, RP!TypeOK, RP!Takes, RP!Keeps
  <1>2. ASSUME NEW x \in Nat, Has(x) PROVE Has(x)'
    BY <1>1, <1>2 DEF Has
  <1>3. ASSUME NEW x \in Nat, Has(x)', ~Has(x) PROVE x \in bytes
    <2>1. x \notin recv' => x \in RP!Span(consumed, consumed')
      <3>1. \A e \in Nat : consumed <= x /\ x < e => x \in RP!Span(consumed, e)
        BY <1>1 DEF RP!Span
      <3> QED
        BY <1>1, <1>3, <3>1 DEF Has
    <2> QED
      BY <1>1, <2>1
  <1> QED
    BY <1>2, <1>3

LEMMA DeliveredInit == Init => DeliveredOnce /\ SentOnce
  <1> SUFFICES ASSUME Init PROVE DeliveredOnce /\ SentOnce
    OBVIOUS
  <1>1. acked = 0 /\ acks = {} /\ retransmits = {} /\ got = {} /\ stale = {} /\ flight = {}
    BY DEF Init, S!Init
  <1> QED
    BY <1>1 DEF DeliveredOnce, SentOnce

\* Writing, closing and losing packets move no byte.
LEMMA DeliveredIdle ==
  ASSUME DeliveredOnce, UNCHANGED <<acked, acks, retransmits, flight, got, stale, receiver>>
  PROVE  DeliveredOnce' /\ (SentOnce => SentOnce')
  BY HasUnchanged DEF DeliveredOnce, SentOnce, Whole, SP!Bytes, SP!Span

LEMMA DeliveredTick ==
  ASSUME Inv, DeliveredOnce, Tick
  PROVE  /\ (\A f \in flight' \ flight : Whole(f)) => DeliveredOnce'
         /\ SentOnce => SentOnce'
  <1> SUFFICES ASSUME NEW len \in Budgets, NEW f \in S!ReadResult(len),
                      S!Read(f), flight' = flight \union {f},
                      UNCHANGED <<receiver, got, stale>>
               PROVE  /\ (\A g \in flight' \ flight : Whole(g)) => DeliveredOnce'
                      /\ SentOnce => SentOnce'
    BY DEF Tick
  <1>1. f \in SP!ReadResult(len) /\ len \in Nat
    BY NewFrame
  <1>2. /\ f \in SP!Frames
        /\ \/ SP!Bytes(f) \subseteq retransmits
           \/ f.lo = sentOffset
    BY <1>1, SP!ReadFacts, SenderConstants DEF Inv
  <1>3. UNCHANGED <<acked, acks>> /\ retransmits' \subseteq retransmits
    BY SameHandlers DEF SP!Read
  <1>4. ASSUME SentOnce PROVE \A x \in SP!Bytes(f) : ~Has(x)
    <2>1. CASE SP!Bytes(f) \subseteq retransmits
      BY <1>4, <2>1 DEF SentOnce
    <2>2. CASE f.lo = sentOffset
      <3>1. sentOffset \in Nat /\ consumed \in Nat /\ recv \subseteq Nat
        BY SenderTypes, ReceiverTypes DEF Inv
      <3>2. \A x \in SP!Bytes(f) : x \in Nat /\ sentOffset <= x
        BY <1>2, <2>2, FrameTypes
      <3> QED
        BY <3>1, <3>2 DEF Has, Inv, OnlySent
    <2> QED
      BY <1>2, <2>1, <2>2
  <1>5. ASSUME \A g \in flight' \ flight : Whole(g) PROVE DeliveredOnce'
    <2>1. \A g \in flight' \ got : Whole(g)
      BY <1>5 DEF DeliveredOnce
    <2> QED
      BY <1>3, <2>1, HasUnchanged DEF DeliveredOnce, Whole, SP!Bytes, SP!Span
  <1>6. SentOnce => SentOnce'
    BY <1>3, <1>4, HasUnchanged DEF SentOnce
  <1> QED
    BY <1>5, <1>6

LEMMA DeliveredPacketize ==
  ASSUME Inv, DeliveredOnce, Packetize
  PROVE  DeliveredOnce' /\ (SentOnce => SentOnce')
  <1> SUFFICES ASSUME NEW f \in transit, NEW mid \in S!Bytes(f),
                      S!Split(f, mid), UNCHANGED <<receiver, got, stale>>
               PROVE  DeliveredOnce' /\ (SentOnce => SentOnce')
    BY DEF Packetize
  <1> DEFINE head == [lo |-> f.lo, hi |-> mid, fin |-> FALSE]
             tail == [f EXCEPT !.lo = mid]
  <1>1. f \in flight /\ f \notin got /\ f \in SP!Frames
    BY FlightFacts DEF Inv, Packets
  <1>2. /\ f.lo < mid /\ mid < f.hi /\ mid \in SP!Bytes(f)
        /\ flight' = (flight \ {f}) \union {head, tail}
        /\ UNCHANGED <<acked, acks, retransmits>>
    BY SameHandlers DEF SP!Split, SP!svars, SP!window
  <1>3. \A x \in SP!Bytes(head) \union SP!Bytes(tail) : x \in SP!Bytes(f)
    <2>1. mid \in Nat /\ f.lo \in Nat /\ f.hi \in Nat /\ f.fin \in BOOLEAN
      BY <1>1, <1>2, FrameTypes
    <2>2. /\ head \in SP!Frames /\ head.lo = f.lo /\ head.hi = mid
          /\ tail \in SP!Frames /\ tail.lo = mid /\ tail.hi = f.hi
      BY <1>1, <2>1 DEF SP!Frames
    <2> HIDE DEF head, tail
    <2>3. /\ \A x : x \in SP!Bytes(head) => x \in Nat /\ f.lo <= x /\ x < mid
          /\ \A x : x \in SP!Bytes(tail) => x \in Nat /\ mid <= x /\ x < f.hi
      BY <2>2, FrameTypes
    <2>4. \A x \in Nat : f.lo <= x /\ x < f.hi => x \in SP!Bytes(f)
      BY <1>1, FrameTypes
    <2> QED
      BY <1>2, <2>1, <2>3, <2>4
  <1> HIDE DEF head, tail
  <1>4. \A g \in flight' \ got : Whole(g)
    <2>1. Whole(f)
      BY <1>1 DEF DeliveredOnce
    <2>2. Whole(head) /\ Whole(tail)
      BY <1>3, <2>1 DEF Whole
    <2> QED
      BY <1>2, <2>2 DEF DeliveredOnce
  <1>5. SentOnce => \A g \in flight' \ got : \A x \in SP!Bytes(g) : ~Has(x)
    BY <1>1, <1>2, <1>3 DEF SentOnce
  <1>6. DeliveredOnce'
    BY <1>2, <1>4, HasUnchanged DEF DeliveredOnce, Whole, SP!Bytes, SP!Span
  <1> QED
    BY <1>2, <1>5, <1>6, HasUnchanged DEF SentOnce, SP!Bytes, SP!Span

\* A timer that waited until the packet was lost or received.
LEMMA DeliveredTimeout ==
  ASSUME Inv, DeliveredOnce, NEW f \in flight, Timeout(f), f \notin transit
  PROVE  DeliveredOnce' /\ (TimelyAcks /\ SentOnce => SentOnce')
  <1>1. /\ SP!LoseFrame(f) /\ (TimelyAcks => f \notin got)
        /\ got' = got \ {f} /\ stale' = stale \union (transit \intersect {f})
        /\ UNCHANGED receiver
    BY SameFeedback DEF Timeout
  <1>2. /\ flight' = flight \ {f} /\ UNCHANGED <<acked, acks>>
        /\ retransmits' \subseteq retransmits \union SP!Bytes(f)
    BY <1>1 DEF SP!LoseFrame, SP!Retransmit, SP!Bytes
  <1>3. TimelyAcks /\ SentOnce => \A x \in retransmits' : ~Has(x)
    BY <1>1, <1>2 DEF SentOnce
  <1>4. got' \subseteq got /\ stale' = stale /\ flight' \ got' \subseteq flight \ got
    BY <1>1, <1>2
  <1>5. DeliveredOnce'
    BY <1>1, <1>2, <1>4, HasUnchanged DEF DeliveredOnce, Whole, SP!Bytes, SP!Span
  <1> QED
    BY <1>1, <1>3, <1>4, <1>5, HasUnchanged DEF SentOnce, SP!Bytes, SP!Span

LEMMA DeliveredAck ==
  ASSUME Inv, DeliveredOnce, NEW f \in got, AckArrives(f)
  PROVE  DeliveredOnce' /\ (SentOnce => SentOnce')
  <1>1. /\ SP!AckFrame(f) /\ got' = got \ {f} /\ UNCHANGED <<receiver, stale>>
    BY SameFeedback DEF AckArrives
  <1>2. f \in flight /\ f.lo < f.hi
    BY FlightFacts DEF Inv, Packets
  <1>3. SP!WindowAck(f.lo, f.hi) /\ flight' = flight \ {f} /\ UNCHANGED retransmits
    BY <1>1 DEF SP!AckFrame, SP!Ack
  <1>4. /\ acked' \in acked..sentOffset
        /\ \A x : x \in acks' <=> (x \in acks \/ x \in SP!Bytes(f)) /\ acked' <= x
        /\ \A x \in SP!Span(acked, acked') : x \in acks \/ x \in SP!Bytes(f)
    BY <1>2, <1>3, SP!WindowAckFacts, SenderConstants DEF Inv
  <1>5. \A x \in SP!Bytes(f) : Has(x)
    BY DEF DeliveredOnce
  <1>6. \A x \in Nat : x \in acks' => Has(x)
    BY <1>4, <1>5 DEF DeliveredOnce
  <1>7. ASSUME NEW x \in Nat, x < acked' PROVE Has(x)
    <2>1. acked \in Nat /\ sentOffset \in Nat
      BY SenderTypes DEF Inv
    <2>2. PICK e \in Nat : e = acked'
      BY <1>4, <2>1
    <2>3. x < acked \/ x \in SP!Span(acked, e)
      <3>1. x < e
        BY <1>7, <2>2
      <3> QED
        BY <2>1, <3>1 DEF SP!Span
    <2> QED
      BY <1>4, <1>5, <2>2, <2>3 DEF DeliveredOnce
  <1>8. flight' \ got' \subseteq flight \ got
    BY <1>1, <1>3
  <1>9. DeliveredOnce'
    BY <1>1, <1>3, <1>6, <1>7, <1>8, HasUnchanged DEF DeliveredOnce, Whole, SP!Bytes, SP!Span
  <1> QED
    BY <1>1, <1>3, <1>8, <1>9, HasUnchanged DEF SentOnce, SP!Bytes, SP!Span

\* Reads and window moves forget nothing and add nothing.
LEMMA DeliveredReads ==
  ASSUME Inv, Inv', DeliveredOnce, RP!Takes(recv), RP!Keeps(recv),
         UNCHANGED <<sender, flight, got, stale>>
  PROVE  DeliveredOnce' /\ (SentOnce => SentOnce')
  <1>1. \A x \in Nat : Has(x)' <=> Has(x)
    BY HasMore, Zenon DEF Has
  <1>2. /\ retransmits \subseteq Nat
        /\ \A f \in flight \union got \union stale : SP!Bytes(f) \subseteq Nat
    BY SenderTypes, FrameTypes, FlightFacts DEF Inv, Packets
  <1>3. DeliveredOnce'
    BY <1>1, <1>2 DEF DeliveredOnce, Whole, sender, SP!Bytes, SP!Span
  <1> QED
    BY <1>1, <1>2, <1>3 DEF SentOnce, sender, SP!Bytes, SP!Span

\* When the receiver has none of a frame's bytes, it drops none of them.
LEMMA NewFrameKept ==
  ASSUME Inv, NEW f \in transit, \A x \in SP!Bytes(f) : ~Has(x)
  PROVE  f.lo >= consumed /\ rstate \notin {"DataRecvd", "DataRead"}
  <1>1. f \in flight /\ f \notin got /\ f \in SP!Frames /\ f.lo < f.hi /\ Sent(f)
    BY FlightFacts DEF Inv, Packets, FramesSent
  <1>2. f.lo \in Nat /\ f.hi \in Nat /\ f.lo \in SP!Bytes(f)
    BY <1>1, FrameTypes
  <1>3. ~Has(f.lo)
    BY <1>1, <1>2
  <1>4. /\ consumed \in Nat /\ sentOffset \in Nat /\ wroteOffset \in Nat
        /\ sentOffset <= wroteOffset
    BY SenderTypes, ReceiverTypes DEF Inv
  <1>5. f.lo >= consumed
    BY <1>2, <1>3, <1>4 DEF Has
  <1>6. ASSUME rstate \in {"DataRecvd", "DataRead"} PROVE FALSE
    <2>1. finOffset = wroteOffset
      BY <1>6 DEF Inv, OnlySent, RP!StreamInv, RP!EndOfStream
    <2>2. f.lo < wroteOffset
      BY <1>1, <1>2, <1>4 DEF Sent
    <2>3. CASE rstate = "DataRecvd"
      <3>1. recv = RP!Span(consumed, wroteOffset)
        BY <2>1, <2>3 DEF Inv, RP!StreamInv, RP!EndOfStream
      <3>2. f.lo \in recv
        BY <1>2, <1>4, <1>5, <2>2, <3>1 DEF RP!Span
      <3> QED
        BY <1>3, <3>2 DEF Has
    <2>4. CASE rstate = "DataRead"
      <3>1. consumed = wroteOffset
        BY <2>1, <2>4 DEF Inv, RP!StreamInv, RP!EndOfStream
      <3> QED
        BY <1>2, <1>4, <1>5, <2>2, <3>1
    <2> QED
      BY <1>6, <2>3, <2>4
  <1> QED
    BY <1>5, <1>6

LEMMA DeliveredDeliver ==
  ASSUME Inv, Inv', DeliveredOnce, NEW f \in transit, Deliver(f)
  PROVE  DeliveredOnce' /\ (SentOnce => SentOnce')
  <1>1. /\ R!Write(f.lo, f.hi, f.fin)
        /\ transit' = transit \ {f} /\ got' = got \union {f}
        /\ stale' \in {stale, stale \union {f}}
        /\ UNCHANGED <<sender, flight, limits>>
    BY DEF Deliver
  <1>2. f \in flight /\ f \notin got /\ f \in SP!Frames
    BY FlightFacts DEF Inv, Packets
  <1>3. Packets' /\ stale' \subseteq stale \union flight
    BY <1>1, <1>2 DEF Inv
  <1>4. /\ RP!Takes(recv \union SP!Bytes(f)) /\ RP!Keeps(recv)
        /\ (\A x \in SP!Bytes(f) : ~Has(x)) => RP!Keeps(SP!Bytes(f))
    BY <1>1, <1>2, <1>3, NewFrameKept, HandOver
  <1>5. \A x \in SP!Bytes(f) : Has(x)'
    <2>1. CASE \A x \in SP!Bytes(f) : ~Has(x)
      BY <1>4, <2>1 DEF RP!Keeps, Has
    <2>2. CASE \A x \in SP!Bytes(f) : Has(x)
      <3>1. \A x \in SP!Bytes(f) : x \in Nat
        BY <1>2, FrameTypes
      <3> QED
        BY <1>4, <2>2, <3>1, HasMore
    <2> QED
      BY <1>2, <2>1, <2>2 DEF DeliveredOnce, Whole
  <1>6. /\ \A x \in Nat : Has(x) => Has(x)'
        /\ \A x \in Nat : Has(x)' => Has(x) \/ x \in recv \union SP!Bytes(f)
    BY <1>4, HasMore
  <1>7. \A x \in Nat : Has(x)' => Has(x) \/ x \in SP!Bytes(f)
    BY <1>6 DEF Has
  <1>8. /\ retransmits \subseteq Nat
        /\ \A g \in flight \union got \union stale : SP!Bytes(g) \subseteq Nat
    BY SenderTypes, FrameTypes, FlightFacts DEF Inv, Packets
  <1>9. /\ \A x \in SP!Bytes(f) : x \notin retransmits
        /\ \A g \in flight : g # f => SP!Bytes(g) \intersect SP!Bytes(f) = {}
    BY <1>2 DEF Inv, SP!Inv, SP!TrackedOnce
  <1>10. UNCHANGED <<acked, acks, retransmits, flight>>
    BY <1>1 DEF sender
  <1>11. \A x \in Nat : x < acked \/ x \in acks => Has(x)'
    BY <1>6 DEF DeliveredOnce
  <1>12. SentOnce => \A x \in retransmits : ~(Has(x)')
    BY <1>7, <1>8, <1>9 DEF SentOnce
  <1>13. \A g \in got' \union stale' : \A x \in SP!Bytes(g) : Has(x)'
    BY <1>1, <1>5, <1>6, <1>8 DEF DeliveredOnce
  <1>14. \A g \in flight \ got' : \/ \A x \in SP!Bytes(g) : Has(x)'
                               \/ \A x \in SP!Bytes(g) : ~(Has(x)')
    <2> SUFFICES ASSUME NEW g \in flight, g \notin got, g # f
                 PROVE  \/ \A x \in SP!Bytes(g) : Has(x)'
                        \/ \A x \in SP!Bytes(g) : ~(Has(x)')
      BY <1>1
    <2>1. Whole(g)
      BY DEF DeliveredOnce
    <2> QED
      BY <1>6, <1>7, <1>8, <1>9, <2>1 DEF Whole
  <1>15. SentOnce => \A g \in flight \ got' : \A x \in SP!Bytes(g) : ~(Has(x)')
    BY <1>1, <1>7, <1>8, <1>9 DEF SentOnce
  <1>16. DeliveredOnce'
    BY <1>10, <1>11, <1>13, <1>14 DEF DeliveredOnce, Whole, SP!Bytes, SP!Span
  <1> QED
    BY <1>10, <1>12, <1>15, <1>16 DEF SentOnce, SP!Bytes, SP!Span

LEMMA DeliveredStale ==
  ASSUME Inv, Inv', DeliveredOnce, NEW f \in stale, DeliverStale(f)
  PROVE  DeliveredOnce' /\ (SentOnce => SentOnce')
  <1>1. /\ R!Write(f.lo, f.hi, f.fin)
        /\ stale' \in {stale, stale \ {f}}
        /\ UNCHANGED <<sender, flight, transit, got, limits>>
    BY DEF DeliverStale
  <1>2. Packets' /\ stale' \subseteq stale \union flight
    BY <1>1 DEF Inv
  <1>3. RP!Takes(recv \union SP!Bytes(f)) /\ RP!Keeps(recv)
    BY <1>1, <1>2, HandOver
  <1>4. \A x \in Nat : Has(x)' <=> Has(x)
    <2>1. /\ \A x \in Nat : Has(x) => Has(x)'
          /\ \A x \in Nat : Has(x)' => Has(x) \/ x \in recv \union SP!Bytes(f)
      BY <1>3, HasMore
    <2>2. \A x \in recv \union SP!Bytes(f) : Has(x)
      BY DEF Has, DeliveredOnce
    <2> QED
      BY <2>1, <2>2
  <1>5. /\ retransmits \subseteq Nat
        /\ \A g \in flight \union got \union stale : SP!Bytes(g) \subseteq Nat
    BY SenderTypes, FrameTypes, FlightFacts DEF Inv, Packets
  <1>6. UNCHANGED <<acked, acks, retransmits, flight, got>> /\ stale' \subseteq stale
    BY <1>1 DEF sender
  <1>7. DeliveredOnce'
    BY <1>4, <1>5, <1>6 DEF DeliveredOnce, Whole, SP!Bytes, SP!Span
  <1> QED
    BY <1>4, <1>5, <1>6, <1>7 DEF SentOnce, SP!Bytes, SP!Span

LEMMA DeliveredStep ==
  ASSUME Inv, Inv', DeliveredOnce, [Next]_vars
  PROVE  /\ ResentWhole => DeliveredOnce'
         /\ TimelyAcks /\ SentOnce => ResentWhole /\ SentOnce'
  <1> DEFINE Goal == /\ ResentWhole => DeliveredOnce'
                     /\ TimelyAcks /\ SentOnce => ResentWhole /\ SentOnce'
  <1>a. TimelyAcks => \A f \in transit : ~Timeout(f)
    BY DEF Timeout
  <1>b. ASSUME DeliveredOnce', flight' \subseteq flight, SentOnce => SentOnce'
        PROVE  Goal
    BY <1>a, <1>b DEF ResentWhole
  <1>1. CASE AppWrite \/ AppWrote \/ AppClose \/ Drop \/ UNCHANGED vars
             \/ \E limit \in limits : LimitArrives(limit)
    <2>1. UNCHANGED <<acked, acks, retransmits>>
      BY <1>1 DEF AppWrite, S!Write, AppWrote, S!Wrote, AppClose, S!Close, S!window, Drop,
                  LimitArrives, S!MaxData, vars, sender
    <2>2. UNCHANGED <<flight, got, stale, receiver>>
      BY <1>1 DEF AppWrite, AppWrote, AppClose, Drop, LimitArrives, vars, network
    <2> QED
      BY <1>b, <2>1, <2>2, DeliveredIdle
  <1>2. CASE Tick \/ Packetize
    <2>1. ResentWhole => DeliveredOnce'
      BY <1>2, DeliveredTick, DeliveredPacketize DEF ResentWhole
    <2>2. SentOnce => SentOnce'
      BY <1>2, DeliveredTick, DeliveredPacketize
    <2>3. UNCHANGED <<receiver, got>>
      BY <1>2 DEF Tick, Packetize
    <2>4. ASSUME SentOnce, NEW f \in flight' \ flight PROVE Whole(f)
      <3>1. f \notin got'
        BY <2>3, FlightFacts DEF Inv, Packets
      <3>2. \A x \in SP!Bytes(f) : ~(Has(x)')
        BY <2>2, <2>4, <3>1 DEF SentOnce, SP!Bytes, SP!Span
      <3> QED
        BY <2>3, <3>2, HasUnchanged DEF Whole
    <2> QED
      BY <1>a, <2>1, <2>2, <2>4 DEF ResentWhole
  <1>3. CASE \E f \in flight : Timeout(f)
    <2>1. PICK f \in flight : Timeout(f)
      BY <1>3
    <2>2. ResentWhole \/ TimelyAcks => f \notin transit
      BY <1>a, <2>1 DEF ResentWhole
    <2>3. flight' \subseteq flight
      BY <2>1 DEF Timeout, S!LoseFrame
    <2>4. ResentWhole => DeliveredOnce'
      BY <2>1, <2>2, DeliveredTimeout
    <2>5. TimelyAcks /\ SentOnce => SentOnce'
      BY <2>1, <2>2, DeliveredTimeout
    <2> QED
      BY <1>a, <2>3, <2>4, <2>5 DEF ResentWhole
  <1>4. CASE \E f \in got : AckArrives(f)
    <2>1. flight' \subseteq flight
      BY <1>4 DEF AckArrives, S!AckFrame
    <2> QED
      BY <1>4, <1>b, <2>1, DeliveredAck
  <1>5. CASE AppRead
    <2>1. PICK len \in ReadLens : R!Read(len) /\ UNCHANGED <<sender, network>>
      BY <1>5 DEF AppRead
    <2>2. RP!Takes(recv) /\ RP!Keeps(recv)
      BY <2>1, SameRead, RP!ReadInv, ReceiverConstants DEF Inv
    <2> QED
      BY <1>b, <2>1, <2>2, DeliveredReads DEF network
  <1>6. CASE \E f \in transit : Deliver(f)
    <2>1. UNCHANGED flight
      BY <1>6 DEF Deliver
    <2> QED
      BY <1>6, <1>b, <2>1, DeliveredDeliver
  <1>7. CASE \E f \in stale : DeliverStale(f)
    <2>1. UNCHANGED flight
      BY <1>7 DEF DeliverStale
    <2> QED
      BY <1>7, <1>b, <2>1, DeliveredStale
  <1>8. CASE RunUpdate \/ LimitLost \/ LimitAckLost
    <2>1. UNCHANGED <<consumed, recv>>
      BY <1>8, RunUpdateInv, LimitLostInv, LimitAckLostInv
    <2>2. UNCHANGED <<sender, flight, got, stale>>
      BY <1>8 DEF RunUpdate, LimitLost, LimitAckLost
    <2>3. DeliveredOnce' /\ (SentOnce => SentOnce')
      BY <2>1, <2>2 DEF DeliveredOnce, SentOnce, Whole, Has, sender, SP!Bytes, SP!Span
    <2> QED
      BY <1>b, <2>2, <2>3
  <1> QED
    BY <1>1, <1>2, <1>3, <1>4, <1>5, <1>6, <1>7, <1>8 DEF Next

LEMMA DeliveredMeans ==
  ASSUME Inv, DeliveredOnce
  PROVE  AckedDelivered
  <1> SUFFICES ASSUME NEW x \in Span(0, acked) \union acks
               PROVE  x \in Span(0, consumed) \union recv
    BY DEF AckedDelivered
  <1>1. acked \in Nat /\ acks \subseteq Nat /\ consumed \in Nat
    BY SenderTypes, ReceiverTypes DEF Inv
  <1>2. x \in Nat /\ (x < acked \/ x \in acks)
    BY <1>1 DEF Span
  <1>3. Has(x)
    BY <1>2 DEF DeliveredOnce
  <1> QED
    BY <1>1, <1>2, <1>3 DEF Has, Span

\* Reliable transfer, packets and acks lost alike: a byte that the sender
\* considers acknowledged, and has dropped from its buffer, was kept by the
\* receiving stream, as long as ResentWhole holds.  Nothing else can lose one:
\* a frame that is partly known is what recv_window.rs:29 drops.
THEOREM WholeFramesDeliver == Spec /\ [][ResentWhole]_vars => []AckedDelivered
  <1>1. Init => DeliveredOnce
    BY DeliveredInit
  <1>2. Inv /\ Inv' /\ DeliveredOnce /\ [Next]_vars /\ [ResentWhole]_vars => DeliveredOnce'
    <2> SUFFICES ASSUME Inv, Inv', DeliveredOnce, [Next]_vars, [ResentWhole]_vars
                 PROVE  DeliveredOnce'
      OBVIOUS
    <2>1. CASE ResentWhole
      BY <2>1, DeliveredStep
    <2>2. CASE UNCHANGED vars
      BY <2>2, DeliveredIdle DEF vars, sender, network
    <2> QED
      BY <2>1, <2>2
  <1>3. Inv /\ DeliveredOnce => AckedDelivered
    BY DeliveredMeans
  <1> QED
    BY <1>1, <1>2, <1>3, Invariant, PTL DEF Spec

\* When no ack is lost and no timer is early, ResentWhole is no condition: what
\* was sent is sent again only if it did not arrive.
THEOREM AckedIsDelivered ==
  ASSUME TimelyAcks
  PROVE  Spec => []AckedDelivered
  <1>1. Init => DeliveredOnce /\ SentOnce
    BY DeliveredInit
  <1>2. Inv /\ Inv' /\ (DeliveredOnce /\ SentOnce) /\ [Next]_vars
        => (DeliveredOnce /\ SentOnce)'
    BY DeliveredStep
  <1>3. Inv /\ DeliveredOnce /\ SentOnce => AckedDelivered
    BY DeliveredMeans
  <1> QED
    BY <1>1, <1>2, <1>3, Invariant, PTL DEF Spec

=============================================================================
