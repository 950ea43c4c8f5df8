--------------------------- MODULE StreamTransfer ---------------------------
(***************************************************************************)
(* One stream end to end: the handlers of SendStream and RecvStream joined *)
(* by the packet layer of a connection (Packetizer, Inflight and Sender on *)
(* one side, Receiver and AckSender on the other) and by a UDP network     *)
(* that loses, delays, reorders and duplicates.                            *)
(*                                                                         *)
(* A frame is read, packed, sent and registered in Inflight under a packet *)
(* number of its own; a frame sent again travels under a new number.  The  *)
(* number matters only in one way: an acknowledgement counts for the       *)
(* packet that was received, not for a later one with the same bytes.  So  *)
(* a packet of `flight` is named by its frame, and a copy that is still on *)
(* its way after the packet was received, or after Inflight resolved its   *)
(* number, is in `stale`.                                                  *)
(***************************************************************************)
EXTENDS ByteRanges, Sequences

CONSTANTS
  MaxWindow,   \* MAX_WINDOW_SIZE, of both peers
  Lens,        \* lengths of the writes of one application
  Budgets,     \* bytes a tick of StreamsInner lets a stream send
  ReadLens,    \* lengths of the reads of the other application
  MaxBytes,    \* bound: bytes written to the stream
  MaxReaders,  \* bound: reads waiting together
  MaxUpdates,  \* bound: Update messages queued in the receiving actor
  TimelyAcks   \* no ack is lost and none is late: a retransmission timer fires
               \* only for a packet that the network dropped

ASSUME TransferConstants ==
  /\ MaxWindow \in Nat \ {0}
  /\ Lens \subseteq Nat /\ Budgets \subseteq Nat \ {0} /\ ReadLens \subseteq Nat
  /\ MaxBytes \in Nat /\ MaxReaders \in Nat \ {0} /\ MaxUpdates \in Nat
  /\ TimelyAcks \in BOOLEAN

VARIABLES
  sstate, closing, wrote, acked, maxData, sentOffset, wroteOffset, acks, retransmits,
  rstate, rclosing, pending, recv, consumed, bufLen, filled, start, finOffset,
  updates, answered,
  flight,   \* frames of the packets registered in Inflight
  transit,  \* those in Packetizer's queue or in the network
  got,      \* those received by the peer, so that an ack is under way
  stale,    \* copies in the network of packets already received or resolved
  limits    \* max_stream_data frames on their way back

S == INSTANCE SendStream WITH outstanding <- flight, Limits <- Nat
R == INSTANCE RecvStream WITH MaxTotal <- MaxBytes

sender == <<sstate, closing, wrote, acked, maxData, sentOffset, wroteOffset, acks, retransmits>>
receiver == <<rstate, rclosing, pending, recv, consumed, bufLen, filled, start, finOffset,
              updates, answered>>
network == <<flight, transit, got, stale, limits>>
vars == <<sender, receiver, network>>

Init ==
  /\ S!Init /\ R!Init
  /\ transit = {} /\ got = {} /\ stale = {} /\ limits = {}
-----------------------------------------------------------------------------
(***************************************************************************)
(* The applications.  The writer writes no more once it declared the end   *)
(* and may close at any time; the reader reads again and again.            *)
(***************************************************************************)
AppWrite ==
  /\ ~wrote
  /\ \E len \in Lens : wroteOffset + len <= MaxBytes /\ S!Write(len)
  /\ UNCHANGED <<receiver, network>>

AppWrote == ~wrote /\ S!Wrote /\ UNCHANGED <<receiver, network>>

AppClose == S!Close /\ UNCHANGED <<receiver, network>>

AppRead ==
  /\ Len(pending) < MaxReaders /\ updates < MaxUpdates
  /\ \E len \in ReadLens : R!Read(len)
  /\ UNCHANGED <<sender, network>>
-----------------------------------------------------------------------------
(***************************************************************************)
(* The sender's packet layer.                                              *)
(***************************************************************************)

\* Tick of StreamsInner: a frame is read and queued in Packetizer.
Tick ==
  /\ \E len \in Budgets : \E f \in S!ReadResult(len) :
       /\ S!Read(f)
       /\ flight' = flight \union {f} /\ transit' = transit \union {f}
  /\ UNCHANGED <<receiver, got, stale, limits>>

\* Packetizer cuts a frame that does not fit in the packet.
Packetize ==
  /\ \E f \in transit : \E mid \in S!Bytes(f) :
       /\ S!Split(f, mid)
       /\ transit' = (transit \ {f}) \union (flight' \ flight)
  /\ UNCHANGED <<receiver, got, stale, limits>>

\* Mutant: the bytes of the lost packet are acknowledged to the stream.
MutantTimeout(f) ==
  /\ S!Ack(f.lo, f.hi)
  /\ flight' = flight \ {f} /\ transit' = transit \ {f} /\ got' = got \ {f}
  /\ stale' = stale \union (transit \intersect {f})
  /\ UNCHANGED <<receiver, limits>>

\* Inflight's timer fires: LostBcast reaches the stream.
Timeout(f) ==
  /\ TimelyAcks => f \notin transit /\ f \notin got
  /\ S!LoseFrame(f)
  /\ transit' = transit \ {f} /\ got' = got \ {f}
  /\ stale' = stale \union (transit \intersect {f})
  /\ UNCHANGED <<receiver, limits>>

\* An ack frame of the peer covers the packet: AckedBcast reaches the stream.
AckArrives(f) ==
  /\ S!AckFrame(f)
  /\ got' = got \ {f}
  /\ UNCHANGED <<receiver, transit, stale, limits>>

\* A max_stream_data frame arrives.
LimitArrives(limit) ==
  /\ S!MaxData(limit)
  /\ limits' = limits \ {limit}
  /\ UNCHANGED <<receiver, flight, transit, got, stale>>
-----------------------------------------------------------------------------
(***************************************************************************)
(* The receiver's side.                                                    *)
(***************************************************************************)

\* Receiver hands the frame to the stream and its packet number to AckSender,
\* whether or not the stream kept the bytes.  A second copy may follow.
Deliver(f) ==
  /\ updates < MaxUpdates
  /\ R!Write(f.lo, f.hi, f.fin)
  /\ transit' = transit \ {f} /\ got' = got \union {f}
  /\ stale' \in {stale, stale \union {f}}
  /\ UNCHANGED <<sender, flight, limits>>

\* A copy of a packet that was resolved: late or duplicated.  It is
\* acknowledged as well, which Inflight ignores.
DeliverStale(f) ==
  /\ updates < MaxUpdates
  /\ R!Write(f.lo, f.hi, f.fin)
  /\ stale' \in {stale, stale \ {f}}
  /\ UNCHANGED <<sender, flight, transit, got, limits>>

\* Mutant: the limit counts from what was written instead of what was read.
MutantAnnounced == IF R!Announces THEN {start' + MaxWindow + bufLen} ELSE {}

\* The max_stream_data frame of Handler<Update>.
Announced == IF R!Announces THEN {start' + MaxWindow} ELSE {}

RunUpdate ==
  /\ R!RunUpdate
  /\ limits' = limits \union Announced
  /\ UNCHANGED <<sender, flight, transit, got, stale>>

\* The packet of a max_stream_data frame is declared lost: Update again, and
\* the old frame may still arrive.
LimitLost ==
  /\ \E limit \in limits :
       /\ R!LostUpdate
       /\ limits' \in {limits \union Announced, (limits \ {limit}) \union Announced}
  /\ UNCHANGED <<sender, flight, transit, got, stale>>

\* The frame arrived and the ack of its packet was lost: Update once more.
\* One that would announce the same limit again changes nothing.
LimitAckLost ==
  /\ ~TimelyAcks /\ maxData > MaxWindow /\ consumed > start
  /\ R!LostUpdate
  /\ limits' = limits \union Announced
  /\ UNCHANGED <<sender, flight, transit, got, stale>>
-----------------------------------------------------------------------------
(***************************************************************************)
(* The network.                                                            *)
(***************************************************************************)
Drop ==
  /\ \E f \in transit : transit' = transit \ {f}
  /\ UNCHANGED <<sender, receiver, flight, got, stale, limits>>

Next ==
  \/ AppWrite \/ AppWrote \/ AppClose \/ AppRead
  \/ Tick \/ Packetize
  \/ (\E f \in flight : Timeout(f))
  \/ (\E f \in got : AckArrives(f))
  \/ (\E limit \in limits : LimitArrives(limit))
  \/ (\E f \in transit : Deliver(f))
  \/ (\E f \in stale : DeliverStale(f))
  \/ RunUpdate \/ LimitLost \/ LimitAckLost
  \/ Drop

Spec == Init /\ [][Next]_vars

(***************************************************************************)
(* The actors run and the reader keeps reading.  Every packet has a timer  *)
(* of its own: the one that carries the next byte to read, or to           *)
(* acknowledge, is not forgotten, and sent again and again it arrives.  A  *)
(* received packet that keeps its place in `got` is acknowledged in the    *)
(* end: under TimelyAcks, where this is used, what is lost is frames.      *)
(***************************************************************************)
FairSpec ==
  /\ Spec
  /\ WF_vars(AppRead) /\ WF_vars(Tick) /\ WF_vars(RunUpdate) /\ WF_vars(LimitLost)
  /\ WF_vars(\E f \in flight : consumed \in S!Bytes(f) /\ Timeout(f))
  /\ WF_vars(\E f \in flight : acked \in S!Bytes(f) /\ Timeout(f))
  /\ WF_vars(\E f \in got : acked \in S!Bytes(f) /\ AckArrives(f))
  /\ SF_vars(\E f \in transit : consumed \in S!Bytes(f) /\ Deliver(f))
  /\ SF_vars(\E f \in transit : acked \in S!Bytes(f) /\ Deliver(f))
  /\ SF_vars(\E limit \in limits : limit > maxData /\ LimitArrives(limit))
-----------------------------------------------------------------------------
\* Types, and how the parts of the network relate.
TypeOK ==
  /\ S!TypeOK /\ R!TypeOK
  /\ transit \subseteq flight /\ got \subseteq flight
  /\ transit \intersect got = {}
  /\ stale \subseteq S!Frames
  /\ limits \subseteq Nat

\* The sender never believes in a limit that the receiver has not announced,
\* and never sends past it, however max_stream_data frames are lost,
\* reordered and repeated; so the receiver's buffer never outgrows its window,
\* and no resize puts zeros in the place of received bytes.
FlowControl ==
  /\ sentOffset <= maxData
  /\ maxData <= R!MaxStreamData
  /\ bufLen <= MaxWindow /\ R!OnlyPeerBytes

\* The stream is what ByteStream promises: bytes in order and once each, the
\* end reported only after the last one, whatever the network does.
B == INSTANCE ByteStream WITH
       written <- wroteOffset, finished <- wrote, read <- consumed,
       ended <- rstate = "DataRead"
InOrder == B!Spec

\* Reliable transfer: a byte the sender considers acknowledged, and so drops
\* from its buffer, was kept by the receiving stream.
AckedDelivered ==
  Span(0, acked) \union acks \subseteq Span(0, consumed) \union recv

\* Everything written is read, through any number of losses of data and of
\* limits and any number of window moves.
Delivers == \A n \in 1..MaxBytes : wroteOffset >= n ~> consumed >= n

\* Both ends reach their final state when the end was declared before the
\* last byte was sent: the reader is told that the stream ended and the
\* writer's close is answered.
Terminates ==
  (wrote /\ sentOffset < wroteOffset) ~> (rstate = "DataRead" /\ sstate = "DataRecvd" /\ ~closing)

=============================================================================
