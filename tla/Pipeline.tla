------------------------------ MODULE Pipeline ------------------------------
(***************************************************************************)
(* The way of a frame through one side of a connection: Packetizer puts it *)
(* into a packet, Sender sends and registers the packet, Inflight resolves *)
(* it, and Sender and StreamsInner hear of it (AckedBcast, LostBcast).     *)
(* The peer is Receiver and the ack frames of AckSender: a frame covers    *)
(* any packets received so far (acks are late, lost, reordered, repeated,  *)
(* and limited in their ranges).  A packet in `sent` that is never         *)
(* delivered is lost; one may arrive late, and again.                      *)
(*                                                                         *)
(* The data handed over is identified by its offset; max_stream_data       *)
(* frames and stream frames without data are numbered.  Data that is sent  *)
(* again after a loss is a new frame for these actors and is not handed    *)
(* over again here.                                                        *)
(***************************************************************************)
EXTENDS Inflight, Congestion, FiniteSets, Functions

CONSTANTS
  HeaderSize,   \* Header::min_len of a packet
  Lens,         \* lengths of the data of one stream frame
  Rate,         \* bytes of a window per time unit of the rtt, for each tick
  PacketTime,   \* time between two packets
  MaxData,      \* bound: bytes of data handed over
  MaxEmpties,   \* bound: stream frames without data handed over
  MaxLimits,    \* bound: max_stream_data frames handed over
  MaxAckOf,     \* bound: ack frames handed over
  MaxPackets    \* bound: packets, enough for all of the frames

ASSUME PipelineConstants ==
  /\ Rate \in Nat \ {0} /\ PacketTime \in Nat \ {0}
  /\ HeaderSize \in Nat /\ Lens \subseteq Nat \ {0}
  /\ MaxData \in Nat /\ MaxEmpties \in Nat /\ MaxLimits \in Nat
  /\ MaxAckOf \in Nat /\ MaxPackets \in Nat
  /\ MaxData + MaxEmpties + MaxLimits + MaxAckOf <= MaxPackets

VARIABLES
  pz,         \* the Packetizer
  cc,         \* the congestion state, which Sender updates
  handed,     \* bytes of data handed over so far
  empties,    \* stream frames without data handed over so far
  limits,     \* max_stream_data frames handed over so far
  acksOf,     \* ack frames handed over so far
  sent,       \* packets given to the network
  received    \* numbers of the packets the peer received

pvars == <<pz, cc, handed, empties, limits, acksOf, sent, received, ivars>>

Init ==
  /\ pz = NewPacketizer /\ cc = NewReno
  /\ handed = 0 /\ empties = 0 /\ limits = 0 /\ acksOf = 0
  /\ sent = {} /\ received = {}
  /\ InflightInit(0..(MaxPackets - 1))

\* f[1] + ... + f[n]
Total(f, n) ==
  LET sum[i \in 0..n] == IF i = 0 THEN 0 ELSE sum[i - 1] + f[i]
  IN sum[n]

\* Packet::len, less the header, and with it.
SizeOf(frames) == Total([i \in DOMAIN frames |-> Size(frames[i])], Len(frames))
BytesOf(p)     == HeaderSize + SizeOf(p.frames)
-----------------------------------------------------------------------------
\* The bytes of a tick: a quarter more than the window, over the rtt.
Budget == ((cc.window + cc.window \div 4) * Rate) \div Rtt(est)

\* What a stream is asked for: less the header of the frame, in u64.  When
\* the header alone exceeds the budget, the difference wraps around and the
\* whole stream is asked for (a build with overflow checks stops here).
Asked(bytes, len) == bytes < DataHeader \/ len <= bytes - DataHeader

\* The tick of StreamsInner hands over a stream frame.
HandData ==
  /\ \E len \in Lens :
       /\ handed + len <= MaxData /\ Asked(Budget, len)
       /\ pz' = SendFrame(pz, Data(handed, handed + len))
       /\ handed' = handed + len
  /\ UNCHANGED <<cc, empties, limits, acksOf, sent, received, ivars>>

\* A budget of just the header reads 0 bytes, which SendWindow.read returns as
\* a frame without data when there is something to send.
HandEmpty ==
  /\ empties < MaxEmpties /\ Budget = DataHeader
  /\ empties' = empties + 1
  /\ pz' = SendFrame(pz, Empty(empties))
  /\ UNCHANGED <<cc, handed, limits, acksOf, sent, received, ivars>>

\* A receiving stream hands over a max_stream_data frame.
HandLimit ==
  /\ limits < MaxLimits /\ limits' = limits + 1
  /\ pz' = SendFrame(pz, Limit(limits))
  /\ UNCHANGED <<cc, handed, empties, acksOf, sent, received, ivars>>

\* AckSender hands over an ack frame, for what the peer sends in turn.
HandAck ==
  /\ acksOf < MaxAckOf /\ acksOf' = acksOf + 1
  /\ pz' = SendFrame(pz, AckOf(acksOf))
  /\ UNCHANGED <<cc, handed, empties, limits, sent, received, ivars>>

PacketTimeout ==
  /\ pz.timers > 0 /\ pz' = OnTimeout(pz)
  /\ UNCHANGED <<cc, handed, empties, limits, acksOf, sent, received, ivars>>

\* Handler<SendPacket> of Sender.  send() on the socket and do_send(Sent) are
\* in one poll of the spawned task, so an ack never comes before its packet
\* is registered.
SendPacket ==
  /\ pz.out # <<>>
  /\ pz' = [pz EXCEPT !.out = Tail(pz.out)]
  /\ Sent(Head(pz.out))
  /\ sent' = sent \union {Head(pz.out)}
  /\ UNCHANGED <<cc, handed, empties, limits, acksOf, received>>

\* Handler<Recv> of the peer's Receiver, which tells AckSender the number.
Deliver ==
  /\ \E p \in sent : p.num \notin received /\ received' = received \union {p.num}
  /\ UNCHANGED <<pz, cc, handed, empties, limits, acksOf, sent, ivars>>

\* Handler<AckedBcast> of Sender; extract_if takes the packets out of a
\* HashMap, in any order.
CongestionAcked(ps) ==
  \E order \in Bijection(1..Cardinality(ps), ps) :
    LET after[i \in 0..Cardinality(ps)] ==
          IF i = 0 THEN cc ELSE OnAck(after[i - 1], order[i].num, BytesOf(order[i]))
    IN cc' = after[Cardinality(ps)]

AckArrives ==
  /\ \E nums \in SUBSET received \ {{}} :
       /\ \E delay \in {0, MaxAckDelay} :
            Ack(nums, delay, [n \in nums |-> PacketTime * (Cardinality(sent) - n)])
       /\ CongestionAcked(Covered(nums))
  /\ UNCHANGED <<pz, handed, empties, limits, acksOf, sent, received>>

\* Handler<LostBcast> of Sender follows.
RetransmissionTimeout(p) ==
  /\ TimerFires(p)
  /\ cc' = OnLoss(cc, p.num, Cardinality(sent))
  /\ UNCHANGED <<pz, handed, empties, limits, acksOf, sent, received>>

Next ==
  \/ HandData \/ HandEmpty \/ HandLimit \/ HandAck \/ PacketTimeout
  \/ SendPacket \/ Deliver \/ AckArrives
  \/ \E p \in packets : RetransmissionTimeout(p)

\* Timers fire and the actors run; nothing is promised of the network.
Spec ==
  /\ Init /\ [][Next]_pvars
  /\ WF_pvars(PacketTimeout) /\ WF_pvars(SendPacket)
  /\ WF_pvars(\E p \in packets : RetransmissionTimeout(p))
-----------------------------------------------------------------------------
TypeOK ==
  /\ pz.room \in 0..PacketRoom /\ pz.timers \in Nat
  /\ pz.num = Cardinality(sent) + Len(pz.out) /\ pz.num <= MaxPackets
  /\ packets \subseteq sent /\ fired \subseteq Numbers(packets)
  /\ received \subseteq Numbers(sent)
  /\ cc.window \in Nat /\ cc.bytesAcked \in Nat /\ cc.recovery \in 0..Cardinality(sent)
  /\ est.smoothed \in Nat \union {NoRtt} /\ est.var \in Nat /\ est.min \in Nat

Packets == sent \union { pz.out[i] : i \in DOMAIN pz.out }

\* No packet is empty or longer than MAX_PACKET_SIZE, whatever frames it was
\* filled with; what remains() says of the one being filled is right, and
\* Packetizer does not keep a full one (`self.remaining() < 20`).
PacketsFit ==
  /\ \A p \in Packets : p.frames # <<>> /\ SizeOf(p.frames) <= PacketRoom
  /\ pz.room = PacketRoom - SizeOf(pz.frames)
  /\ pz.room >= FullBelow

\* Where each frame is: in which packet, the unfinished one included, and at
\* which place of it.
Entries ==
  UNION { { [num |-> p.num, at |-> i, frame |-> p.frames[i]] : i \in DOMAIN p.frames } :
            p \in Packets \union {[num |-> pz.num, frames |-> pz.frames]} }

Before(d, e) == d.num < e.num \/ (d.num = e.num /\ d.at < e.at)

HandedOver == [kind \in {"data", "empty", "limit", "ack"} |->
                 CASE kind = "data" -> handed [] kind = "empty" -> empties
                   [] kind = "limit" -> limits [] OTHER -> acksOf]

\* Every byte and every frame handed to Packetizer is in exactly one packet, in
\* the order of handing over; a stream frame that was cut to fill a packet is
\* there in parts, each with some of its bytes.
PackedOnce ==
  /\ \A e \in Entries : e.frame.lo < e.frame.hi
  /\ \A d, e \in Entries :
       d # e /\ d.frame.kind = e.frame.kind =>
         \/ Before(d, e) /\ d.frame.hi <= e.frame.lo
         \/ Before(e, d) /\ e.frame.hi <= d.frame.lo
  /\ \A kind \in DOMAIN HandedOver :
       UNION { e.frame.lo..(e.frame.hi - 1) : e \in { d \in Entries : d.frame.kind = kind } }
         = 0..(HandedOver[kind] - 1)

\* A packet is reported to the streams and to the congestion control once, as
\* acknowledged or as lost, and never both, although its timer and its ack
\* race; one that is not ack-eliciting is never reported.
ResolvedOnce ==
  /\ \A n \in DOMAIN acked : acked[n] + lost[n] <= 1
  /\ \A p \in sent :
       acked[p.num] + lost[p.num] = 0 <=> ~Eliciting(p.frames) \/ p \in Unresolved

\* The bytes of the packets that were reported as acknowledged.
AckedBytes ==
  LET packet(n) == CHOOSE p \in sent : p.num = n
  IN Total([i \in 1..Cardinality(sent) |-> acked[i - 1] * BytesOf(packet(i - 1))],
           Cardinality(sent))

\* The window stays above two datagrams.  Before the first loss it is what the
\* peer acknowledged above the initial one (slow start); after a loss it grew
\* by at most one datagram for each window that was acknowledged.
WindowJustified ==
  /\ MinimumWindow <= cc.window
  /\ cc.ssthresh = Unlimited => cc.window = InitialWindow + AckedBytes
  /\ cc.ssthresh # Unlimited =>
       (cc.window - cc.ssthresh) * cc.ssthresh <= Mtu * AckedBytes

\* The estimate lies between the shortest and the longest time that an ack
\* took, although the delay that the peer reports may exceed the time measured;
\* in particular the tick, which divides by it, never divides by zero.
RttJustified ==
  LET longest == PacketTime * Cardinality(sent)
  IN IF est.smoothed = NoRtt THEN est = NewEstimator
     ELSE /\ PacketTime <= est.min /\ est.min <= est.smoothed
          /\ est.smoothed <= longest /\ est.var <= longest

\* Losses of packets that were in flight together reduce the window once: it
\* is reduced again only for a packet sent after the last reduction.
ReducedOncePerFlight ==
  [][cc'.window < cc.window => cc'.recovery > cc.recovery]_pvars

\* Every byte and every limit handed over is reported in the end, as received
\* or as lost, so that the stream can count on it or send it again.
Reported(f) ==
  \E p \in sent :
    /\ \E i \in DOMAIN p.frames :
         p.frames[i].kind = f.kind /\ p.frames[i].lo <= f.lo /\ f.hi <= p.frames[i].hi
    /\ acked[p.num] + lost[p.num] = 1

AllReported ==
  /\ \A b \in 0..(MaxData - 1) : b < handed ~> Reported(Data(b, b + 1))
  /\ \A id \in 0..(MaxLimits - 1) : id < limits ~> Reported(Limit(id))

=============================================================================
