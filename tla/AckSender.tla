----------------------------- MODULE AckSender ------------------------------
(***************************************************************************)
(* rrdt-lib/src/connection/ack_sender.rs: the actor that decides when an   *)
(* ack frame goes out.  Receiver tells it the number of every packet that  *)
(* arrived; the network loses, reorders and duplicates packets.            *)
(*                                                                         *)
(* A timer is armed when the first packet in order arrives.  The handle of *)
(* the last one armed is kept; a timer whose handle was overwritten cannot *)
(* be cancelled any more and is a stray one.                               *)
(***************************************************************************)
EXTENDS AckFrame

CONSTANTS
  WaitCount,   \* DEFAULT_ACK_WAIT_COUNT
  MinPn,       \* bound: the packets that arrive, again or for the first time,
  MaxPn,       \* are numbered from MinPn to MaxPn - 1
  MaxStray     \* bound: stray timers armed together

ASSUME AckSenderConstants ==
  /\ WaitCount \in Nat \ {0}
  /\ MinPn \in Nat /\ MaxPn \in Nat /\ MaxStray \in Nat

Numbers == MinPn..(MaxPn - 1)

VARIABLES
  waiting,     \* AckSender.state: 0 is Idle, n is Waiting(n)
  acked,       \* AckSender.acked
  spans,       \* AckSender.spans
  handle,      \* AckSender.timeout_handle: "none", or its timer "armed" or "fired"
  stray,       \* armed timers whose handle was overwritten
  eliciting,   \* numbers of the ack-eliciting packets received
  unacked      \* those received since an ack frame covered them

avars == <<waiting, acked, spans, handle, stray, eliciting, unacked>>

Init ==
  /\ waiting = 0 /\ acked = 0 /\ spans = {} /\ handle = "none" /\ stray = 0
  /\ eliciting = {} /\ unacked = {}
-----------------------------------------------------------------------------
\* What the peer's Inflight makes of an ack frame: the numbers it covers are
\* acknowledged, unless decoding panics.
Covered(frame) == IF Panics(frame) THEN {} ELSE FromFrame(frame)

\* AckSender::send, of the spans m.
Send(m, pending) ==
  LET covered == Covered(ToFrame(m))
  IN unacked' = { x \in pending : ~Contains(covered, x) }

\* ctx.notify_later(Timeout), its handle stored.
Arm ==
  /\ handle' = "armed"
  /\ stray' = stray + (IF handle = "armed" THEN 1 ELSE 0)
  /\ stray' <= MaxStray

\* timeout_handle.take() and ctx.cancel_future.
Cancel == handle' = "none" /\ UNCHANGED stray

\* Mutant: the wait is never long enough.
MutantWaitsOn(pn) == pn = acked + waiting + 1

\* The next packet in order, and the wait goes on after it.
WaitsOn(pn) == pn = acked + waiting + 1 /\ waiting + 1 < WaitCount

\* The branches of Handler<Recv> for an ack-eliciting packet.
StartWait(pn) ==
  /\ waiting = 0 /\ pn = acked + 1
  /\ waiting' = 1 /\ Arm /\ unacked' = unacked \union {pn} /\ UNCHANGED acked

AckAtOnce(pn) ==
  /\ waiting = 0 /\ pn # acked + 1
  /\ acked' = IF pn >= acked + 2 THEN pn ELSE acked
  /\ Send(InsertOne(spans, pn), unacked \union {pn}) /\ UNCHANGED <<waiting, handle, stray>>

GoOnWaiting(pn) ==
  /\ waiting > 0 /\ WaitsOn(pn)
  /\ waiting' = waiting + 1 /\ unacked' = unacked \union {pn}
  /\ UNCHANGED <<acked, handle, stray>>

\* Mutant: the packet that ends the wait is not acknowledged.
MutantEndWait(pn) ==
  /\ waiting > 0 /\ ~WaitsOn(pn)
  /\ waiting' = 0 /\ Cancel /\ unacked' = unacked \union {pn} /\ UNCHANGED acked

EndWait(pn) ==
  /\ waiting > 0 /\ ~WaitsOn(pn)
  /\ waiting' = 0 /\ Cancel /\ Send(InsertOne(spans, pn), unacked \union {pn}) /\ UNCHANGED acked

RecvEliciting(pn) == StartWait(pn) \/ AckAtOnce(pn) \/ GoOnWaiting(pn) \/ EndWait(pn)

\* Handler<Recv> of a packet that holds nothing but an ack frame.
RecvAckOnly(pn) ==
  /\ acked' = IF pn > acked THEN pn ELSE acked
  /\ waiting' = 0
  /\ UNCHANGED <<handle, stray, unacked>>

\* A packet arrives, for the first time or again; its number is recorded
\* first.  Whether it elicits an ack is the packet's own.
Recv ==
  \E pn \in Numbers :
    /\ spans' = InsertOne(spans, pn)
    /\ \/ /\ pn \in eliciting \/ ~Contains(spans, pn)
          /\ eliciting' = eliciting \union {pn}
          /\ RecvEliciting(pn)
       \/ /\ pn \notin eliciting
          /\ UNCHANGED eliciting
          /\ RecvAckOnly(pn)

\* Mutant: the state stays Waiting although its timer is gone.
MutantOnTimeout ==
  /\ IF waiting > 0 THEN Send(spans, unacked) ELSE UNCHANGED unacked
  /\ waiting' = waiting
  /\ UNCHANGED <<acked, spans, eliciting>>

\* Handler<Timeout>
OnTimeout ==
  /\ IF waiting > 0 THEN Send(spans, unacked) ELSE UNCHANGED unacked
  /\ waiting' = 0
  /\ UNCHANGED <<acked, spans, eliciting>>

Timeout ==
  \/ handle = "armed" /\ handle' = "fired" /\ OnTimeout /\ UNCHANGED stray
  \/ stray > 0 /\ stray' = stray - 1 /\ OnTimeout /\ UNCHANGED handle

Next == Recv \/ Timeout

\* The runtime fires armed timers.
Spec == Init /\ [][Next]_avars /\ WF_avars(Timeout)
-----------------------------------------------------------------------------
TypeOK ==
  /\ waiting \in 0..WaitCount /\ acked \in Nat
  /\ spans \subseteq (0..MaxPn) \X (0..MaxPn)
  /\ handle \in {"none", "armed", "fired"} /\ stray \in Nat
  /\ eliciting \subseteq Elements(spans) /\ unacked \subseteq eliciting

\* No wait without its timer, whichever timers were overwritten, cancelled or
\* fired early: and a wait ends before it has WaitCount packets, unless the
\* one that begins it is enough.
WaitIsTimed == waiting > 0 => handle = "armed" /\ (waiting = 1 \/ waiting < WaitCount)

\* The two things that leave a packet out of the frames: a packet that does
\* not elicit an ack ends a wait, and a frame has room for a limited number of
\* ranges.
NoAckOnly == Elements(spans) = eliciting
RoomForAll == Cardinality(spans) <= RangesLimit + 1

\* There was room in every frame so far, in whatever order the packets came.
AlwaysRoom ==
  \A apart \in SUBSET Elements(spans) :
    (\A x \in apart : x + 1 \notin apart) => Cardinality(apart) <= RangesLimit + 1

\* As long as every packet received elicits an ack, the state counts exactly
\* the packets that no ack frame covers yet: none when it is Idle, whatever
\* was lost, reordered or repeated.  That there is room now is not enough: a
\* packet that was left out stays so when the holes above it are filled.
StateCountsUnacked == NoAckOnly /\ AlwaysRoom => Cardinality(unacked) = waiting

\* The peer decodes from a frame the newest ranges, RangesLimit of them after
\* the first, and never takes a number for acknowledged that did not arrive.
Newest(m) == { p \in m : Cardinality(Newer(m, p)) <= RangesLimit }
DecodesNewest == spans # {} => Covered(ToFrame(spans)) = Newest(spans)

\* Every ack-eliciting packet is acknowledged in the end, if nothing but such
\* packets arrives and there are few holes.
AckedWithoutAckOnly ==
  \A pn \in Numbers : (pn \in unacked) ~> (pn \notin unacked \/ ~NoAckOnly \/ ~RoomForAll)

\* Every ack-eliciting packet is acknowledged in the end: the timer was armed
\* so that it is.
AckedInTheEnd == \A pn \in Numbers : (pn \in unacked) ~> (pn \notin unacked)

\* A set of packet numbers survives its conversion to a frame and back.
SurvivesConversion ==
  Cardinality(spans) \in 1..RangesLimit =>
    ~Panics(ToFrame(spans)) /\ FromFrame(ToFrame(spans)) = spans
=============================================================================
