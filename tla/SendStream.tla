----------------------------- MODULE SendStream -----------------------------
(***************************************************************************)
(* One sending stream: the actor SendStreamInner                           *)
(* (rrdt-lib/src/connection/stream/send_stream.rs) and the SendWindow it   *)
(* owns (.../stream/window/send_window.rs).  Bytes are identified by their *)
(* offset; the window's buffer always holds the bytes acked..wroteOffset.  *)
(*                                                                         *)
(* A frame that Read hands out is outstanding until the connection tells   *)
(* the stream what became of it.  Inflight registers one packet per packet *)
(* number and resolves it exactly once: either its ack arrives first       *)
(* (AckedBcast) or its retransmission timer fires first (LostBcast), in    *)
(* any order between packets.  Packetizer may have cut the frame in two.   *)
(***************************************************************************)
EXTENDS ByteRanges

CONSTANTS
  MaxWindow,   \* MAX_WINDOW_SIZE: the initial flow control limit
  Lens,        \* lengths a Write or a Read message may carry
  MaxBytes,    \* bound: bytes the application writes to the stream
  Limits       \* flow control limits the peer may announce

ASSUME SendConstants ==
  /\ MaxWindow \in Nat \ {0}
  /\ Lens \subseteq Nat
  /\ MaxBytes \in Nat
  /\ Limits \subseteq Nat

VARIABLES
  sstate,       \* SendStreamInner.state
  closing,      \* a Close message waits for its answer
  wrote,        \* SendWindow.wrote
  acked,        \* SendWindow.buf.start: everything below is acknowledged
  maxData,      \* SendWindow.max_data
  sentOffset,   \* SendWindow.sent_offset
  wroteOffset,  \* SendWindow.wrote_offset
  acks,         \* SendWindow.acks
  retransmits,  \* SendWindow.retransmits
  outstanding   \* frames read and neither acknowledged nor declared lost

window == <<acked, maxData, sentOffset, wroteOffset, acks, retransmits>>
svars  == <<sstate, closing, wrote, window>>
vars   == <<svars, outstanding>>

\* ResetSent and ResetRecvd are declared by the code and never entered.
SendStates == {"Ready", "Send", "DataSent", "DataRecvd"}
Frames     == [lo : Nat, hi : Nat, fin : BOOLEAN]
Bytes(f)   == Span(f.lo, f.hi)

Init ==
  /\ sstate = "Ready" /\ closing = FALSE /\ wrote = FALSE
  /\ acked = 0 /\ maxData = MaxWindow /\ sentOffset = 0 /\ wroteOffset = 0
  /\ acks = {} /\ retransmits = {} /\ outstanding = {}
-----------------------------------------------------------------------------
(***************************************************************************)
(* The window.                                                             *)
(***************************************************************************)

\* Mutant: the flow control limit is forgotten.
MutantAvailable == wroteOffset - sentOffset

\* SendWindow::available
Available == LesserOf(maxData, wroteOffset) - sentOffset

\* Mutant: every chunk read after the end was declared carries the fin.
MutantFin(hi) == wrote

\* SendWindow::fin, on the chunk that ends at hi.
Fin(hi) == wrote /\ hi = wroteOffset

Chunk(lo, hi) == [lo |-> lo, hi |-> hi, fin |-> Fin(hi)]

\* SendWindow::read_retransmit: the frame it returns, if any.
RetransmitChunk(len) ==
  { Chunk(run[1], run[1] + LesserOf(len, run[2] - run[1])) : run \in FirstRun(retransmits) }

\* The part of SendWindow::read after read_retransmit found nothing.
FreshChunk(len) ==
  IF retransmits = {} /\ Available > 0
  THEN { Chunk(sentOffset, sentOffset + LesserOf(len, Available)) }
  ELSE {}
-----------------------------------------------------------------------------
(***************************************************************************)
(* The handlers of SendStreamInner.                                        *)
(***************************************************************************)

\* Handler<Write>.  The check of SendStreamInner.wrote is dead: nothing sets
\* that field, so a late write reaches the window, which accepts 0 bytes.
Write(len) ==
  /\ wroteOffset' = IF wrote THEN wroteOffset ELSE wroteOffset + len
  /\ UNCHANGED <<sstate, closing, wrote, acked, maxData, sentOffset, acks, retransmits>>

\* Handler<Wrote>
Wrote ==
  /\ wrote' = TRUE
  /\ UNCHANGED <<sstate, closing, window>>

\* Handler<Read> when it returns frame f.  Once the fin was handed out only
\* lost data is read again.
ReadResult(len) ==
  CASE sstate \in {"Ready", "Send"} -> RetransmitChunk(len) \union FreshChunk(len)
    [] sstate = "DataSent"          -> RetransmitChunk(len)
    [] OTHER                        -> {}

\* Mutant: the range read again is left in retransmits.
MutantRead(f) ==
  /\ IF retransmits # {} THEN UNCHANGED sentOffset ELSE sentOffset' = f.hi
  /\ sstate' = IF sstate = "DataSent" \/ f.fin THEN "DataSent" ELSE "Send"
  /\ UNCHANGED <<closing, wrote, acked, maxData, wroteOffset, acks, retransmits>>

Read(f) ==
  /\ IF retransmits # {}
     THEN retransmits' = retransmits \ Bytes(f) /\ UNCHANGED sentOffset
     ELSE sentOffset' = f.hi /\ UNCHANGED retransmits
  /\ sstate' = IF sstate = "DataSent" \/ f.fin THEN "DataSent" ELSE "Send"
  /\ UNCHANGED <<closing, wrote, acked, maxData, wroteOffset, acks>>

\* Handler<MaxData>
MaxData(limit) ==
  /\ maxData' = IF limit <= maxData THEN maxData ELSE limit
  /\ UNCHANGED <<sstate, closing, wrote, acked, sentOffset, wroteOffset, acks, retransmits>>

\* SendWindow::ack returns early for an empty range, for one that begins
\* below the acknowledged prefix and for one already marked lost.
Ignored(lo, hi) == lo >= hi \/ lo < acked
IgnoredAck(lo, hi) == Ignored(lo, hi) \/ Span(lo, hi) \subseteq retransmits

\* Mutant: only the range just acknowledged leaves the buffer, not the run
\* it completes.
MutantWindowAck(lo, hi) ==
  IF IgnoredAck(lo, hi)
  THEN UNCHANGED <<acks, acked>>
  ELSE IF lo = acked
       THEN acked' = hi /\ UNCHANGED acks
       ELSE acks' = acks \union Span(lo, hi) /\ UNCHANGED acked

\* SendWindow::ack: the range joins acks, and a first run that starts at the
\* buffer's start leaves the buffer.
WindowAck(lo, hi) ==
  LET all == acks \union Span(lo, hi)
  IN IF IgnoredAck(lo, hi)
     THEN UNCHANGED <<acks, acked>>
     ELSE \E run \in FirstRun(all) :
            IF run[1] = acked
            THEN acks' = all \ Span(run[1], run[2]) /\ acked' = run[2]
            ELSE acks' = all /\ acked' = acked

\* Mutant: done() tested on what was sent instead of on what is acknowledged.
MutantAck(lo, hi) ==
  /\ WindowAck(lo, hi)
  /\ IF sstate = "DataSent" /\ sentOffset = wroteOffset
     THEN sstate' = "DataRecvd" /\ closing' = FALSE
     ELSE UNCHANGED <<sstate, closing>>
  /\ UNCHANGED <<wrote, maxData, sentOffset, wroteOffset, retransmits>>

\* Handler<Ack>
Ack(lo, hi) ==
  /\ WindowAck(lo, hi)
  /\ IF sstate = "DataSent" /\ acked' = wroteOffset
     THEN sstate' = "DataRecvd" /\ closing' = FALSE
     ELSE UNCHANGED <<sstate, closing>>
  /\ UNCHANGED <<wrote, maxData, sentOffset, wroteOffset, retransmits>>

\* Handler<Retransmit>
Retransmit(lo, hi) ==
  /\ retransmits' = IF Ignored(lo, hi) THEN retransmits ELSE retransmits \union Span(lo, hi)
  /\ UNCHANGED <<sstate, closing, wrote, acked, maxData, sentOffset, wroteOffset, acks>>

\* Handler<Close>: answered at once when everything is acknowledged.  A second
\* one overwrites the answer that is kept (line 168), so `closing` is about the
\* caller that came last; what becomes of an earlier one is not followed.
Close ==
  /\ closing' = (sstate # "DataRecvd")
  /\ UNCHANGED <<sstate, wrote, window>>
-----------------------------------------------------------------------------
(***************************************************************************)
(* The stream among its callers: the application, the tick of              *)
(* StreamsInner, Packetizer and the broadcasts of Inflight.                *)
(***************************************************************************)
AppWrite ==
  \E len \in Lens : wroteOffset + len <= MaxBytes /\ Write(len) /\ UNCHANGED outstanding

AppWrote == ~wrote /\ Wrote /\ UNCHANGED outstanding

AppClose == Close /\ UNCHANGED outstanding

ReadFrame(len) ==
  \E f \in ReadResult(len) : Read(f) /\ outstanding' = outstanding \union {f}

Tick == \E len \in Lens : ReadFrame(len)

\* Mutant: the head keeps the fin and the tail loses it.
MutantSplit(f, mid) ==
  /\ f.lo < mid /\ mid < f.hi
  /\ outstanding' = (outstanding \ {f}) \union
        { [f EXCEPT !.hi = mid], [f EXCEPT !.lo = mid, !.fin = FALSE] }
  /\ UNCHANGED svars

\* StreamDataFrame::split_to inside Packetizer: the head never keeps the fin.
Split(f, mid) ==
  /\ f.lo < mid /\ mid < f.hi
  /\ outstanding' = (outstanding \ {f}) \union
        { [lo |-> f.lo, hi |-> mid, fin |-> FALSE], [f EXCEPT !.lo = mid] }
  /\ UNCHANGED svars

Packetize == \E f \in outstanding : \E mid \in Bytes(f) : Split(f, mid)

PeerLimit == \E limit \in Limits : MaxData(limit) /\ UNCHANGED outstanding

AckFrame(f)  == Ack(f.lo, f.hi) /\ outstanding' = outstanding \ {f}
LoseFrame(f) == Retransmit(f.lo, f.hi) /\ outstanding' = outstanding \ {f}

FrameAcked == \E f \in outstanding : AckFrame(f)

FrameLost == \E f \in outstanding : LoseFrame(f)

Next ==
  \/ AppWrite \/ AppWrote \/ AppClose
  \/ Tick \/ Packetize
  \/ PeerLimit \/ FrameAcked \/ FrameLost

Spec == Init /\ [][Next]_vars

(***************************************************************************)
(* What the scheduler guarantees: the tick runs every millisecond with a   *)
(* positive budget, an outstanding frame is resolved, by its ack or by its *)
(* timer, and data that is sent again and again is acknowledged at last.   *)
(***************************************************************************)
FairSpec ==
  /\ Spec
  /\ WF_vars(\E len \in Lens \ {0} : ReadFrame(len))
  /\ WF_vars(FrameAcked \/ FrameLost)
  /\ SF_vars(\E f \in outstanding : Bytes(f) # {} /\ AckFrame(f))
-----------------------------------------------------------------------------
\* Types, and the order of the offsets: acknowledged, sent, written, and
\* nothing sent past the limit the peer announced.
TypeOK ==
  /\ sstate \in SendStates
  /\ closing \in BOOLEAN /\ wrote \in BOOLEAN
  /\ maxData \in Nat /\ wroteOffset \in Nat
  /\ sentOffset \in 0..LesserOf(maxData, wroteOffset)
  /\ acked \in 0..sentOffset
  /\ acks \subseteq Nat /\ retransmits \subseteq Nat
  /\ outstanding \subseteq Frames

\* Nothing sent is forgotten or tracked twice: every offset between the
\* acknowledged prefix and sent_offset is in exactly one of acks, retransmits
\* and the outstanding frames.  Losing an offset would hang the stream,
\* tracking one twice would make read_retransmit index below the buffer's
\* start (the assertions of window_buf.rs).
Conservation ==
  /\ acks \intersect retransmits = {}
  /\ \A f \in outstanding : Bytes(f) \intersect (acks \union retransmits) = {}
  /\ \A f, g \in outstanding : f # g => Bytes(f) \intersect Bytes(g) = {}
  /\ acks \union retransmits \union UNION { Bytes(f) : f \in outstanding }
       = Span(acked, sentOffset)

\* The acknowledged prefix is as long as the acks allow, however they were
\* reordered: otherwise SendWindow::done would never become true.
PrefixMaximal == acked \notin acks

\* Once the fin was handed out, everything written was sent, the only frames
\* that end at the last byte carry the fin (whatever was lost, read again or
\* cut in two since), and no frame carries it too early.
FinRidesLastByte ==
  /\ \A f \in outstanding : f.fin => wrote /\ f.hi = wroteOffset
  /\ sstate \in {"DataSent", "DataRecvd"} =>
       /\ wrote /\ sentOffset = wroteOffset
       /\ \A f \in outstanding : Bytes(f) # {} /\ f.hi = wroteOffset => f.fin

\* `close` is answered only when every byte written was acknowledged, and no
\* caller is left waiting on a stream that reached its final state.
ClosedWhenDelivered ==
  sstate = "DataRecvd" =>
    /\ acked = wroteOffset /\ retransmits = {} /\ acks = {} /\ ~closing
    /\ \A f \in outstanding : Bytes(f) = {}

\* A caller of `close` waits for the stream to close; it gets its answer when
\* the application declared that all data is written and the peer's limit
\* admits it.
CloseCompletes ==
  (closing /\ wrote /\ 0 < wroteOffset /\ wroteOffset <= maxData) ~> ~closing

\* The same when the declaration came before the last byte was first read:
\* then some frame carries the fin, and no loss or reordering stops the close.
TimelyCloseCompletes ==
  (closing /\ wrote /\ sentOffset < wroteOffset /\ wroteOffset <= maxData) ~> ~closing

=============================================================================
