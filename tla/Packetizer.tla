----------------------------- MODULE Packetizer -----------------------------
(***************************************************************************)
(* rrdt-lib/src/connection/packetizer.rs: the actor that puts frames into  *)
(* packets.  A packet is sent when the next frame does not fit, when less  *)
(* than FullBelow bytes remain, when it holds an ack, or when a timer      *)
(* fires that was armed for its first frame.                               *)
(*                                                                         *)
(* A handler takes the actor from one state to the next; the operators     *)
(* below do so for the record `pz`, so that the loop that cuts a long      *)
(* frame is part of the step:                                              *)
(*   frames   the frames of `current`           room   its remaining()     *)
(*   num      its number, packet_num - 1        timers armed Timeouts:     *)
(*   out      packets given to Sender           timer_handle is never set, *)
(*                                              so none is ever cancelled  *)
(***************************************************************************)
EXTENDS Integers, Sequences

CONSTANTS
  PacketRoom,   \* MAX_PACKET_SIZE less the packet header
  DataHeader,   \* StreamDataFrame::min_len
  FullBelow,    \* the bytes below which a packet counts as full
  LimitSize,    \* size of a max_stream_data frame
  AckSize       \* size of an ack frame

ASSUME PacketizerConstants ==
  /\ PacketRoom \in Nat /\ DataHeader \in Nat /\ FullBelow \in Nat
  /\ LimitSize \in Nat /\ AckSize \in Nat
  /\ DataHeader < FullBelow /\ FullBelow <= PacketRoom
  /\ LimitSize <= PacketRoom /\ AckSize <= PacketRoom

Data(lo, hi) == [kind |-> "data", lo |-> lo, hi |-> hi]
Empty(id)    == [kind |-> "empty", lo |-> id, hi |-> id + 1]  \* a stream frame without data
Limit(id)    == [kind |-> "limit", lo |-> id, hi |-> id + 1]
AckOf(num)   == [kind |-> "ack", lo |-> num, hi |-> num + 1]

\* Frame::len
Size(f) ==
  CASE f.kind = "data"  -> DataHeader + (f.hi - f.lo)
    [] f.kind = "empty" -> DataHeader
    [] f.kind = "limit" -> LimitSize
    [] f.kind = "ack"   -> AckSize

\* Packet::is_ack_eliciting
Eliciting(frames) == \E i \in DOMAIN frames : frames[i].kind # "ack"

NewPacketizer == [frames |-> <<>>, room |-> PacketRoom, num |-> 0, timers |-> 0, out |-> <<>>]

\* Mutant: the next packet gets the same number.
MutantSameNumber(pz) ==
  IF pz.frames = <<>> THEN pz
  ELSE [pz EXCEPT !.frames = <<>>, !.room = PacketRoom,
                  !.out = Append(pz.out, [num |-> pz.num, frames |-> pz.frames])]

\* Mutant: the packet goes out and its frames stay.
MutantFlush(pz) ==
  IF pz.frames = <<>> THEN pz
  ELSE [pz EXCEPT !.room = PacketRoom, !.num = pz.num + 1,
                  !.out = Append(pz.out, [num |-> pz.num, frames |-> pz.frames])]

\* Packetizer::send
Flush(pz) ==
  IF pz.frames = <<>> THEN pz
  ELSE [pz EXCEPT !.frames = <<>>, !.room = PacketRoom, !.num = pz.num + 1,
                  !.out = Append(pz.out, [num |-> pz.num, frames |-> pz.frames])]

\* The middle of Packetizer::insert: a frame in a new packet arms a timer.
Push(pz, f) ==
  [pz EXCEPT !.frames = Append(pz.frames, f), !.room = pz.room - Size(f),
             !.timers = IF pz.frames = <<>> THEN pz.timers + 1 ELSE pz.timers]

\* Mutant: a packet that has no room for the frame takes it all the same.
MutantInsert(pz, f) ==
  LET pushed == Push(pz, f)
  IN IF pushed.room < FullBelow THEN Flush(pushed) ELSE pushed

\* Packetizer::insert
Insert(pz, f) ==
  LET pushed == Push(IF Size(f) > pz.room THEN Flush(pz) ELSE pz, f)
  IN IF pushed.room < FullBelow THEN Flush(pushed) ELSE pushed

\* A turn of the loop over a stream frame: while a part of it fits in the
\* packet, and not all of it, that part is cut off and inserted.
CutOff(c) ==
  LET mid == c.rest.lo + (c.pz.room - DataHeader)
  IN IF DataHeader < c.pz.room /\ c.pz.room < Size(c.rest)
     THEN [pz |-> Insert(c.pz, Data(c.rest.lo, mid)), rest |-> Data(mid, c.rest.hi)]
     ELSE c

\* Handler<Send> of a stream frame: every turn of the loop takes some bytes.
InsertData(pz, f) ==
  LET after[i \in 0..(f.hi - f.lo)] ==
        IF i = 0 THEN [pz |-> pz, rest |-> f] ELSE CutOff(after[i - 1])
      end == after[f.hi - f.lo]
  IN Insert(end.pz, end.rest)

\* Handler<Send>.  The loop cuts no frame that is its header alone.
SendFrame(pz, f) ==
  CASE f.kind = "data"  -> InsertData(pz, f)
    [] f.kind \in {"empty", "limit"} -> Insert(pz, f)
    [] f.kind = "ack"   -> Flush(Insert(pz, f))

\* Handler<Timeout>
OnTimeout(pz) == Flush([pz EXCEPT !.timers = pz.timers - 1])

=============================================================================
