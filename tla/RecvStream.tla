----------------------------- MODULE RecvStream -----------------------------
(***************************************************************************)
(* One receiving stream: the actor RecvStreamInner                         *)
(* (rrdt-lib/src/connection/stream/recv_stream.rs), the RecvWindow it owns *)
(* (.../window/recv_window.rs) and that window's buffer (window_buf.rs).   *)
(*                                                                         *)
(* The buffer is zero-initialised and grows, shrinks and is resized on its *)
(* own, apart from the RangeSet that says which offsets were received:     *)
(* `filled` is the set of offsets whose byte in the buffer is the peer's.  *)
(***************************************************************************)
EXTENDS ByteRanges, Sequences

CONSTANTS
  MaxWindow,    \* MAX_WINDOW_SIZE
  ReadLens,     \* lengths a Read message may ask for
  MaxReaders,   \* bound: reads of the application that may wait together
  MaxUpdates,   \* bound: Update messages queued in the mailbox
  MaxTotal      \* bound: length of the stream the peer sends

ASSUME RecvConstants ==
  /\ MaxWindow \in Nat \ {0}
  /\ ReadLens \subseteq Nat
  /\ MaxReaders \in Nat \ {0}
  /\ MaxUpdates \in Nat
  /\ MaxTotal \in Nat

NoFin == -1

VARIABLES
  rstate,     \* RecvStreamInner.state
  rclosing,   \* a Close message waits for its answer
  pending,    \* lengths of the waiting reads, the oldest first
  recv,       \* RecvWindow.recv
  consumed,   \* RecvWindow.buf.start
  bufLen,     \* RecvWindow.buf.len()
  filled,     \* offsets in the buffer that hold data of the peer
  start,      \* RecvWindow.start
  finOffset,  \* RecvWindow.fin_offset
  updates,    \* Update messages in the actor's mailbox
  answered    \* the reads answered by the last step: end of file or not, and
              \* the offsets returned whose byte is not the peer's

window == <<recv, consumed, bufLen, filled, start, finOffset>>
rvars  == <<rstate, rclosing, pending, window, updates, answered>>

\* ResetRecvd and ResetRead are declared by the code and never entered.
RecvStates == {"Recv", "SizeKnown", "DataRecvd", "DataRead"}

Init ==
  /\ rstate = "Recv" /\ rclosing = FALSE /\ pending = <<>>
  /\ recv = {} /\ consumed = 0 /\ bufLen = MaxWindow /\ filled = {}
  /\ start = 0 /\ finOffset = NoFin /\ updates = 0 /\ answered = <<>>

\* Mutant: a limit of two windows.
MutantMaxStreamData == start + 2 * MaxWindow

\* RecvWindow::max_stream_data: the limit announced last, or the initial one.
MaxStreamData == start + MaxWindow
-----------------------------------------------------------------------------
(***************************************************************************)
(* RecvWindow::read is answered from the run of received offsets that      *)
(* begins at the read position, and not at all without one.                *)
(***************************************************************************)
ReadableEnd(got) ==
  IF consumed \in got THEN CHOOSE end \in { x + 1 : x \in got } :
                             Span(consumed, end) \subseteq got /\ end \notin got
  ELSE consumed

\* Mutant: one read is answered per call instead of as many as possible.
MutantProgress(queue, end) ==
  { at \in UNION { [1..(n + 1) -> consumed..end] : n \in 0..LesserOf(1, Len(queue)) } :
      /\ at[1] = consumed
      /\ Len(at) = 1 => queue = <<>> \/ consumed = end
      /\ Len(at) = 2 => consumed < end /\ at[2] = LesserOf(consumed + queue[1], end) }

\* The loop of handle_pending, oldest read first: `at` lists the read
\* positions, at[1] = consumed and at[i + 1] after the i-th read.  A read is
\* answered while something is readable; the first that is not stays.
Progress(queue, end) ==
  { at \in UNION { [1..(n + 1) -> consumed..end] : n \in 0..Len(queue) } :
      LET n == Len(at) - 1
      IN /\ at[1] = consumed
         /\ \A i \in 1..n : at[i] < end /\ at[i + 1] = LesserOf(at[i] + queue[i], end)
         /\ n = Len(queue) \/ at[n + 1] = end }

\* handle_pending, after the window received `got` with fin offset `fin` and
\* the state became `state`: answers the reads of `queue` it can, consumes
\* what they took, and closes the stream when all of it was read.
HandlePending(state, queue, got, have, fin, len) ==
  IF state = "DataRead"
  THEN /\ answered' = [i \in 1..Len(queue) |-> [eof |-> TRUE, zeros |-> {}]]
       /\ pending' = <<>> /\ rstate' = state
       /\ recv' = got /\ filled' = have /\ bufLen' = len
       /\ UNCHANGED <<rclosing, consumed>>
  ELSE \E at \in Progress(queue, ReadableEnd(got)) :
         LET n == Len(at) - 1
             eaten == Span(consumed, at[n + 1])
             done == state = "DataRecvd" /\ fin = at[n + 1]
         IN /\ answered' = [i \in 1..n |-> [eof |-> FALSE, zeros |-> Span(at[i], at[i + 1]) \ have]]
            /\ pending' = SubSeq(queue, n + 1, Len(queue))
            /\ consumed' = at[n + 1]
            /\ recv' = got \ eaten /\ filled' = have \ eaten
            /\ bufLen' = len - (at[n + 1] - consumed)
            /\ rstate' = IF done THEN "DataRead" ELSE state
            /\ rclosing' = (rclosing /\ ~done)

\* RecvWindow::should_update, and the ctx.notify(Update) it guards.
ShouldUpdate(pos) == pos > start + MaxWindow \div 2
\* Mutant: the Update message is never sent.
MutantNotifyUpdate == updates' = updates

NotifyUpdate == updates' = updates + (IF ShouldUpdate(consumed') THEN 1 ELSE 0)
-----------------------------------------------------------------------------
(***************************************************************************)
(* The handlers of RecvStreamInner.                                        *)
(***************************************************************************)

\* Handler<Read>
Read(len) ==
  /\ HandlePending(rstate, Append(pending, len), recv, filled, finOffset, bufLen)
  /\ NotifyUpdate
  /\ UNCHANGED <<start, finOffset>>

\* Mutant: chunks below the read position are not refused.
MutantDropped(lo, hi) == lo >= hi

\* RecvWindow::write drops an empty chunk and one that begins below the read
\* position, whatever part of it lies beyond.
Dropped(lo, hi) == lo >= hi \/ lo < consumed

\* Mutant: the fin alone is taken for the end of the data.
MutantRecvd(got, fin) == fin # NoFin

\* RecvWindow::recvd: exactly what is left to read has been received.
Recvd(got, fin) == fin # NoFin /\ got # {} /\ got = Span(consumed, fin)

\* The state after a chunk, with or without fin, reached the window.
AfterWrite(fin, all) ==
  CASE rstate = "Recv" /\ fin      -> IF all THEN "DataRecvd" ELSE "SizeKnown"
    [] rstate = "SizeKnown" /\ all -> "DataRecvd"
    [] OTHER                       -> rstate

\* Handler<Write>: an error without effect once everything was received.
Write(lo, hi, fin) ==
  IF rstate \in {"DataRecvd", "DataRead"}
  THEN answered' = <<>> /\ UNCHANGED <<rstate, rclosing, pending, window, updates>>
  ELSE LET chunk == IF Dropped(lo, hi) THEN {} ELSE Span(lo, hi)
           got   == recv \union chunk
           end   == IF fin /\ chunk # {} THEN hi ELSE finOffset
           need  == IF chunk = {} \/ hi - consumed <= bufLen THEN bufLen ELSE hi - consumed
       IN /\ finOffset' = end
          /\ HandlePending(AfterWrite(fin, Recvd(got, end)), pending,
                           got, filled \union chunk, end, need)
          /\ NotifyUpdate
          /\ UNCHANGED start

\* Handler<Update>, its window part: WindowBuf::resize cuts or zero-fills the
\* buffer to the window size.  LostBcast of a max data frame sends Update too.
Update ==
  /\ start' = consumed
  /\ bufLen' = MaxWindow
  /\ filled' = filled \intersect Span(consumed, consumed + MaxWindow)
  /\ answered' = <<>>
  /\ UNCHANGED <<rstate, rclosing, pending, recv, consumed, finOffset>>

\* Handler<Update> announces the new limit only while more data may come.
Announces == rstate = "Recv"

\* Handler<Close>.  A second one overwrites the answer that is kept (line
\* 196): `rclosing` is about the caller that came last.
Close ==
  /\ rclosing' = (rstate # "DataRead")
  /\ answered' = <<>>
  /\ UNCHANGED <<rstate, pending, window, updates>>
-----------------------------------------------------------------------------
(***************************************************************************)
(* The stream among its callers.  A peer that respects flow control sends  *)
(* chunks of its MaxTotal bytes in any order and with repetitions, cut     *)
(* anywhere; the fin may come with any chunk that ends at the last byte,   *)
(* and may be missing from one sent before the peer closed the stream.     *)
(***************************************************************************)
AppRead ==
  /\ Len(pending) < MaxReaders /\ updates < MaxUpdates
  /\ \E len \in ReadLens : Read(len)

PeerData ==
  /\ updates < MaxUpdates
  /\ \E lo, hi \in 0..LesserOf(MaxTotal, MaxStreamData) : \E fin \in BOOLEAN :
       /\ lo <= hi
       /\ fin => hi = MaxTotal
       /\ Write(lo, hi, fin)

RunUpdate == updates > 0 /\ Update /\ updates' = updates - 1

LostUpdate == Update /\ UNCHANGED updates

AppClose == Close

Next ==
  \/ AppRead \/ PeerData \/ RunUpdate \/ LostUpdate \/ AppClose

\* The mailbox of an actor is drained: a queued Update runs.
Spec == Init /\ [][Next]_rvars /\ WF_rvars(RunUpdate)
-----------------------------------------------------------------------------
\* Types; received offsets lie at or above the read position, which is what
\* the index arithmetic of window_buf.rs asserts, and with a peer that respects
\* the announced limit the buffer never outgrows the window, however chunks
\* arrive and however late Update runs.
TypeOK ==
  /\ rstate \in RecvStates /\ rclosing \in BOOLEAN
  /\ pending \in Seq(ReadLens)
  /\ consumed \in Nat /\ bufLen \in 0..MaxWindow
  /\ start \in 0..consumed
  /\ recv \subseteq Nat /\ filled \subseteq Nat
  /\ \A x \in recv : consumed <= x
  /\ finOffset \in Nat \union {NoFin}
  /\ updates \in Nat

\* What is marked received is in the buffer and is the peer's data: no resize
\* cuts it off or puts zeros in its place, so no read returns a byte that the
\* peer did not send.
OnlyPeerBytes ==
  /\ recv \subseteq filled
  /\ filled \subseteq Span(consumed, consumed + bufLen)
  /\ \A i \in DOMAIN answered : answered[i].zeros = {}

\* A stream is complete only when every byte up to the peer's last one was
\* received, it ends only when the application has read all of them, an end
\* of file is reported only then, and then no caller of close still waits.
WholeStream ==
  /\ rstate = "DataRecvd" => recv = Span(consumed, MaxTotal)
  /\ rstate = "DataRead" => consumed = MaxTotal /\ recv = {} /\ ~rclosing
  /\ \A i \in DOMAIN answered : answered[i].eof => consumed = MaxTotal

\* No read waits behind a byte that it could return.
NoneBehindData == pending # <<>> => consumed \notin recv

\* The read that takes the last byte is not among those that wait.
OneAnswered == rstate = "DataRead" => Len(pending) < MaxReaders

\* Whatever order chunks and reads come in, no read is left behind data that it
\* could return, and of the reads that wait together at least one is answered
\* before the stream ends: a single reader is never left behind the end.
\* Several may be: when the oldest takes the last byte, handle_pending leaves
\* the younger ones in the queue (lines 70-80), and only another Read answers
\* them, with the end of the file.
ParkedReads == NoneBehindData /\ OneAnswered

\* When the application has read past half of the announced window, the
\* window is moved: a sender blocked by flow control is not forgotten.
WindowMoves == ShouldUpdate(consumed) ~> ~ShouldUpdate(consumed)

=============================================================================
