-------------------------- MODULE RecvStreamProofs --------------------------
(***************************************************************************)
(* The safety properties of RecvStream hold for every window size, every   *)
(* length of the stream and every way the peer cuts it into chunks.        *)
(*                                                                         *)
(* The lemmas about the handlers know the peer only by what it sends       *)
(* (Admissible), not by the length of its stream, so that they hold as     *)
(* well for the stream at the other end of a connection.                   *)
(***************************************************************************)
EXTENDS RecvStream, ByteRangesProofs, SequenceTheorems

\* What is known of the peer's last byte agrees with what was received: no
\* byte lies beyond it, and the final states are entered when nothing before
\* it is missing.
EndOfStream ==
  /\ finOffset # NoFin => consumed <= finOffset /\ \A x \in recv : x < finOffset
  /\ rstate = "DataRecvd" => finOffset # NoFin /\ recv = Span(consumed, finOffset)
  /\ rstate = "DataRead" => /\ finOffset # NoFin /\ consumed = finOffset
                            /\ recv = {} /\ ~rclosing
  /\ \A i \in DOMAIN answered : answered[i].eof => rstate = "DataRead"

\* The inductive invariant of the handlers.
StreamInv == TypeOK /\ OnlyPeerBytes /\ EndOfStream /\ NoneBehindData

\* The stream is the peer's, of MaxTotal bytes.
WithinTotal ==
  /\ finOffset \in {NoFin, MaxTotal} /\ consumed <= MaxTotal
  /\ \A x \in recv : x < MaxTotal

\* The reads that wait.  DataRecvd is left with the last byte, so the step that
\* ends the stream answers a read.
Waiting ==
  /\ Len(pending) <= MaxReaders /\ OneAnswered
  /\ rstate = "DataRecvd" => consumed # finOffset

\* The inductive invariant.
Inv == StreamInv /\ WithinTotal /\ Waiting

\* A chunk that a peer may send: within the announced limit and the known end
\* of the stream, and with the fin only on the last byte.
Admissible(lo, hi, fin) ==
  /\ lo \in Nat /\ hi \in Nat /\ fin \in BOOLEAN
  /\ lo <= hi /\ hi <= MaxStreamData
  /\ finOffset # NoFin => hi <= finOffset
  /\ fin => /\ finOffset \in {NoFin, hi} /\ consumed <= hi
            /\ \A x \in recv : x < hi

-----------------------------------------------------------------------------
\* Where the readable data ends: at the first offset that is missing.
LEMMA ReadableEndFacts ==
  ASSUME consumed \in Nat, NEW all \in SUBSET Nat, NEW top \in Nat,
         \A x \in all : consumed <= x /\ x < top
  PROVE  /\ ReadableEnd(all) \in Nat /\ consumed <= ReadableEnd(all)
         /\ Span(consumed, ReadableEnd(all)) \subseteq all
         /\ ReadableEnd(all) \notin all
         /\ all # {} => ReadableEnd(all) <= top
  <1>1. CASE consumed \in all
    <2>1. \E end \in { x + 1 : x \in all } : Span(consumed, end) \subseteq all /\ end \notin all
      BY <1>1, RunEnds
    <2>2. /\ ReadableEnd(all) \in { x + 1 : x \in all }
          /\ Span(consumed, ReadableEnd(all)) \subseteq all /\ ReadableEnd(all) \notin all
      BY <1>1, <2>1 DEF ReadableEnd
    <2> QED
      BY <2>2
  <1>2. CASE consumed \notin all
    <2>1. ReadableEnd(all) = consumed
      BY <1>2 DEF ReadableEnd
    <2>2. Span(consumed, consumed) = {}
      BY DEF Span
    <2>3. all # {} => consumed <= top
      <3>1. SUFFICES ASSUME NEW x \in all PROVE consumed <= top
        OBVIOUS
      <3>2. x \in Nat /\ consumed <= x /\ x < top
        OBVIOUS
      <3> QED
        BY <3>2
    <2> QED
      BY <1>2, <2>1, <2>2, <2>3
  <1> QED
    BY <1>1, <1>2

\* The read positions of handle_pending: they rise to at most `end`, and a
\* read is left over only when everything readable was taken.
LEMMA ProgressFacts ==
  ASSUME consumed \in Nat, NEW queue \in Seq(ReadLens), NEW end \in Nat, consumed <= end,
         NEW at \in Progress(queue, end)
  PROVE  /\ Len(at) - 1 \in 0..Len(queue) /\ at[Len(at)] \in consumed..end
         /\ \A i \in 1..(Len(at) - 1) : at[i] \in consumed..end /\ at[i + 1] \in consumed..end
         /\ Len(at) - 1 < Len(queue) => at[Len(at)] = end
  <1>1. PICK n \in 0..Len(queue) : at \in [1..(n + 1) -> consumed..end]
    BY DEF Progress
  <1>2. Len(queue) \in Nat
    BY LenProperties
  <1>3. Len(at) = n + 1
    BY <1>1, <1>2
  <1>4. \A i \in 1..(n + 1) : at[i] \in consumed..end
    BY <1>1
  <1>5. (Len(at) - 1 = Len(queue)) \/ (at[(Len(at) - 1) + 1] = end)
    BY DEF Progress
  <1> QED
    BY <1>2, <1>3, <1>4, <1>5

\* A step takes nothing but these bytes into the window, and hands out nothing
\* but these, in order.
Takes(bytes) ==
  /\ consumed <= consumed' /\ Span(consumed, consumed') \subseteq bytes
  /\ recv' \subseteq bytes

\* A step forgets none of these bytes: each is in the window or was read.
Keeps(bytes) == \A x \in bytes : x \in recv' \/ x < consumed'

\* handle_pending keeps the invariant, for any state, queue and window that
\* the handler has prepared; only received data is consumed.
LEMMA HandlePendingInv ==
  ASSUME consumed \in Nat, start \in 0..consumed, rclosing \in BOOLEAN,
         NEW state \in RecvStates, NEW queue \in Seq(ReadLens),
         NEW all \in SUBSET Nat, NEW have \in SUBSET Nat,
         NEW fin \in Nat \union {NoFin}, NEW len \in 0..MaxWindow,
         all \subseteq have, have \subseteq Span(consumed, consumed + len),
         fin # NoFin => consumed <= fin /\ \A x \in all : x < fin,
         state = "DataRecvd" => fin # NoFin /\ all = Span(consumed, fin),
         state = "DataRead" => fin = consumed /\ all = {} /\ ~rclosing,
         HandlePending(state, queue, all, have, fin, len),
         start' = start, finOffset' = fin, updates' \in Nat
  PROVE  /\ StreamInv' /\ Takes(all) /\ Keeps(all)
         /\ state = "DataRead" => rstate' = state /\ consumed' = consumed
  <1>0. MaxWindow \in Nat /\ ReadLens \subseteq Nat
    BY RecvConstants DEF RecvConstants
  <1>1. CASE state = "DataRead"
    <2>1. /\ answered' = [i \in 1..Len(queue) |-> [eof |-> TRUE, zeros |-> {}]]
          /\ pending' = <<>> /\ rstate' = state
          /\ recv' = all /\ filled' = have /\ bufLen' = len
          /\ UNCHANGED <<rclosing, consumed>>
      BY <1>1 DEF HandlePending
    <2>2. TypeOK'
      <3>1. pending' \in Seq(ReadLens)
        BY <2>1
      <3>2. \A x \in recv' : consumed' <= x
        BY <1>1, <2>1
      <3>3. consumed' \in Nat /\ bufLen' \in 0..MaxWindow /\ start' \in 0..consumed'
        BY <2>1
      <3>4. recv' \subseteq Nat /\ filled' \subseteq Nat
        BY <2>1
      <3>5. rstate' \in RecvStates /\ rclosing' \in BOOLEAN
        BY <2>1
      <3> QED
        BY <3>1, <3>2, <3>3, <3>4, <3>5 DEF TypeOK
    <2>3. OnlyPeerBytes'
      <3>1. \A i \in DOMAIN answered' : answered'[i].zeros = {}
        BY <2>1
      <3> QED
        BY <2>1, <3>1 DEF OnlyPeerBytes
    <2>4. EndOfStream'
      <3>1. fin = consumed /\ fin # NoFin
        BY <1>1 DEF NoFin
      <3> QED
        BY <1>1, <2>1, <3>1 DEF EndOfStream
    <2>5. NoneBehindData'
      BY <2>1 DEF NoneBehindData
    <2>6. Span(consumed, consumed) = {}
      BY DEF Span
    <2> QED
      BY <1>1, <2>1, <2>2, <2>3, <2>4, <2>5, <2>6 DEF StreamInv, Takes, Keeps
  <1>2. CASE state # "DataRead"
    <2> DEFINE end == ReadableEnd(all)
               top == consumed + len
    <2>1. \A x \in all : consumed <= x /\ x < top
      BY <1>0 DEF Span
    <2>2. /\ end \in Nat /\ consumed <= end /\ end \notin all
          /\ Span(consumed, end) \subseteq all
          /\ end <= top
      <3>1. top \in Nat
        BY <1>0
      <3>2. CASE all = {}
        BY <3>1, <3>2 DEF ReadableEnd, Span
      <3>3. CASE all # {}
        BY <2>1, <3>1, <3>3, ReadableEndFacts
      <3> QED
        BY <3>2, <3>3
    <2> HIDE DEF end, top
    <2>3. PICK at \in Progress(queue, end) :
            LET n == Len(at) - 1
                eaten == Span(consumed, at[n + 1])
                done == state = "DataRecvd" /\ fin = at[n + 1]
            IN /\ answered' = [i \in 1..n |-> [eof |-> FALSE, zeros |-> Span(at[i], at[i + 1]) \ have]]
               /\ pending' = SubSeq(queue, n + 1, Len(queue))
               /\ consumed' = at[n + 1]
               /\ recv' = all \ eaten /\ filled' = have \ eaten
               /\ bufLen' = len - (at[n + 1] - consumed)
               /\ rstate' = IF done THEN "DataRead" ELSE state
               /\ rclosing' = (rclosing /\ ~done)
      BY <1>2 DEF HandlePending, end
    <2> DEFINE n == Len(at) - 1
               eaten == Span(consumed, consumed')
    <2>4. /\ n \in 0..Len(queue) /\ at[n + 1] \in consumed..end
          /\ \A i \in 1..n : at[i] \in consumed..end /\ at[i + 1] \in consumed..end
          /\ n < Len(queue) => at[n + 1] = end
      <3>1. Len(at) - 1 \in 0..Len(queue)
        BY <2>2, ProgressFacts
      <3>2. (Len(at) - 1) + 1 = Len(at)
        BY <3>1, LenProperties
      <3> QED
        BY <2>2, <3>2, ProgressFacts
    <2>5. /\ consumed' = at[n + 1] /\ consumed' \in Nat /\ consumed <= consumed' /\ consumed' <= end
          /\ recv' = all \ eaten /\ filled' = have \ eaten
          /\ bufLen' = len - (consumed' - consumed)
      BY <2>2, <2>3, <2>4
    <2>6. /\ rstate' = IF state = "DataRecvd" /\ fin = consumed' THEN "DataRead" ELSE state
          /\ rclosing' = (rclosing /\ ~(state = "DataRecvd" /\ fin = consumed'))
      BY <2>3, <2>5
    <2>2a. answered' = [i \in 1..n |-> [eof |-> FALSE, zeros |-> Span(at[i], at[i + 1]) \ have]]
      BY <2>3
    <2>2b. pending' = SubSeq(queue, n + 1, Len(queue))
      BY <2>3
    <2> HIDE DEF n
    <2>7. Span(consumed, consumed') \subseteq all
      BY <2>2, <2>5 DEF Span
    <2>8. \A x \in recv' : x \in all /\ consumed' <= x
      BY <2>1, <2>5 DEF Span
    <2>9. pending' \in Seq(ReadLens) /\ (pending' # <<>> => n < Len(queue))
      BY <2>4, <2>2b, LenProperties, SubSeqProperties
    <2>10. bufLen' \in 0..MaxWindow /\ consumed' + bufLen' = consumed + len
      <3>1. \A c, d, l \in Nat : c <= d /\ d <= c + l /\ l <= MaxWindow
                               => l - (d - c) \in 0..MaxWindow /\ d + (l - (d - c)) = c + l
        BY <1>0
      <3>2. consumed \in Nat /\ consumed' \in Nat /\ len \in Nat /\ len <= MaxWindow
        BY <1>0, <2>5
      <3>3. consumed <= consumed' /\ consumed' <= consumed + len
        BY <2>2, <2>5, <3>2 DEF top
      <3> QED
        BY <2>5, <3>1, <3>2, <3>3
    <2>11. TypeOK'
      <3>1. recv' \subseteq Nat /\ filled' \subseteq Nat
        BY <2>5
      <3>2. start' \in 0..consumed'
        BY <2>5
      <3>3. rstate' \in RecvStates /\ rclosing' \in BOOLEAN
        BY <2>6 DEF RecvStates
      <3> QED
        BY <2>5, <2>8, <2>9, <2>10, <3>1, <3>2, <3>3 DEF TypeOK
    <2>12. OnlyPeerBytes'
      <3>1. recv' \subseteq filled'
        BY <2>5
      <3>2. filled' \subseteq Span(consumed', consumed' + bufLen')
        <4>1. SUFFICES ASSUME NEW x \in have, x \notin eaten
                       PROVE  x \in Span(consumed', consumed' + bufLen')
          BY <2>5
        <4>2. x \in Nat /\ consumed <= x /\ x < consumed + len
          BY <1>0, <4>1 DEF Span
        <4>3. consumed' <= x
          BY <2>5, <4>1, <4>2 DEF Span
        <4> QED
          BY <1>0, <2>5, <2>10, <4>2, <4>3 DEF Span
      <3>3. ASSUME NEW i \in DOMAIN answered' PROVE answered'[i].zeros = {}
        <4>1. i \in 1..n /\ answered'[i].zeros = Span(at[i], at[i + 1]) \ have
          BY <2>2a, <3>3
        <4>2. Span(at[i], at[i + 1]) \subseteq Span(consumed, end)
          BY <2>2, <2>4, <4>1 DEF Span
        <4> QED
          BY <2>2, <4>1, <4>2
      <3> QED
        BY <3>1, <3>2, <3>3 DEF OnlyPeerBytes
    <2>13. EndOfStream'
      <3>1. finOffset' # NoFin => consumed' <= finOffset' /\ \A x \in recv' : x < finOffset'
        <4>1. SUFFICES ASSUME fin # NoFin PROVE consumed' <= fin
          BY <2>8
        <4>2. CASE consumed = consumed'
          BY <4>1, <4>2
        <4>3. CASE consumed < consumed'
          <5>0. consumed' - 1 \in Span(consumed, consumed')
            BY <2>2, <2>5, <4>3 DEF Span
          <5>1. consumed' - 1 \in all
            BY <2>7, <5>0
          <5> QED
            BY <2>5, <4>1, <5>1
        <4> QED
          BY <2>5, <4>2, <4>3
      <3>2. rstate' = "DataRecvd" => recv' = Span(consumed', finOffset')
        BY <2>5, <2>6 DEF Span
      <3>3. rstate' = "DataRead" => recv' = {} /\ consumed' = finOffset' /\ ~rclosing'
        BY <1>2, <2>5, <2>6
      <3>4. \A i \in DOMAIN answered' : answered'[i].eof = FALSE
        BY <2>2a
      <3>5. rstate' \in {"DataRecvd", "DataRead"} => state = "DataRecvd"
        BY <1>2, <2>6
      <3> QED
        BY <3>1, <3>2, <3>3, <3>4, <3>5 DEF EndOfStream
    <2>14. NoneBehindData'
      BY <2>2, <2>4, <2>5, <2>9 DEF NoneBehindData
    <2>15. Keeps(all)
      <3>1. \A x \in eaten : x < consumed'
        BY <2>2, <2>5 DEF Span
      <3> QED
        BY <2>5, <3>1 DEF Keeps
    <2> QED
      BY <1>2, <2>5, <2>7, <2>8, <2>11, <2>12, <2>13, <2>14, <2>15 DEF StreamInv, Takes
  <1> QED
    BY <1>1, <1>2

-----------------------------------------------------------------------------
(***************************************************************************)
(* The handlers, one lemma each.                                           *)
(***************************************************************************)
LEMMA NotifyUpdateType == TypeOK /\ NotifyUpdate => updates' \in Nat
  BY DEF TypeOK, NotifyUpdate

LEMMA ReadInv ==
  ASSUME StreamInv, NEW len \in ReadLens, Read(len)
  PROVE  /\ StreamInv' /\ Takes(recv) /\ Keeps(recv)
         /\ rstate = "DataRead" => UNCHANGED <<rstate, consumed>>
  <1> USE DEF StreamInv
  <1>1. /\ HandlePending(rstate, Append(pending, len), recv, filled, finOffset, bufLen)
        /\ start' = start /\ finOffset' = finOffset
    BY DEF Read
  <1>2. updates' \in Nat
    BY NotifyUpdateType DEF Read
  <1>3. Append(pending, len) \in Seq(ReadLens)
    BY AppendProperties DEF TypeOK
  <1>4. /\ consumed \in Nat /\ start \in 0..consumed /\ rclosing \in BOOLEAN
        /\ rstate \in RecvStates /\ recv \in SUBSET Nat /\ filled \in SUBSET Nat
        /\ finOffset \in Nat \union {NoFin} /\ bufLen \in 0..MaxWindow
    BY DEF TypeOK
  <1>5. recv \subseteq filled /\ filled \subseteq Span(consumed, consumed + bufLen)
    BY DEF OnlyPeerBytes
  <1>6. /\ finOffset # NoFin => consumed <= finOffset /\ \A x \in recv : x < finOffset
        /\ rstate = "DataRecvd" => finOffset # NoFin /\ recv = Span(consumed, finOffset)
        /\ rstate = "DataRead" => finOffset = consumed /\ recv = {} /\ ~rclosing
    BY DEF EndOfStream
  <1> QED
    BY <1>1, <1>2, <1>3, <1>4, <1>5, <1>6, HandlePendingInv

LEMMA WriteInv ==
  ASSUME StreamInv, NEW lo, NEW hi, NEW fin, Admissible(lo, hi, fin), Write(lo, hi, fin)
  PROVE  /\ StreamInv' /\ Takes(recv \union Span(lo, hi)) /\ Keeps(recv)
         /\ consumed <= lo /\ rstate \notin {"DataRecvd", "DataRead"} => Keeps(Span(lo, hi))
         /\ finOffset' = finOffset \/ (fin /\ finOffset' = hi)
         /\ rstate = "DataRead" => UNCHANGED <<rstate, consumed>>
  <1> USE DEF StreamInv
  <1>0. MaxWindow \in Nat /\ lo \in Nat /\ hi \in Nat /\ fin \in BOOLEAN
    BY RecvConstants DEF RecvConstants, Admissible
  <1>1. CASE rstate \in {"DataRecvd", "DataRead"}
    <2>1. answered' = <<>> /\ UNCHANGED <<rstate, rclosing, pending, window, updates>>
      BY <1>1 DEF Write
    <2>2. TypeOK'
      BY <2>1 DEF TypeOK, window
    <2>3. OnlyPeerBytes'
      BY <2>1 DEF OnlyPeerBytes, window
    <2>4. EndOfStream'
      BY <2>1 DEF EndOfStream, window
    <2>5. NoneBehindData'
      BY <2>1 DEF NoneBehindData, window
    <2>6. Takes(recv \union Span(lo, hi))
      <3>1. consumed' = consumed /\ recv' = recv /\ consumed \in Nat
        BY <2>1 DEF window, TypeOK
      <3> QED
        BY <3>1 DEF Takes, Span
    <2> QED
      BY <1>1, <2>1, <2>2, <2>3, <2>4, <2>5, <2>6 DEF window, Keeps
  <1>2. CASE rstate \notin {"DataRecvd", "DataRead"}
    <2> DEFINE chunk == IF Dropped(lo, hi) THEN {} ELSE Span(lo, hi)
               all   == recv \union chunk
               have  == filled \union chunk
               end   == IF fin /\ chunk # {} THEN hi ELSE finOffset
               need  == IF chunk = {} \/ hi - consumed <= bufLen THEN bufLen ELSE hi - consumed
               state == AfterWrite(fin, Recvd(all, end))
    <2>1. /\ finOffset' = end /\ start' = start
          /\ HandlePending(state, pending, all, have, end, need)
          /\ NotifyUpdate
      BY <1>2 DEF Write
    <2>2. /\ consumed \in Nat /\ start \in 0..consumed /\ rclosing \in BOOLEAN
          /\ rstate \in RecvStates /\ pending \in Seq(ReadLens)
          /\ finOffset \in Nat \union {NoFin} /\ bufLen \in 0..MaxWindow
          /\ recv \subseteq Nat /\ filled \subseteq Nat
      BY DEF TypeOK
    <2>3. /\ chunk \subseteq Span(lo, hi)
          /\ chunk # {} => consumed <= lo /\ lo < hi
      BY <1>0, <2>2 DEF Dropped, Span
    <2>4. hi <= consumed + MaxWindow
      BY <1>0, <2>2 DEF Admissible, MaxStreamData
    <2>5. \A x \in chunk : x \in Nat /\ lo <= x /\ x < hi
      BY <1>0, <2>3 DEF Span
    <2> HIDE DEF chunk
    <2>6. /\ need \in 0..MaxWindow /\ bufLen <= need
          /\ chunk # {} => hi <= consumed + need
      BY <1>0, <2>2, <2>3, <2>4
    <2>7. all \in SUBSET Nat /\ have \in SUBSET Nat
      BY <2>2, <2>5
    <2>8. all \subseteq have
      BY DEF OnlyPeerBytes
    <2>9. have \subseteq Span(consumed, consumed + need)
      <3>1. \A x \in filled : x \in Nat /\ consumed <= x /\ x < consumed + bufLen
        BY <1>0, <2>2 DEF OnlyPeerBytes, Span
      <3>2. \A x \in have : consumed <= x /\ x < consumed + need
        BY <1>0, <2>2, <2>3, <2>5, <2>6, <3>1
      <3> QED
        BY <1>0, <2>2, <2>6, <2>7, <3>2 DEF Span
    <2>10. end \in Nat \union {NoFin}
      BY <1>0, <2>2
    <2>11. end # NoFin => consumed <= end /\ \A x \in all : x < end
      <3>1. CASE fin /\ chunk # {}
        BY <1>0, <2>5, <3>1 DEF Admissible
      <3>2. CASE ~(fin /\ chunk # {})
        <4>1. end = finOffset
          BY <3>2
        <4>2. finOffset # NoFin => consumed <= finOffset /\ \A x \in recv : x < finOffset
          BY DEF EndOfStream
        <4>3. finOffset # NoFin => finOffset \in Nat /\ hi <= finOffset
          BY <2>2 DEF Admissible
        <4>4. \A x \in chunk : finOffset # NoFin => x < finOffset
          BY <1>0, <2>5, <4>3
        <4> QED
          BY <4>1, <4>2, <4>4
      <3> QED
        BY <3>1, <3>2
    <2>12. /\ state \in RecvStates /\ state # "DataRead"
           /\ state = "DataRecvd" => Recvd(all, end)
      BY <1>2, <2>2 DEF AfterWrite, RecvStates
    <2>13. state = "DataRecvd" => end # NoFin /\ all = Span(consumed, end)
      BY <2>12 DEF Recvd
    <2>14. updates' \in Nat
      BY <2>1, NotifyUpdateType
    <2>15. finOffset' = finOffset \/ (fin /\ finOffset' = hi)
      BY <2>1
    <2>16. all \subseteq recv \union Span(lo, hi)
      BY <2>3
    <2>17. recv \subseteq all /\ (consumed <= lo => Span(lo, hi) \subseteq all)
      <3>1. consumed <= lo => chunk = Span(lo, hi)
        BY <1>0, <2>2 DEF chunk, Dropped, Span
      <3> QED
        BY <3>1
    <2> HIDE DEF all, have, end, need, state
    <2>18. StreamInv' /\ Takes(all) /\ Keeps(all)
      BY <2>1, <2>2, <2>6, <2>7, <2>8, <2>9, <2>10, <2>11, <2>12, <2>13, <2>14,
         HandlePendingInv
    <2> QED
      BY <1>2, <2>15, <2>16, <2>17, <2>18 DEF Takes, Keeps
  <1> QED
    BY <1>1, <1>2

LEMMA UpdateInv ==
  ASSUME StreamInv, Update, updates' \in Nat
  PROVE  StreamInv'
  <1> USE DEF StreamInv, Update
  <1>0. MaxWindow \in Nat
    BY RecvConstants DEF RecvConstants
  <1>1. TypeOK'
    <2>1. filled' \subseteq Nat
      BY DEF TypeOK
    <2>2. start' \in 0..consumed' /\ bufLen' \in 0..MaxWindow
      BY <1>0 DEF TypeOK
    <2> QED
      BY <2>1, <2>2 DEF TypeOK
  <1>2. OnlyPeerBytes'
    <2>1. filled \subseteq Span(consumed, consumed + MaxWindow)
      BY <1>0 DEF TypeOK, OnlyPeerBytes, Span
    <2> QED
      BY <2>1 DEF OnlyPeerBytes
  <1>3. EndOfStream'
    BY DEF EndOfStream
  <1>4. NoneBehindData'
    BY DEF NoneBehindData
  <1> QED
    BY <1>1, <1>2, <1>3, <1>4

LEMMA CloseInv == StreamInv /\ Close => StreamInv'
  <1> SUFFICES ASSUME StreamInv, Close PROVE StreamInv'
    OBVIOUS
  <1> USE DEF StreamInv, Close, window
  <1>1. TypeOK'
    BY DEF TypeOK
  <1>2. OnlyPeerBytes'
    BY DEF OnlyPeerBytes
  <1>3. EndOfStream'
    <2>1. rstate = "DataRead" => ~rclosing'
      OBVIOUS
    <2> QED
      BY <2>1 DEF EndOfStream
  <1>4. NoneBehindData'
    BY DEF NoneBehindData
  <1> QED
    BY <1>1, <1>2, <1>3, <1>4

LEMMA TakesBelow ==
  ASSUME consumed \in Nat, consumed' \in Nat, NEW top \in Nat, consumed <= top,
         NEW bytes \in SUBSET Nat, \A x \in bytes : x < top, Takes(bytes)
  PROVE  consumed' <= top /\ \A x \in recv' : x < top
  <1>1. consumed <= consumed' /\ Span(consumed, consumed') \subseteq bytes
    BY DEF Takes
  <1>2. SUFFICES ASSUME consumed' > top PROVE FALSE
    BY DEF Takes
  <1>3. top \in Span(consumed, consumed')
    <2>1. \A e \in Nat : e > top => top \in Span(consumed, e)
      BY DEF Span
    <2> QED
      BY <1>2, <2>1
  <1> QED
    BY <1>1, <1>3

-----------------------------------------------------------------------------
(***************************************************************************)
(* The stream among its callers.                                           *)
(***************************************************************************)
\* handle_pending, called while it is not too late: at least one read of the
\* queue is answered by the call that reaches the end.
LEMMA HandlePendingWaits ==
  ASSUME consumed \in Nat, NEW state, NEW queue \in Seq(ReadLens), Len(queue) <= MaxReaders,
         NEW all \in SUBSET Nat, NEW have, NEW fin, NEW len, NEW top \in Nat,
         \A x \in all : consumed <= x /\ x < top,
         state = "DataRecvd" => consumed # fin,
         HandlePending(state, queue, all, have, fin, len), finOffset' = fin
  PROVE  Waiting'
  <1>0. MaxReaders \in Nat \ {0}
    BY RecvConstants DEF RecvConstants
  <1>1. CASE state = "DataRead"
    <2>1. pending' = <<>> /\ rstate' = state
      BY <1>1 DEF HandlePending
    <2>2. Len(pending') = 0
      BY <2>1
    <2> QED
      BY <1>0, <1>1, <2>1, <2>2 DEF Waiting, OneAnswered
  <1>2. CASE state # "DataRead"
    <2> DEFINE end == ReadableEnd(all)
    <2>1. end \in Nat /\ consumed <= end
      <3>1. CASE all = {}
        BY <3>1 DEF ReadableEnd
      <3>2. CASE all # {}
        BY <3>2, ReadableEndFacts
      <3> QED
        BY <3>1, <3>2
    <2> HIDE DEF end
    <2>2. PICK at \in Progress(queue, end) :
            /\ pending' = SubSeq(queue, Len(at), Len(queue))
            /\ consumed' = at[Len(at)]
            /\ rstate' = IF state = "DataRecvd" /\ fin = at[Len(at)] THEN "DataRead" ELSE state
      <3>1. PICK at \in Progress(queue, end) :
              LET n == Len(at) - 1
              IN /\ pending' = SubSeq(queue, n + 1, Len(queue))
                 /\ consumed' = at[n + 1]
                 /\ rstate' = IF state = "DataRecvd" /\ fin = at[n + 1] THEN "DataRead" ELSE state
        BY <1>2 DEF HandlePending, end
      <3>2. Len(at) - 1 \in 0..Len(queue) /\ Len(queue) \in Nat
        BY <2>1, ProgressFacts, LenProperties
      <3>3. (Len(at) - 1) + 1 = Len(at)
        BY <3>2, LenProperties
      <3> QED
        BY <3>1, <3>3
    <2>3. Len(at) \in 1..(Len(queue) + 1) /\ Len(queue) \in Nat /\ Len(queue) <= MaxReaders
      BY <2>1, ProgressFacts, LenProperties
    <2>4. Len(pending') = Len(queue) - Len(at) + 1
      BY <2>2, <2>3, SubSeqProperties
    <2>5. at[1] = consumed
      BY DEF Progress
    <2>6. Len(pending') <= MaxReaders
      BY <1>0, <2>3, <2>4
    <2>7. rstate' = "DataRead" => Len(pending') < MaxReaders
      <3>1. SUFFICES ASSUME state = "DataRecvd", fin = at[Len(at)] PROVE Len(pending') < MaxReaders
        BY <1>2, <2>2
      <3>2. Len(at) # 1
        BY <2>5, <3>1
      <3>3. \A q, m, p \in Int : p = q - m + 1 /\ m \in 1..(q + 1) /\ m # 1 /\ q <= MaxReaders
                               => p < MaxReaders
        BY <1>0
      <3>4. Len(queue) \in Int /\ Len(at) \in Int /\ Len(pending') \in Int
        BY <2>3, <2>4
      <3> QED
        BY <2>3, <2>4, <3>2, <3>3, <3>4
    <2>8. rstate' = "DataRecvd" => consumed' # finOffset'
      BY <2>2
    <2> QED
      BY <2>6, <2>7, <2>8 DEF Waiting, OneAnswered
  <1> QED
    BY <1>1, <1>2

LEMMA InitInv == Init => Inv
  <1> SUFFICES ASSUME Init PROVE Inv
    OBVIOUS
  <1> USE DEF Init
  <1>0. MaxWindow \in Nat /\ MaxTotal \in Nat
    BY RecvConstants DEF RecvConstants
  <1>1. TypeOK
    <2>1. pending \in Seq(ReadLens) /\ rstate \in RecvStates
      BY DEF RecvStates
    <2>2. bufLen \in 0..MaxWindow /\ start \in 0..consumed
      BY <1>0
    <2> QED
      BY <2>1, <2>2 DEF TypeOK
  <1>2. OnlyPeerBytes
    BY DEF OnlyPeerBytes
  <1>3. EndOfStream /\ NoneBehindData
    BY DEF EndOfStream, NoneBehindData
  <1>4. WithinTotal
    BY <1>0 DEF WithinTotal
  <1>5. Waiting
    <2>1. Len(pending) = 0
      OBVIOUS
    <2> QED
      BY <2>1, RecvConstants DEF Waiting, OneAnswered, RecvConstants
  <1> QED
    BY <1>1, <1>2, <1>3, <1>4, <1>5 DEF Inv, StreamInv

LEMMA AppReadInv == Inv /\ AppRead => Inv'
  <1> SUFFICES ASSUME Inv, NEW len \in ReadLens, Len(pending) < MaxReaders, Read(len)
               PROVE  Inv'
    BY DEF AppRead
  <1>1. StreamInv' /\ Takes(recv)
    BY ReadInv DEF Inv
  <1>2. /\ consumed \in Nat /\ consumed' \in Nat /\ MaxTotal \in Nat
        /\ recv \in SUBSET Nat
    BY <1>1, RecvConstants DEF Inv, StreamInv, TypeOK, RecvConstants
  <1>3. consumed' <= MaxTotal /\ \A x \in recv' : x < MaxTotal
    BY <1>1, <1>2, TakesBelow DEF Inv, WithinTotal
  <1>4. finOffset' \in {NoFin, MaxTotal}
    BY DEF Read, Inv, WithinTotal
  <1>5. Waiting'
    <2>1. /\ Append(pending, len) \in Seq(ReadLens) /\ Len(pending) \in Nat
          /\ Len(Append(pending, len)) = Len(pending) + 1
      BY AppendProperties, LenProperties DEF Inv, StreamInv, TypeOK
    <2>2. Len(Append(pending, len)) <= MaxReaders
      BY <2>1, RecvConstants DEF RecvConstants
    <2>3. /\ HandlePending(rstate, Append(pending, len), recv, filled, finOffset, bufLen)
          /\ finOffset' = finOffset
      BY DEF Read
    <2>4. \A x \in recv : consumed <= x /\ x < MaxTotal
      BY DEF Inv, StreamInv, TypeOK, WithinTotal
    <2>5. rstate = "DataRecvd" => consumed # finOffset
      BY DEF Inv, Waiting
    <2> QED
      BY <1>2, <2>1, <2>2, <2>3, <2>4, <2>5, HandlePendingWaits
  <1> QED
    BY <1>1, <1>3, <1>4, <1>5 DEF Inv, WithinTotal

LEMMA PeerDataInv == Inv /\ PeerData => Inv'
  <1> SUFFICES ASSUME Inv, NEW lo \in 0..LesserOf(MaxTotal, MaxStreamData),
                      NEW hi \in 0..LesserOf(MaxTotal, MaxStreamData),
                      NEW fin \in BOOLEAN,
                      lo <= hi, fin => hi = MaxTotal, Write(lo, hi, fin)
               PROVE  Inv'
    BY DEF PeerData
  <1>0. /\ consumed \in Nat /\ start \in Nat /\ MaxTotal \in Nat /\ MaxWindow \in Nat
        /\ consumed <= MaxTotal /\ finOffset \in {NoFin, MaxTotal}
        /\ recv \in SUBSET Nat /\ \A x \in recv : x < MaxTotal
    BY RecvConstants DEF Inv, StreamInv, TypeOK, RecvConstants, WithinTotal
  <1>1. lo \in Nat /\ hi \in Nat /\ hi <= MaxTotal /\ hi <= MaxStreamData
    BY <1>0 DEF LesserOf, MaxStreamData
  <1>2. Admissible(lo, hi, fin)
    BY <1>0, <1>1 DEF Admissible
  <1>3. /\ StreamInv' /\ Takes(recv \union Span(lo, hi))
        /\ finOffset' = finOffset \/ (fin /\ finOffset' = hi)
    BY <1>2, WriteInv DEF Inv
  <1>4. /\ recv \union Span(lo, hi) \in SUBSET Nat
        /\ \A x \in recv \union Span(lo, hi) : x < MaxTotal
    BY <1>0, <1>1 DEF Span
  <1>5. consumed' \in Nat
    BY <1>3 DEF StreamInv, TypeOK
  <1>6. consumed' <= MaxTotal /\ \A x \in recv' : x < MaxTotal
    BY <1>0, <1>3, <1>4, <1>5, TakesBelow
  <1>7. finOffset' \in {NoFin, MaxTotal}
    BY <1>0, <1>3
  <1>8. Waiting'
    <2>1. CASE rstate \in {"DataRecvd", "DataRead"}
      BY <2>1 DEF Write, window, Inv, Waiting, OneAnswered
    <2>2. CASE rstate \notin {"DataRecvd", "DataRead"}
      <3> DEFINE chunk == IF Dropped(lo, hi) THEN {} ELSE Span(lo, hi)
                 all   == recv \union chunk
                 end   == IF fin /\ chunk # {} THEN hi ELSE finOffset
                 need  == IF chunk = {} \/ hi - consumed <= bufLen THEN bufLen ELSE hi - consumed
                 state == AfterWrite(fin, Recvd(all, end))
      <3>1. /\ HandlePending(state, pending, all, filled \union chunk, end, need)
            /\ finOffset' = end
        BY <2>2 DEF Write
      <3>2. state = "DataRecvd" => Recvd(all, end)
        BY <2>2 DEF AfterWrite
      <3>3. Recvd(all, end) => consumed # end
        BY <1>0 DEF Recvd, Span
      <3>4. pending \in Seq(ReadLens) /\ Len(pending) <= MaxReaders
        BY DEF Inv, StreamInv, TypeOK, Waiting
      <3>5. chunk \in SUBSET Nat /\ \A x \in chunk : consumed <= x /\ x < MaxTotal
        BY <1>0, <1>1 DEF Dropped, Span
      <3>6. all \in SUBSET Nat /\ \A x \in all : consumed <= x /\ x < MaxTotal
        BY <1>0, <3>5 DEF Inv, StreamInv, TypeOK
      <3> HIDE DEF state, all, end, need, chunk
      <3> QED
        BY <1>0, <3>1, <3>2, <3>3, <3>4, <3>6, HandlePendingWaits
    <2> QED
      BY <2>1, <2>2
  <1> QED
    BY <1>3, <1>6, <1>7, <1>8 DEF Inv, WithinTotal

LEMMA UpdatesInv == Inv /\ (RunUpdate \/ LostUpdate) => Inv'
  <1> SUFFICES ASSUME Inv, RunUpdate \/ LostUpdate PROVE Inv'
    OBVIOUS
  <1>1. Update /\ updates' \in Nat
    BY DEF RunUpdate, LostUpdate, Inv, StreamInv, TypeOK
  <1>2. StreamInv'
    BY <1>1, UpdateInv DEF Inv
  <1>3. WithinTotal'
    BY <1>1 DEF Inv, WithinTotal, Update
  <1>4. Waiting'
    BY <1>1 DEF Inv, Waiting, OneAnswered, Update
  <1> QED
    BY <1>2, <1>3, <1>4 DEF Inv

LEMMA AppCloseInv == Inv /\ AppClose => Inv'
  <1> SUFFICES ASSUME Inv, Close PROVE Inv'
    BY DEF AppClose
  <1>1. StreamInv'
    BY CloseInv DEF Inv
  <1>2. WithinTotal'
    BY DEF Inv, WithinTotal, Close, window
  <1>3. Waiting'
    BY DEF Inv, Waiting, OneAnswered, Close, window
  <1> QED
    BY <1>1, <1>2, <1>3 DEF Inv

\* The invariant is inductive.
LEMMA Invariant == Spec => []Inv
  <1>1. Init => Inv
    BY InitInv
  <1>2. Inv /\ [Next]_rvars => Inv'
    <2> SUFFICES ASSUME Inv, [Next]_rvars PROVE Inv'
      OBVIOUS
    <2>1. CASE AppRead
      BY <2>1, AppReadInv
    <2>2. CASE PeerData
      BY <2>2, PeerDataInv
    <2>3. CASE RunUpdate \/ LostUpdate
      BY <2>3, UpdatesInv
    <2>4. CASE AppClose
      BY <2>4, AppCloseInv
    <2>5. CASE UNCHANGED rvars
      <3> USE <2>5 DEF rvars, window
      <3>1. TypeOK'
        BY DEF Inv, StreamInv, TypeOK
      <3>2. OnlyPeerBytes'
        BY DEF Inv, StreamInv, OnlyPeerBytes
      <3>3. EndOfStream' /\ NoneBehindData' /\ WithinTotal' /\ Waiting'
        BY DEF Inv, StreamInv, EndOfStream, NoneBehindData, WithinTotal, Waiting, OneAnswered
      <3> QED
        BY <3>1, <3>2, <3>3 DEF Inv, StreamInv
    <2> QED
      BY <2>1, <2>2, <2>3, <2>4, <2>5 DEF Next
  <1> QED
    BY <1>1, <1>2, PTL DEF Spec

-----------------------------------------------------------------------------
\* The bookkeeping of the window stays consistent: no received offset lies
\* below the read position, the buffer never outgrows the window and the
\* announced limit never falls behind what was read.
THEOREM TypesHold == Spec => []TypeOK
  <1>1. Inv => TypeOK
    BY DEF Inv, StreamInv
  <1> QED
    BY <1>1, Invariant, PTL

\* However chunks overlap and however late the window is resized, what a read
\* returns is what the peer sent.
THEOREM ReadsReturnPeerBytes == Spec => []OnlyPeerBytes
  <1>1. Inv => OnlyPeerBytes
    BY DEF Inv, StreamInv
  <1> QED
    BY <1>1, Invariant, PTL

\* A stream is complete, ends and reports its end only with all of its bytes.
THEOREM EndsWhole == Spec => []WholeStream
  <1>1. Inv => WholeStream
    BY DEF Inv, StreamInv, EndOfStream, WithinTotal, WholeStream
  <1> QED
    BY <1>1, Invariant, PTL

\* No read is left waiting behind data it could return, and when the stream
\* ends at least one of those that waited together was answered; it is not
\* claimed that all of them are.
THEOREM NoReadLeftBehind == Spec => []ParkedReads
  <1>1. Inv => ParkedReads
    BY DEF Inv, StreamInv, Waiting, ParkedReads
  <1> QED
    BY <1>1, Invariant, PTL

=============================================================================
