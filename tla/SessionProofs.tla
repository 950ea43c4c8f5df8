---------------------------- MODULE SessionProofs ----------------------------
(***************************************************************************)
(* A file from one command line to the other: what is written at the end   *)
(* is what was sent, for every file, chunk length and number of streams,   *)
(* and whatever the network does.                                          *)
(***************************************************************************)
EXTENDS Session, FiniteSetTheorems, SequenceTheorems, TLAPS

Bytes == Seq(SUBSET Nat)
States == {"absent", "Recv", "SizeKnown", "DataRecvd", "DataRead"}
Received == [state : States, got : Nat, read : Nat]
Frames == [id : Ids, hi : Nat, fin : BOOLEAN]
Places == {"unopened", "open", "written", "sent", "received", "lost", "acked"}
Streams == StreamCount(file)

\* The file, the shapes of the arrays, and the counters before the answer.
Shapes ==
  /\ file \in Bytes /\ Streams \in 0..MaxStreams
  /\ at \in [Ids -> Places] /\ recv \in [Ids -> Received] /\ todo \subseteq Frames
  /\ disk = [i \in 0..MaxStreams |-> disk[i]]
  /\ queue \in Seq(Ids)
  /\ promised \in Nat /\ (client \in {"starting", "building"} => total = 0)

\* What came of a stream, and what is on the way, is of its bytes; the state
\* says when all of them came, and when all were read.
Bounds ==
  /\ \A id \in Ids :
       /\ recv[id].got \in 0..Len(Part(file, id)) /\ recv[id].read \in 0..recv[id].got
       /\ recv[id].state = "absent" => recv[id].got = 0
       /\ recv[id].state \in {"DataRecvd", "DataRead"} => recv[id].got = Len(Part(file, id))
       /\ recv[id].state = "DataRead" => recv[id].read = Len(Part(file, id))
  /\ \A f \in todo :
       f.hi \in 1..Len(Part(file, f.id)) /\ (f.fin => f.hi = Len(Part(file, f.id)))

\* What the client knows once it was answered.
Answered ==
  /\ client \in {"starting", "building", "copied"} => recvCount = 0
  /\ ClientRuns => ~TryCompress(file) /\ promised = Promised(file)

\* Only streams that were opened are known to the client.
OnlyOpened ==
  /\ \A f \in todo : f.id < opened
  /\ \A id \in Ids : recv[id].state # "absent" => id < opened

InQueue(id) == \E i \in 1..Len(queue) : queue[i] = id

\* A stream that is known waits in the queue or was accepted.
Queueing ==
  /\ \A i, j \in 1..Len(queue) : queue[i] = queue[j] => i = j
  /\ recvCount = Cardinality(accepted) /\ recvCount <= promised
  /\ \A id \in accepted : ~InQueue(id)
  /\ \A id \in Ids : id \in accepted \/ InQueue(id) <=> recv[id].state # "absent"

\* The end of the stream came to the client.
EndCame(id) ==
  \/ recv[id].state \in {"SizeKnown", "DataRecvd", "DataRead"}
  \/ \E f \in todo : f.id = id /\ f.fin
  \/ clientDeaf

\* A frame that was received since the fin was handed out carried it.
Fins ==
  /\ \A id \in Ids : id \in dataSent /\ at[id] \in {"received", "acked"} => EndCame(id)
  /\ server \in {"closing", "finished"} /\ ~TryCompress(file) => opened = Streams
  /\ server = "finished" /\ ~TryCompress(file) =>
       \A id \in 0..(Streams - 1) : at[id] = "acked" /\ id \in dataSent

\* When the network loses nothing, what was sent came once at the most: a
\* stream is sent again only if nobody hears the acks, and is never
\* acknowledged then.
Nothing(id) == recv[id].state = "absent" /\ \A f \in todo : f.id # id

Once(id) ==
  /\ recv[id].state # "SizeKnown"
  /\ \A f, g \in todo : f.id = id /\ g.id = id => f = g
  /\ (\E f \in todo : f.id = id) => recv[id].state = "absent"

Lossless ==
  "loss" \notin faults =>
    \A id \in Ids :
      /\ ~Gone /\ ~serverDeaf =>
           at[id] # "lost" /\ (at[id] \in {"unopened", "open", "written", "sent"} => Nothing(id))
      /\ at[id] = "acked" \/ (at[id] = "received" /\ ~serverDeaf) => Once(id)

\* What the tasks wrote: what was read of each stream.
TaskFiles ==
  /\ \A id \in Ids : id \notin accepted => recv[id].read = 0
  /\ client \in {"receiving", "closing"} =>
       \A id \in accepted : disk[id] = SubSeq(Part(file, id), 1, recv[id].read)
  /\ client \in {"closing", "merging", "done"} =>
       recvCount = promised /\ \A id \in accepted : recv[id].state = "DataRead"

\* While it is merged, the temporary files are the parts between some cuts of
\* the file, and the last one has no neighbour to be taken for one of them.
Cut(cut) ==
  /\ cut[0] = 0 /\ cut[total] = Len(file)
  /\ \A i \in 0..(total - 1) :
       cut[i] <= cut[i + 1] /\ disk[i] = SubSeq(file, cut[i] + 1, cut[i + 1])

Joined ==
  /\ total \in 1..Streams
  /\ \E cut \in [0..total -> 0..Len(file)] : Cut(cut)
  /\ total > 1 /\ total % 2 = 1 => disk[total] = NoFile

Merging == client = "merging" => Unmergeable \/ Joined

\* The inductive invariant.
Inv ==
  /\ TypeOK /\ Shapes /\ Bounds /\ Answered /\ OnlyOpened /\ Queueing /\ Fins
  /\ Lossless /\ TaskFiles /\ Merging /\ FileIsSent
-----------------------------------------------------------------------------
(***************************************************************************)
(* The types.                                                              *)
(***************************************************************************)
LEMMA IdFacts ==
  ASSUME Shapes
  PROVE  /\ MaxStreams \in Nat /\ \A id : id \in Ids <=> id \in Nat /\ id < MaxStreams
         /\ Streams \in Nat /\ Streams <= MaxStreams
  BY SessionConstants DEF SessionConstants, Shapes, Ids

LEMMA CountFacts ==
  ASSUME NEW f \in Bytes
  PROVE  /\ StreamCount(f) \in Nat /\ Len(f) <= StreamCount(f) * ChunkLen
         /\ \A i \in Nat : i < StreamCount(f) => i * ChunkLen < Len(f)
         /\ Promised(f) \in Nat /\ Promised(f) <= StreamCount(f)
         /\ StreamCount(f) < Wrap => Promised(f) = StreamCount(f)
  <1>1. PICK n \in Nat, c \in Nat \ {0} : n = Len(f) /\ c = ChunkLen
    BY FileConstants DEF FileConstants, Bytes
  <1>2. PICK q \in Nat, r \in Nat : q = n \div c /\ r = n % c /\ r < c /\ n = c * q + r
    BY <1>1
  <1>3. PICK k \in Nat : k = StreamCount(f) /\ k = q + (IF r # 0 THEN 1 ELSE 0)
    BY <1>1, <1>2 DEF StreamCount
  <1>4. n <= k * c
    <2>1. CASE r = 0
      BY <1>2, <1>3, <2>1
    <2>2. CASE r # 0
      <3>1. k = q + 1 /\ (q + 1) * c = c * q + c
        BY <1>2, <1>3, <2>2
      <3> QED
        BY <1>2, <3>1
    <2> QED
      BY <2>1, <2>2
  <1>5. ASSUME NEW i \in Nat, i < k PROVE i * c < n
    <2>1. PICK d \in Nat : q = i + d
      <3>1. i <= q
        BY <1>2, <1>3, <1>5
      <3>2. q - i \in Nat /\ q = i + (q - i)
        BY <1>2, <3>1
      <3> QED
        BY <3>2
    <2>2. c * q = i * c + c * d /\ c * d \in Nat /\ i * c \in Nat
      BY <2>1
    <2>3. CASE r # 0
      BY <1>2, <2>2, <2>3
    <2>4. CASE r = 0
      <3>1. d >= 1
        BY <1>3, <1>5, <2>1, <2>4
      <3>2. c * d > 0
        BY <3>1
      <3> QED
        BY <1>2, <2>2, <2>4, <3>2
    <2> QED
      BY <2>3, <2>4
  <1>6. Promised(f) \in Nat /\ Promised(f) <= k /\ (k < Wrap => Promised(f) = k)
    BY <1>3, FileConstants DEF FileConstants, Promised
  <1> QED
    BY <1>1, <1>3, <1>4, <1>5, <1>6

LEMMA PartFacts ==
  ASSUME NEW f \in Bytes, NEW id \in Nat
  PROVE  /\ Part(f, id) \in Bytes /\ Len(Part(f, id)) \in Nat
         /\ id < StreamCount(f) => Len(Part(f, id)) >= 1
  <1>1. id * ChunkLen \in Nat /\ (id + 1) * ChunkLen \in Nat /\ Len(f) \in Nat
        /\ (id + 1) * ChunkLen > id * ChunkLen
    BY FileConstants DEF FileConstants, Bytes
  <1>2. PICK a, b \in Nat :
          /\ a = id * ChunkLen /\ b = LesserLen((id + 1) * ChunkLen, Len(f)) /\ b <= Len(f)
          /\ a < Len(f) => a < b
    BY <1>1 DEF LesserLen
  <1>3. SubSeq(f, a + 1, b) \in Bytes /\ (a < b => Len(SubSeq(f, a + 1, b)) >= 1)
    BY <1>2 DEF Bytes
  <1>4. Part(f, id) \in Bytes /\ (a < b => Len(Part(f, id)) >= 1)
    BY <1>2, <1>3 DEF Part
  <1>5. id < StreamCount(f) => a < b
    BY <1>2, CountFacts
  <1>6. Len(Part(f, id)) \in Nat
    BY <1>4 DEF Bytes
  <1> QED
    BY <1>4, <1>5, <1>6

\* Two parts that meet are one.
LEMMA AdjacentParts ==
  ASSUME NEW f \in Bytes, NEW a \in Nat, NEW b \in Nat, NEW c \in Nat, a <= b, b <= c, c <= Len(f)
  PROVE  SubSeq(f, a + 1, b) \o SubSeq(f, b + 1, c) = SubSeq(f, a + 1, c)
  BY DEF Bytes

\* A frame changes what came of its stream, and nothing of what was read.
LEMMA AfterFrameFacts ==
  ASSUME NEW r \in Received, NEW f \in Frames, NEW taken \in Taken(r, f.hi),
         NEW s, s = AfterFrame(r, f, taken),
         NEW n \in Nat, r.got <= n, f.hi <= n, f.fin => f.hi = n, f.hi >= 1
  PROVE  /\ s \in Received /\ s.state # "absent" /\ s.read = r.read
         /\ r.got <= s.got /\ s.got <= n
         /\ f.fin => s.state \in {"SizeKnown", "DataRecvd", "DataRead"}
         /\ r.state \in {"DataRecvd", "DataRead"} => s = r
         /\ r.state = "SizeKnown" => s.state \in {"SizeKnown", "DataRecvd"}
         /\ s.state = "DataRead" => s = r
         /\ s.state = "DataRecvd" => s = r \/ s.got = n
         /\ s.state = "SizeKnown" => r.state = "SizeKnown" \/ r.read # 0
  <1>1. taken \in BOOLEAN /\ (r.read = 0 => taken)
    <2>1. CASE r.read = 0
      BY <2>1 DEF Taken
    <2>2. CASE r.read # 0
      <3>1. taken = FALSE \/ taken = (r.read < f.hi)
        BY <2>2 DEF Taken
      <3>2. r.read \in Nat /\ f.hi \in Nat
        BY DEF Received, Frames
      <3>3. (r.read < f.hi) \in BOOLEAN
        BY <3>2
      <3> QED
        BY <2>2, <3>1, <3>3
    <2> QED
      BY <2>1, <2>2
  <1>2. r.state \in States /\ r.got \in Nat /\ r.read \in Nat /\ f.hi \in Nat /\ f.fin \in BOOLEAN
    BY DEF Received, Frames
  <1>3. CASE r.state \in {"DataRecvd", "DataRead"}
    BY <1>2, <1>3 DEF AfterFrame
  <1>4. CASE r.state \notin {"DataRecvd", "DataRead"}
    <2>1. /\ s.state = IF ~f.fin THEN IF r.state = "absent" THEN "Recv" ELSE r.state
                       ELSE IF taken THEN "DataRecvd" ELSE "SizeKnown"
          /\ s.got = IF taken /\ r.got < f.hi THEN f.hi ELSE r.got
          /\ s.read = r.read
          /\ s = [state |-> s.state, got |-> s.got, read |-> s.read]
      BY <1>4 DEF AfterFrame
    <2>2. s.state \in States /\ s.got \in Nat /\ s.read \in Nat
      BY <1>1, <1>2, <2>1 DEF States
    <2>3. s \in Received
      BY <2>1, <2>2 DEF Received
    <2>4. r.got <= s.got /\ s.got <= n
      BY <1>1, <1>2, <2>1
    <2>5. s.state = "DataRecvd" => f.fin /\ taken
      BY <1>4, <2>1
    <2>6. s.state = "DataRecvd" => s.got = n
      BY <1>2, <2>1, <2>5
    <2> QED
      BY <1>1, <1>2, <1>4, <2>1, <2>3, <2>4, <2>6 DEF States
  <1> QED
    BY <1>3, <1>4

LEMMA InitTypes == Init => TypeOK /\ Shapes /\ Bounds
  <1> SUFFICES ASSUME Init PROVE TypeOK /\ Shapes /\ Bounds
    OBVIOUS
  <1>1. PICK t \in Transfers :
          /\ file = t.file /\ faults = t.faults
          /\ disk = [i \in 0..MaxStreams |-> IF i \in t.left THEN Junk ELSE NoFile]
    BY DEF Init
  <1>2. file \in Bytes /\ Streams <= MaxStreams /\ MaxStreams \in Nat
    BY <1>1, SessionConstants DEF SessionConstants, Bytes, Streams
  <1>3. Streams \in Nat
    BY <1>2, FileConstants DEF FileConstants, Streams, StreamCount, Bytes
  <1>4. Shapes
    BY <1>1, <1>2, <1>3 DEF Init, Shapes, Places, Received, States
  <1>5. Bounds
    <2>1. \A id \in Ids : Len(Part(file, id)) \in Nat
      BY <1>2, <1>4, PartFacts, IdFacts
    <2> QED
      BY <2>1 DEF Init, Bounds
  <1>6. TypeOK
    <2>1. \A id \in Ids : id >= 0
      BY IdFacts, <1>4
    <2>2. \A id \in Ids : /\ recv[id].got \in 0..Len(Part(file, id)) /\ recv[id].read \in 0..recv[id].got
                          /\ recv[id].state \in {"absent", "Recv", "SizeKnown", "DataRecvd", "DataRead"}
      BY <1>5 DEF Bounds, Init
    <2>3. 0 \in 0..StreamCount(file) /\ total \in 0..promised
      BY <1>3 DEF Init, Streams
    <2> QED
      BY <2>1, <2>2, <2>3 DEF Init, TypeOK
  <1> QED
    BY <1>4, <1>5, <1>6

\* Handler<Dispatch> and Handler<Write>: what came of the stream changes.
LEMMA DispatchFacts ==
  ASSUME Shapes, Bounds, NEW f \in todo, Dispatch(f)
  PROVE  /\ f \in Frames /\ f.id \in Ids /\ recv' \in [Ids -> Received]
         /\ \A id \in Ids : id # f.id => recv'[id] = recv[id]
         /\ recv'[f.id].state # "absent" /\ recv'[f.id].read = recv[f.id].read
         /\ recv[f.id].got <= recv'[f.id].got /\ recv'[f.id].got <= Len(Part(file, f.id))
         /\ f.fin => recv'[f.id].state \in {"SizeKnown", "DataRecvd", "DataRead"}
         /\ recv[f.id].state \in {"DataRecvd", "DataRead"} => recv'[f.id] = recv[f.id]
         /\ recv[f.id].state = "SizeKnown" => recv'[f.id].state \in {"SizeKnown", "DataRecvd"}
         /\ recv'[f.id].state = "DataRead" => recv'[f.id] = recv[f.id]
         /\ recv'[f.id].state = "DataRecvd" =>
              recv'[f.id] = recv[f.id] \/ recv'[f.id].got = Len(Part(file, f.id))
         /\ recv'[f.id].state = "SizeKnown" => recv[f.id].state = "SizeKnown" \/ recv[f.id].read # 0
  <1>1. PICK id \in Ids : id = f.id /\ f \in Frames
    BY DEF Shapes, Frames
  <1>2. PICK n \in Nat : n = Len(Part(file, id))
    BY PartFacts, IdFacts DEF Shapes
  <1>3. PICK taken \in Taken(recv[id], f.hi) :
          recv' = [recv EXCEPT ![id] = AfterFrame(recv[id], f, taken)]
    BY <1>1 DEF Dispatch
  <1>4. PICK r \in Received : r = recv[id]
    BY DEF Shapes
  <1>5. PICK w : w = AfterFrame(r, f, taken)
    OBVIOUS
  <1>6. r.got <= n /\ f.hi <= n /\ (f.fin => f.hi = n) /\ f.hi >= 1
    BY <1>1, <1>2, <1>4 DEF Bounds
  <1>7. taken \in Taken(r, f.hi)
    BY <1>4
  <1>8. /\ w \in Received /\ w.state # "absent" /\ w.read = r.read
        /\ r.got <= w.got /\ w.got <= n
        /\ f.fin => w.state \in {"SizeKnown", "DataRecvd", "DataRead"}
        /\ r.state \in {"DataRecvd", "DataRead"} => w = r
        /\ r.state = "SizeKnown" => w.state \in {"SizeKnown", "DataRecvd"}
        /\ w.state = "DataRead" => w = r
        /\ w.state = "DataRecvd" => w = r \/ w.got = n
        /\ w.state = "SizeKnown" => r.state = "SizeKnown" \/ r.read # 0
    BY <1>1, <1>5, <1>6, <1>7, AfterFrameFacts
  <1>9. recv' = [recv EXCEPT ![id] = w]
    BY <1>3, <1>4, <1>5
  <1>10. /\ recv' \in [Ids -> Received] /\ recv'[id] = w
         /\ \A i \in Ids : i # id => recv'[i] = recv[i]
    BY <1>8, <1>9 DEF Shapes
  <1> QED
    BY <1>1, <1>2, <1>4, <1>8, <1>10

\* A task reads all that came, and the last bytes end it.
LEMMA ReadFacts ==
  ASSUME Shapes, Bounds, NEW id \in Ids, TaskReads(id)
  PROVE  /\ recv' \in [Ids -> Received]
         /\ \A i \in Ids : i # id => recv'[i] = recv[i]
         /\ recv'[id].got = recv[id].got /\ recv'[id].read = recv[id].got
         /\ recv[id].read < recv[id].got
         /\ recv[id].state \notin {"absent", "DataRead"}
         /\ recv'[id].state = IF recv[id].state = "DataRecvd" THEN "DataRead" ELSE recv[id].state
  <1>1. PICK r \in Received : r = recv[id]
    BY DEF Shapes
  <1>2. PICK w : w = [r EXCEPT !.read = r.got, !.state = IF r.state = "DataRecvd" THEN "DataRead" ELSE r.state]
    OBVIOUS
  <1>3. r.read < r.got /\ recv' = [recv EXCEPT ![id] = w]
    BY <1>1, <1>2 DEF TaskReads, Shapes
  <1>4. /\ w \in Received /\ w.got = r.got /\ w.read = r.got
        /\ w.state = IF r.state = "DataRecvd" THEN "DataRead" ELSE r.state
    BY <1>2 DEF Received, States
  <1>5. recv' \in [Ids -> Received] /\ recv'[id] = w /\ \A i \in Ids : i # id => recv'[i] = recv[i]
    BY <1>3, <1>4 DEF Shapes
  <1>6. r.state \notin {"absent", "DataRead"}
    <2>1. r.got \in Nat /\ r.read \in Nat
      BY DEF Received
    <2>2. r.state = "absent" => r.got = 0
      BY <1>1 DEF Bounds
    <2>3. r.state = "DataRead" => r.got = r.read
      BY <1>1 DEF Bounds
    <2> QED
      BY <1>3, <2>1, <2>2, <2>3
  <1> QED
    BY <1>1, <1>3, <1>4, <1>5, <1>6

\* What is received are bytes of a stream that was opened.
LEMMA ReceiveFacts ==
  ASSUME TypeOK, Shapes, NEW id \in Ids, Receive(id) \/ ReceiveSome(id)
  PROVE  \E f \in Frames :
           /\ todo' = todo \union {f} /\ f.id = id /\ id < opened
           /\ f.hi \in 1..Len(Part(file, id)) /\ (f.fin => f.hi = Len(Part(file, id)))
           /\ Receive(id) => f.fin = (id \in dataSent)
  <1>1. id \in Nat /\ opened \in Nat /\ opened <= Streams /\ Streams \in Nat /\ file \in Bytes
    BY IdFacts DEF TypeOK, Streams, Shapes
  <1>2. at[id] = "sent"
    BY DEF Receive, ReceiveSome
  <1>3. id < opened
    BY <1>1, <1>2 DEF TypeOK
  <1>4. PICK n \in Nat : n = Len(Part(file, id)) /\ n >= 1
    BY <1>1, <1>3, PartFacts DEF Streams
  <1>5. CASE Receive(id)
    <2>1. PICK fin \in BOOLEAN : fin = (id \in dataSent)
      <3>1. (id \in dataSent) \in BOOLEAN
        OBVIOUS
      <3> QED
        BY <3>1
    <2>2. PICK f : f = [id |-> id, hi |-> n, fin |-> fin]
      OBVIOUS
    <2>3. f \in Frames /\ f.id = id /\ f.hi = n /\ f.fin = fin
      BY <2>2 DEF Frames
    <2>4. todo' = todo \union {f}
      BY <1>4, <1>5, <2>1, <2>2 DEF Receive
    <2> QED
      BY <1>3, <1>4, <2>1, <2>3, <2>4
  <1>6. CASE ReceiveSome(id)
    <2>1. PICK hi \in 1..(n - 1) : todo' = todo \union {[id |-> id, hi |-> hi, fin |-> FALSE]}
      BY <1>4, <1>6 DEF ReceiveSome
    <2>2. PICK f : f = [id |-> id, hi |-> hi, fin |-> FALSE]
      OBVIOUS
    <2>3. f \in Frames /\ f.id = id /\ f.hi = hi /\ f.fin = FALSE
      BY <2>1, <2>2 DEF Frames
    <2>4. ~Receive(id)
      <3>1. at'[id] = "lost"
        BY <1>6 DEF ReceiveSome, Shapes
      <3>2. Receive(id) => at'[id] = "received"
        BY DEF Receive, Shapes
      <3> QED
        BY <3>1, <3>2
    <2> QED
      <3>1. f.hi \in 1..n
        BY <1>4, <2>1, <2>3
      <3> QED
        BY <1>3, <1>4, <2>1, <2>2, <2>3, <2>4, <3>1
  <1> QED
    BY <1>5, <1>6

LEMMA NextBounds == TypeOK /\ Shapes /\ Bounds /\ [Next]_vars => Bounds'
  <1> SUFFICES ASSUME TypeOK, Shapes, Bounds, [Next]_vars PROVE Bounds'
    OBVIOUS
  <1> USE DEF ServerStep, ClientStep, serverVars, clientVars, streams, files
  <1>1. CASE file' = file /\ recv' = recv /\ todo' \subseteq todo
    BY <1>1 DEF Bounds
  <1>2. CASE Bind \/ Connect \/ Listen \/ SecondHello \/ SecondReply \/ RefusedByServer \/ Build
    BY <1>1, <1>2 DEF Bind, Connect, Listen, SecondHello, SecondReply, RefusedByServer, Build
  <1>3. CASE Open \/ CloseSends \/ Finish \/ Accept \/ Close \/ Closed \/ Merge \/ Rename \/ Exit
    BY <1>1, <1>3 DEF Open, CloseSends, Finish, Accept, Close, Closed, Merge, Rename, Exit
  <1>4. ASSUME NEW id \in Ids, Overtaken(id) \/ Refused(id) \/ ServerStream(id) PROVE Bounds'
    BY <1>1, <1>4 DEF Overtaken, Refused, ServerStream, Write, Wrote, Tick, Timeout, AckArrives
  <1>5. ASSUME NEW id \in Ids, Receive(id) \/ ReceiveSome(id) PROVE Bounds'
    <2>1. PICK f \in Frames :
            /\ todo' = todo \union {f} /\ f.id = id
            /\ f.hi \in 1..Len(Part(file, id)) /\ (f.fin => f.hi = Len(Part(file, id)))
      BY <1>5, ReceiveFacts
    <2>2. file' = file /\ recv' = recv
      BY <1>5 DEF Receive, ReceiveSome
    <2> QED
      BY <2>1, <2>2 DEF Bounds
  <1>6. ASSUME NEW id \in Ids, TaskReads(id) PROVE Bounds'
    <2>1. file' = file /\ todo' = todo
      BY <1>6 DEF TaskReads
    <2>2. PICK n \in Nat, r \in Received, w \in Received :
            n = Len(Part(file, id)) /\ r = recv[id] /\ w = recv'[id]
      BY <1>6, ReadFacts, PartFacts, IdFacts DEF Shapes
    <2>3. /\ r.got \in 0..n /\ r.read \in 0..r.got /\ w.got = r.got /\ w.read = r.got
          /\ r.state \in {"DataRecvd", "DataRead"} => r.got = n
          /\ r.state \notin {"absent", "DataRead"}
          /\ w.state = IF r.state = "DataRecvd" THEN "DataRead" ELSE r.state
      BY <1>6, <2>2, ReadFacts DEF Bounds
    <2>4. /\ w.got \in 0..n /\ w.read \in 0..w.got /\ w.state # "absent"
          /\ w.state \in {"DataRecvd", "DataRead"} => w.got = n
          /\ w.state = "DataRead" => w.read = n
      BY <2>3
    <2>5. \A i \in Ids : i # id => recv'[i] = recv[i]
      BY <1>6, ReadFacts
    <2> QED
      BY <2>1, <2>2, <2>4, <2>5 DEF Bounds
  <1>7. ASSUME NEW f \in todo, Dispatch(f) PROVE Bounds'
    <2>1. file' = file /\ todo' \subseteq todo
      BY <1>7 DEF Dispatch
    <2>2. PICK id \in Ids : id = f.id
      BY <1>7, DispatchFacts
    <2>3. PICK n \in Nat, r \in Received, w \in Received :
            n = Len(Part(file, id)) /\ r = recv[id] /\ w = recv'[id]
      BY <1>7, DispatchFacts, PartFacts, IdFacts DEF Shapes
    <2>4. /\ r.got \in 0..n /\ r.read \in 0..r.got /\ r.got <= w.got /\ w.got <= n /\ w.read = r.read
          /\ w.state # "absent"
          /\ r.state \in {"DataRecvd", "DataRead"} => r.got = n
          /\ r.state = "DataRead" => r.read = n
          /\ w.state = "DataRead" => w = r
          /\ w.state = "DataRecvd" => w = r \/ w.got = n
      BY <1>7, <2>2, <2>3, DispatchFacts DEF Bounds
    <2>5. /\ w.got \in 0..n /\ w.read \in 0..w.got
          /\ w.state \in {"DataRecvd", "DataRead"} => w.got = n
          /\ w.state = "DataRead" => w.read = n
      <3>1. w.got \in Nat /\ w.read \in Nat
        BY DEF Received
      <3> QED
        BY <2>4, <3>1
    <2>6. \A i \in Ids : i # id => recv'[i] = recv[i]
      BY <1>7, <2>2, DispatchFacts
    <2> QED
      BY <2>1, <2>3, <2>4, <2>5, <2>6 DEF Bounds
  <1>8. CASE UNCHANGED vars
    BY <1>1, <1>8 DEF vars
  <1> QED
    BY <1>2, <1>3, <1>4, <1>5, <1>6, <1>7, <1>8 DEF Next, ClientStream

LEMMA NextTypes == TypeOK /\ Shapes /\ Bounds /\ [Next]_vars => TypeOK' /\ Shapes'
  <1> SUFFICES ASSUME TypeOK, Shapes, Bounds, Bounds', [Next]_vars PROVE TypeOK' /\ Shapes'
    BY NextBounds
  <1> USE DEF ServerStep, ClientStep, serverVars, clientVars, streams, files, Bounds
  <1>0. MaxStreams \in Nat /\ Streams \in Nat /\ Streams <= MaxStreams /\ promised \in Nat /\ Ids = 0..(MaxStreams - 1)
    BY SessionConstants DEF SessionConstants, Shapes, Ids
  <1>1. CASE Bind \/ Connect \/ Listen \/ SecondHello \/ SecondReply
    BY <1>1 DEF Bind, Connect, Listen, SecondHello, SecondReply, TypeOK, Shapes, Streams
  <1>12. CASE RefusedByServer
    <2>1. client' \in {client, "failed"} /\ clientDeaf' \in BOOLEAN /\ hello' \in BOOLEAN
      BY <1>12 DEF RefusedByServer, TypeOK
    <2>2. todo' \subseteq todo
      BY <1>12 DEF RefusedByServer
    <2>3. client' \in {"starting", "building"} => client \in {"starting", "building"}
      BY <1>12 DEF RefusedByServer
    <2>4. UNCHANGED <<file, faults, reply, at, serverVars, promised, recv, queue, recvCount, accepted, files>>
      BY <1>12 DEF RefusedByServer
    <2> QED
      BY <2>1, <2>2, <2>3, <2>4 DEF TypeOK, Shapes, Streams
  <1>2. CASE Build
    <2>1. promised' \in Nat /\ total' \in 0..promised'
      <3>1. CASE TryCompress(file)
        BY <1>2, <3>1 DEF Build, TypeOK, Shapes
      <3>2. CASE ~TryCompress(file)
        <4>1. Promised(file) \in Nat
          BY <1>0, FileConstants DEF FileConstants, Promised, Streams
        <4> QED
          BY <1>2, <3>2, <4>1 DEF Build, TypeOK, Shapes
      <3> QED
        BY <3>1, <3>2
    <2> QED
      BY <1>2, <2>1 DEF Build, TypeOK, Shapes, Streams
  <1>3. CASE Open
    <2>1. opened \in Ids /\ opened + 1 \in 0..Streams /\ opened \in Nat
      BY <1>0, <1>3 DEF Open, TypeOK, Streams
    <2>2. at' \in [Ids -> Places] /\ \A id \in Ids : at'[id] = IF id = opened THEN "open" ELSE at[id]
      BY <1>3, <2>1 DEF Open, Shapes, Places
    <2>3. \A id \in Ids : at'[id] = "unopened" <=> id >= opened'
      BY <1>0, <1>3, <2>1, <2>2 DEF Open, TypeOK
    <2>4. wrote \subseteq 0..(opened' - 1)
      BY <1>3, <2>1 DEF Open, TypeOK
    <2> QED
      BY <1>3, <2>1, <2>2, <2>3, <2>4 DEF Open, TypeOK, Shapes, Streams, Places
  <1>4. CASE CloseSends \/ Finish
    BY <1>4 DEF CloseSends, Finish, TypeOK, Shapes, Streams
  <1>5. CASE Accept
    <2>1. Head(queue) \in Ids /\ Tail(queue) \in Seq(Ids)
      BY <1>5 DEF Accept, Shapes
    <2>2. disk' = [i \in 0..MaxStreams |-> disk'[i]]
      BY <1>5 DEF Accept, Shapes
    <2> QED
      BY <1>5, <2>1, <2>2 DEF Accept, TypeOK, Shapes, Streams
  <1>6. CASE Close \/ Closed \/ Rename \/ Exit
    <2>1. disk' = [i \in 0..MaxStreams |-> disk'[i]]
      BY <1>6 DEF Close, Closed, Rename, Exit, Shapes
    <2>2. total' \in 0..promised'
      BY <1>0, <1>6 DEF Close, Closed, Rename, Exit, TypeOK
    <2> QED
      BY <1>6, <2>1, <2>2 DEF Close, Closed, Rename, Exit, TypeOK, Shapes, Streams
  <1>7. CASE Merge
    <2>1. disk' = [i \in 0..MaxStreams |-> disk'[i]]
      BY <1>7 DEF Merge, Shapes, MergeRound
    <2>2. total' \in 0..promised'
      BY <1>0, <1>7 DEF Merge, TypeOK
    <2> QED
      BY <1>7, <2>1, <2>2 DEF Merge, TypeOK, Shapes, Streams
  <1>8. ASSUME NEW id \in Ids, Overtaken(id) \/ Refused(id) \/ ServerStream(id) PROVE TypeOK' /\ Shapes'
    <2>1. /\ at' \in [Ids -> Places]
          /\ \A i \in Ids : at'[i] = "unopened" <=> at[i] = "unopened"
      BY <1>8 DEF Overtaken, Refused, ServerStream, Write, Wrote, Tick, Timeout, AckArrives, Shapes, Places
    <2>2. at[id] # "unopened" => id \in 0..(opened - 1)
      BY <1>0 DEF TypeOK
    <2>3. /\ dataSent' \subseteq wrote' /\ wrote' \subseteq 0..(opened - 1)
          /\ opened' = opened
      BY <1>8, <2>2 DEF Overtaken, Refused, ServerStream, Write, Wrote, Tick, Timeout, AckArrives, TypeOK
    <2>4. /\ client' \in {client, "panicked"} /\ serverDeaf' \in BOOLEAN
          /\ UNCHANGED <<file, faults, hello, reply, server, clientDeaf, promised, streams, files>>
      BY <1>8 DEF Overtaken, Refused, ServerStream, Write, Wrote, Tick, Timeout, AckArrives, TypeOK
    <2> QED
      BY <2>1, <2>3, <2>4 DEF TypeOK, Shapes, Streams, Places
  <1>9. ASSUME NEW id \in Ids, ClientStream(id) PROVE TypeOK' /\ Shapes'
    <2>1. CASE Receive(id) \/ ReceiveSome(id)
      <3>1. PICK f \in Frames : todo' = todo \union {f} /\ f.id = id
        BY <2>1, ReceiveFacts
      <3>2. at' \in [Ids -> Places] /\ \A i \in Ids : at'[i] = "unopened" <=> at[i] = "unopened"
        BY <2>1 DEF Receive, ReceiveSome, Shapes, Places
      <3>3. UNCHANGED <<file, faults, hello, reply, serverVars, client, clientDeaf, promised, recv, queue,
                        recvCount, accepted, files>>
        BY <2>1 DEF Receive, ReceiveSome
      <3> QED
        BY <3>1, <3>2, <3>3 DEF TypeOK, Shapes, Streams, Places, Frames
    <2>2. CASE TaskReads(id)
      <3>1. recv' \in [Ids -> Received] /\ disk' = [i \in 0..MaxStreams |-> disk'[i]]
        BY <2>2, ReadFacts DEF TaskReads, Shapes
      <3> QED
        BY <2>2, <3>1 DEF TaskReads, TypeOK, Shapes, Streams, Received, States
    <2> QED
      BY <1>9, <2>1, <2>2 DEF ClientStream
  <1>11. ASSUME NEW f \in todo, Dispatch(f) PROVE TypeOK' /\ Shapes'
    <2>1. recv' \in [Ids -> Received] /\ f.id \in Ids
      BY <1>11, DispatchFacts
    <2>2. queue' \in Seq(Ids)
      BY <1>11, <2>1 DEF Dispatch, Shapes
    <2>3. todo' \subseteq todo
      BY <1>11 DEF Dispatch
    <2> QED
      BY <1>11, <2>1, <2>2, <2>3 DEF Dispatch, TypeOK, Shapes, Streams, Received, States
  <1>10. CASE UNCHANGED vars
    BY <1>10 DEF vars, TypeOK, Shapes, Streams
  <1> QED
    BY <1>1, <1>2, <1>3, <1>4, <1>5, <1>6, <1>7, <1>8, <1>9, <1>10, <1>11, <1>12 DEF Next
-----------------------------------------------------------------------------
(***************************************************************************)
(* Streams are accepted once each.                                         *)
(***************************************************************************)
LEMMA NextAnswered == TypeOK /\ Shapes /\ Answered /\ [Next]_vars => Answered'
  <1> SUFFICES ASSUME TypeOK, Shapes, Answered, [Next]_vars PROVE Answered'
    OBVIOUS
  <1> USE DEF ServerStep, ClientStep, serverVars, clientVars, streams, files, ClientRuns, Answered
  <1>1. CASE Bind \/ Connect \/ Listen \/ SecondHello \/ SecondReply \/ RefusedByServer \/ Build
    BY <1>1 DEF Bind, Connect, Listen, SecondHello, SecondReply, RefusedByServer, Build
  <1>2. CASE Open \/ CloseSends \/ Finish
    BY <1>2 DEF Open, CloseSends, Finish
  <1>3. CASE Accept \/ Close \/ Closed \/ Merge \/ Rename \/ Exit
    BY <1>3 DEF Accept, Close, Closed, Merge, Rename, Exit
  <1>4. ASSUME NEW id \in Ids, Overtaken(id) \/ Refused(id) \/ ServerStream(id) PROVE Answered'
    BY <1>4 DEF Overtaken, Refused, ServerStream, Write, Wrote, Tick, Timeout, AckArrives
  <1>5. ASSUME NEW id \in Ids, ClientStream(id) PROVE Answered'
    BY <1>5 DEF ClientStream, Receive, ReceiveSome, TaskReads
  <1>6. ASSUME NEW f \in todo, Dispatch(f) PROVE Answered'
    BY <1>6 DEF Dispatch
  <1>7. CASE UNCHANGED vars
    BY <1>7 DEF vars
  <1> QED
    BY <1>1, <1>2, <1>3, <1>4, <1>5, <1>6, <1>7 DEF Next

LEMMA NextOnlyOpened == TypeOK /\ Shapes /\ Bounds /\ OnlyOpened /\ [Next]_vars => OnlyOpened'
  <1> SUFFICES ASSUME TypeOK, Shapes, Bounds, OnlyOpened, [Next]_vars PROVE OnlyOpened'
    OBVIOUS
  <1> USE DEF ServerStep, ClientStep, serverVars, clientVars, streams, files, OnlyOpened
  <1>0. opened \in Int /\ Ids \subseteq Int
    BY DEF TypeOK, Ids
  <1>1. CASE Bind \/ Connect \/ Listen \/ SecondHello \/ SecondReply \/ RefusedByServer \/ Build
    BY <1>1 DEF Bind, Connect, Listen, SecondHello, SecondReply, RefusedByServer, Build
  <1>2. CASE Open \/ CloseSends \/ Finish
    <2>1. opened' \in {opened, opened + 1} /\ UNCHANGED <<todo, recv>>
      BY <1>2 DEF Open, CloseSends, Finish
    <2>2. \A f \in todo : f.id \in Int
      BY <1>0 DEF TypeOK
    <2> QED
      BY <1>0, <2>1, <2>2
  <1>3. CASE Accept \/ Close \/ Closed \/ Merge \/ Rename \/ Exit
    BY <1>3 DEF Accept, Close, Closed, Merge, Rename, Exit
  <1>4. ASSUME NEW id \in Ids, Overtaken(id) \/ Refused(id) \/ ServerStream(id) PROVE OnlyOpened'
    BY <1>4 DEF Overtaken, Refused, ServerStream, Write, Wrote, Tick, Timeout, AckArrives
  <1>5. ASSUME NEW id \in Ids, Receive(id) \/ ReceiveSome(id) PROVE OnlyOpened'
    <2>1. \E f \in Frames : todo' = todo \union {f} /\ f.id = id /\ id < opened
      BY <1>5, ReceiveFacts
    <2>2. UNCHANGED <<opened, recv>>
      BY <1>5 DEF Receive, ReceiveSome
    <2> QED
      BY <2>1, <2>2
  <1>6. ASSUME NEW id \in Ids, TaskReads(id) PROVE OnlyOpened'
    <2>1. \A i \in Ids : recv'[i].state # "absent" => recv[i].state # "absent"
      BY <1>6, ReadFacts
    <2> QED
      BY <1>6, <2>1 DEF TaskReads
  <1>7. ASSUME NEW f \in todo, Dispatch(f) PROVE OnlyOpened'
    <2>1. f.id < opened /\ todo' \subseteq todo /\ opened' = opened
      BY <1>7 DEF Dispatch
    <2> QED
      BY <1>7, <2>1, DispatchFacts
  <1>8. CASE UNCHANGED vars
    BY <1>8 DEF vars
  <1> QED
    BY <1>1, <1>2, <1>3, <1>4, <1>5, <1>6, <1>7, <1>8 DEF Next, ClientStream

LEMMA AcceptedFinite ==
  ASSUME TypeOK
  PROVE  IsFiniteSet(accepted) /\ Cardinality(accepted) \in Nat
  <1>1. MaxStreams \in Nat
    BY SessionConstants DEF SessionConstants
  <1>2. IsFiniteSet(Ids)
    BY <1>1, FS_Interval DEF Ids
  <1>3. IsFiniteSet(accepted)
    BY <1>2, FS_Subset DEF TypeOK
  <1> QED
    BY <1>3, FS_CardinalityType

\* Handler<Dispatch>: a stream goes into the queue with its first frame.
LEMMA DispatchQueueing ==
  ASSUME TypeOK, Shapes, Bounds, Queueing, NEW f \in todo, Dispatch(f)
  PROVE  Queueing'
  <1> USE DEF ClientStep
  <1>0. PICK id \in Ids : id = f.id
    BY DispatchFacts
  <1>1. recv'[id].state # "absent" /\ \A i \in Ids : i # id => recv'[i] = recv[i]
    BY <1>0, DispatchFacts
  <1>2. UNCHANGED <<accepted, recvCount, promised>>
    BY DEF Dispatch, ClientStep
  <1>3. CASE recv[id].state # "absent"
    <2>1. queue' = queue
      BY <1>0, <1>3 DEF Dispatch
    <2> QED
      BY <1>1, <1>2, <1>3, <2>1 DEF Queueing, InQueue
  <1>4. CASE recv[id].state = "absent"
    <2>1. queue' = Append(queue, id) /\ queue \in Seq(Ids)
      BY <1>0, <1>4 DEF Dispatch, Shapes
    <2>2. /\ Len(queue') = Len(queue) + 1 /\ Len(queue) \in Nat
          /\ \A i \in 1..Len(queue) : queue'[i] = queue[i]
          /\ queue'[Len(queue) + 1] = id
      BY <2>1, AppendProperties
    <2>3. id \notin accepted /\ ~InQueue(id)
      BY <1>4 DEF Queueing
    <2>4. \A i \in Ids : InQueue(i)' <=> InQueue(i) \/ i = id
      BY <2>2 DEF InQueue
    <2>5. \A i, j \in 1..Len(queue') : queue'[i] = queue'[j] => i = j
      <3>1. \A i \in 1..Len(queue) : queue[i] # id
        BY <2>3 DEF InQueue
      <3> QED
        BY <2>2, <3>1 DEF Queueing
    <2>6. accepted \subseteq Ids
      BY DEF TypeOK
    <2> QED
      BY <1>1, <1>2, <2>3, <2>4, <2>5, <2>6 DEF Queueing
  <1> QED
    BY <1>3, <1>4

\* Streams::accept: the head of the queue becomes an accepted stream.
LEMMA AcceptQueueing ==
  ASSUME TypeOK, Shapes, Queueing, Accept
  PROVE  Queueing'
  <1> USE DEF ClientStep
  <1>0. PICK id : id = Head(queue)
    OBVIOUS
  <1>1. /\ queue # <<>> /\ queue' = Tail(queue) /\ queue \in Seq(Ids)
        /\ recvCount' = recvCount + 1 /\ recvCount # promised
        /\ accepted' = accepted \union {id}
        /\ UNCHANGED <<recv, promised>>
    BY <1>0 DEF Accept, Accepting, Shapes
  <1>2. /\ Len(queue) \in Nat /\ Len(queue) > 0 /\ queue[1] = id /\ id \in Ids
        /\ Len(queue') = Len(queue) - 1
        /\ \A i \in 1..Len(queue') : queue'[i] = queue[i + 1]
    BY <1>0, <1>1, HeadTailProperties
  <1>3. id \notin accepted
    BY <1>2 DEF Queueing, InQueue
  <1>4. ~InQueue(id)'
    <2>1. \A i \in 1..Len(queue') : i + 1 \in 1..Len(queue) /\ 1 \in 1..Len(queue) /\ i + 1 # 1
      BY <1>2
    <2> QED
      BY <1>2, <2>1 DEF Queueing, InQueue
  <1>5. \A i \in Ids : InQueue(i) <=> InQueue(i)' \/ i = id
    <2>1. \A k \in 1..Len(queue) : k = 1 \/ (k - 1 \in 1..Len(queue') /\ (k - 1) + 1 = k)
      BY <1>2
    <2>2. \A k \in 1..Len(queue') : k + 1 \in 1..Len(queue)
      BY <1>2
    <2> QED
      BY <1>2, <2>1, <2>2 DEF InQueue
  <1>6. \A i, j \in 1..Len(queue') : queue'[i] = queue'[j] => i = j
    <2>1. \A i, j \in 1..Len(queue') :
            i + 1 \in 1..Len(queue) /\ j + 1 \in 1..Len(queue) /\ (i + 1 = j + 1 => i = j)
      BY <1>2
    <2> QED
      BY <1>2, <2>1 DEF Queueing
  <1>7. Cardinality(accepted') = Cardinality(accepted) + 1 /\ Cardinality(accepted) \in Nat
    BY <1>1, <1>3, AcceptedFinite, FS_AddElement
  <1>8. recvCount' = Cardinality(accepted') /\ recvCount' <= promised'
    BY <1>1, <1>7 DEF Queueing, Shapes
  <1>9. \A i \in accepted' : ~InQueue(i)'
    <2>1. accepted \subseteq Ids
      BY DEF TypeOK
    <2> QED
      BY <1>1, <1>4, <1>5, <2>1 DEF Queueing
  <1>10. \A i \in Ids : i \in accepted' \/ InQueue(i)' <=> recv'[i].state # "absent"
    BY <1>1, <1>5 DEF Queueing
  <1> QED
    BY <1>6, <1>8, <1>9, <1>10 DEF Queueing

LEMMA NextQueueing == TypeOK /\ Shapes /\ Bounds /\ Answered /\ Queueing /\ [Next]_vars => Queueing'
  <1> SUFFICES ASSUME TypeOK, Shapes, Bounds, Answered, Queueing, [Next]_vars PROVE Queueing'
    OBVIOUS
  <1> USE DEF ServerStep, ClientStep, serverVars, clientVars, streams, files
  <1>1. CASE Bind \/ Connect \/ Listen \/ SecondHello \/ SecondReply \/ RefusedByServer
    BY <1>1 DEF Bind, Connect, Listen, SecondHello, SecondReply, RefusedByServer, Queueing, InQueue
  <1>2. CASE Build
    <2>1. Promised(file) \in Nat
      BY FileConstants DEF FileConstants, Promised, Shapes, Streams
    <2>2. recvCount = 0 /\ UNCHANGED <<queue, recvCount, accepted, recv>>
      BY <1>2 DEF Build, Answered
    <2>3. recvCount <= promised'
      BY <1>2, <2>1, <2>2 DEF Build, Queueing
    <2> QED
      BY <2>2, <2>3 DEF Queueing, InQueue
  <1>3. CASE Open \/ CloseSends \/ Finish
    BY <1>3 DEF Open, CloseSends, Finish, Queueing, InQueue
  <1>4. CASE Close \/ Closed \/ Merge \/ Rename \/ Exit
    BY <1>4 DEF Close, Closed, Merge, Rename, Exit, Queueing, InQueue
  <1>5. ASSUME NEW id \in Ids, Overtaken(id) \/ Refused(id) \/ ServerStream(id) \/ Receive(id) \/ ReceiveSome(id)
        PROVE  Queueing'
    BY <1>5 DEF Overtaken, Refused, ServerStream, Write, Wrote, Tick, Timeout, AckArrives, Receive, ReceiveSome,
                Queueing, InQueue
  <1>6. ASSUME NEW id \in Ids, TaskReads(id) PROVE Queueing'
    <2>1. \A i \in Ids : recv'[i].state # "absent" <=> recv[i].state # "absent"
      BY <1>6, ReadFacts
    <2>2. UNCHANGED <<queue, recvCount, accepted, promised>>
      BY <1>6 DEF TaskReads
    <2> QED
      BY <2>1, <2>2 DEF Queueing, InQueue
  <1>7. CASE UNCHANGED vars
    BY <1>7 DEF vars, Queueing, InQueue
  <1> QED
    BY <1>1, <1>2, <1>3, <1>4, <1>5, <1>6, <1>7, AcceptQueueing, DispatchQueueing DEF Next, ClientStream
-----------------------------------------------------------------------------
(***************************************************************************)
(* What an acknowledged fin means.                                         *)
(***************************************************************************)

\* What came to the client is not forgotten, unless its Receiver is gone.
LEMMA EndStays ==
  ASSUME TypeOK, Shapes, Bounds, [Next]_vars, NEW id \in Ids, EndCame(id)
  PROVE  EndCame(id)'
  <1> USE DEF ServerStep, ClientStep, serverVars, clientVars, streams, files, EndCame
  <1>1. CASE Bind \/ Connect \/ Listen \/ SecondHello \/ SecondReply \/ RefusedByServer \/ Build
    BY <1>1 DEF Bind, Connect, Listen, SecondHello, SecondReply, RefusedByServer, Build
  <1>2. CASE Open \/ CloseSends \/ Finish
    BY <1>2 DEF Open, CloseSends, Finish
  <1>3. CASE Accept \/ Close \/ Closed \/ Merge \/ Rename \/ Exit
    BY <1>3 DEF Accept, Close, Closed, Merge, Rename, Exit
  <1>4. ASSUME NEW i \in Ids, Overtaken(i) \/ Refused(i) \/ ServerStream(i) PROVE EndCame(id)'
    BY <1>4 DEF Overtaken, Refused, ServerStream, Write, Wrote, Tick, Timeout, AckArrives
  <1>5. ASSUME NEW i \in Ids, Receive(i) \/ ReceiveSome(i) PROVE EndCame(id)'
    <2>1. todo \subseteq todo' /\ UNCHANGED <<recv, clientDeaf>>
      BY <1>5 DEF Receive, ReceiveSome
    <2> QED
      BY <2>1
  <1>6. ASSUME NEW i \in Ids, TaskReads(i) PROVE EndCame(id)'
    <2>1. recv[id].state \in {"SizeKnown", "DataRecvd", "DataRead"} =>
            recv'[id].state \in {"SizeKnown", "DataRecvd", "DataRead"}
      BY <1>6, ReadFacts
    <2> QED
      BY <1>6, <2>1 DEF TaskReads
  <1>7. ASSUME NEW f \in todo, Dispatch(f) PROVE EndCame(id)'
    <2>1. todo' = todo \ {f} /\ clientDeaf' = clientDeaf
      BY <1>7 DEF Dispatch
    <2>2. CASE f.id = id
      <3>1. f.fin => recv'[id].state \in {"SizeKnown", "DataRecvd", "DataRead"}
        BY <1>7, <2>2, DispatchFacts
      <3>2. recv[id].state \in {"SizeKnown", "DataRecvd", "DataRead"} =>
              recv'[id].state \in {"SizeKnown", "DataRecvd", "DataRead"}
        BY <1>7, <2>2, DispatchFacts
      <3> QED
        BY <2>1, <3>1, <3>2
    <2>3. CASE f.id # id
      <3>1. recv'[id] = recv[id]
        BY <1>7, <2>3, DispatchFacts
      <3> QED
        BY <2>1, <2>3, <3>1
    <2> QED
      BY <2>2, <2>3
  <1>8. CASE UNCHANGED vars
    BY <1>8 DEF vars
  <1> QED
    BY <1>1, <1>2, <1>3, <1>4, <1>5, <1>6, <1>7, <1>8 DEF Next, ClientStream

\* The fin of a stream that was handed out comes with the packet received since.
LEMMA NextFins == TypeOK /\ Shapes /\ Bounds /\ Fins /\ [Next]_vars => Fins'
  <1> SUFFICES ASSUME TypeOK, Shapes, Bounds, Fins, [Next]_vars PROVE Fins'
    OBVIOUS
  <1> USE DEF ServerStep, ClientStep, serverVars, clientVars, streams, files
  <1>1. ASSUME NEW id \in Ids, id \in dataSent', at'[id] \in {"received", "acked"}
        PROVE  EndCame(id)'
    <2>1. ASSUME id \in dataSent, at[id] \in {"received", "acked"} PROVE EndCame(id)'
      BY <2>1, EndStays DEF Fins
    <2>2. CASE UNCHANGED <<at, dataSent>>
      BY <1>1, <2>1, <2>2
    <2>3. CASE Open
      BY <1>1, <2>1, <2>3 DEF Open, Shapes
    <2>4. ASSUME NEW i \in Ids, Overtaken(i) \/ Refused(i) \/ ServerStream(i) PROVE EndCame(id)'
      BY <1>1, <2>1, <2>4 DEF Overtaken, Refused, ServerStream, Write, Wrote, Tick, Timeout, AckArrives, Shapes
    <2>5. ASSUME NEW i \in Ids, Receive(i) \/ ReceiveSome(i) PROVE EndCame(id)'
      <3>1. CASE i = id
        <4>1. Receive(id)
          <5>1. at'[id] = "lost" => FALSE
            BY <1>1
          <5> QED
            BY <2>5, <3>1, <5>1 DEF ReceiveSome, Shapes
        <4>2. id \in dataSent
          BY <1>1, <4>1 DEF Receive
        <4>3. \E f \in todo' : f.id = id /\ f.fin
          BY <4>1, <4>2, ReceiveFacts
        <4> QED
          BY <4>3 DEF EndCame
      <3>2. CASE i # id
        BY <1>1, <2>1, <2>5, <3>2 DEF Receive, ReceiveSome, Shapes
      <3> QED
        BY <3>1, <3>2
    <2>6. CASE Bind \/ Connect \/ Listen \/ SecondHello \/ SecondReply \/ RefusedByServer \/ Build
      BY <2>2, <2>6 DEF Bind, Connect, Listen, SecondHello, SecondReply, RefusedByServer, Build
    <2>7. CASE CloseSends \/ Finish \/ Accept \/ Close \/ Closed \/ Merge \/ Rename \/ Exit
      BY <2>2, <2>7 DEF CloseSends, Finish, Accept, Close, Closed, Merge, Rename, Exit
    <2>8. ASSUME NEW i \in Ids, TaskReads(i) PROVE EndCame(id)'
      BY <2>2, <2>8 DEF TaskReads
    <2>10. ASSUME NEW f \in todo, Dispatch(f) PROVE EndCame(id)'
      BY <2>2, <2>10 DEF Dispatch
    <2>9. CASE UNCHANGED vars
      BY <2>2, <2>9 DEF vars
    <2> QED
      BY <2>3, <2>4, <2>5, <2>6, <2>7, <2>8, <2>9, <2>10 DEF Next, ClientStream
  <1>2. file' = file
    BY DEF Next, Bind, Connect, Listen, SecondHello, SecondReply, RefusedByServer, Build, Open, CloseSends,
           Finish, Accept, Close, Closed, Merge, Rename, Exit, Overtaken, Refused, ServerStream,
           ClientStream, Write, Wrote, Tick, Timeout, AckArrives, Receive,
           ReceiveSome, TaskReads, Dispatch, vars
  <1>3. opened \in Nat /\ opened <= Streams /\ Streams \in Nat /\ Streams <= MaxStreams
    BY IdFacts DEF TypeOK, Streams
  <1>4. CASE CloseSends
    <2>1. server' = "closing" /\ UNCHANGED <<opened, file>> /\ opened = Streams
      BY <1>4 DEF CloseSends, Streams
    <2> QED
      BY <1>1, <2>1 DEF Fins, Streams
  <1>5. CASE Finish
    <2>1. server = "closing" /\ AllSent /\ UNCHANGED <<at, opened, wrote, dataSent, file>>
      BY <1>5 DEF Finish
    <2>2. ASSUME ~TryCompress(file), NEW id \in 0..(Streams - 1) PROVE at[id] = "acked" /\ id \in dataSent
      BY <2>1, <2>2 DEF AllSent, Fins
    <2> QED
      BY <1>1, <2>1, <2>2 DEF Fins, Streams
  <1>6. CASE server' = server \/ (server' \in {"closing", "finished"} => TryCompress(file))
    <2>1. ASSUME server' = server, server \in {"closing", "finished"}, ~TryCompress(file)
          PROVE  opened' = opened
      BY <2>1 DEF Next, Bind, Connect, Listen, SecondHello, SecondReply, RefusedByServer, Build, Open, CloseSends,
           Finish, Accept, Close, Closed, Merge, Rename, Exit, Overtaken, Refused, ServerStream,
           ClientStream, Write, Wrote, Tick, Timeout, AckArrives, Receive, ReceiveSome, TaskReads,
           Dispatch, vars
    <2>2. ASSUME server' = server, server = "finished", ~TryCompress(file), NEW id \in 0..(Streams - 1)
          PROVE  at'[id] = "acked" /\ id \in dataSent'
      <3>1. at[id] = "acked" /\ id \in dataSent /\ id \in Ids
        <4>1. at[id] = "acked" /\ id \in dataSent
          BY <2>2 DEF Fins
        <4>2. id \in Ids
          BY <1>3, IdFacts
        <4> QED
          BY <4>1, <4>2
      <3>2. ASSUME NEW i \in Ids, Overtaken(i) \/ Refused(i) \/ ServerStream(i) \/ ClientStream(i)
            PROVE  at'[id] = "acked" /\ id \in dataSent'
        BY <3>1, <3>2 DEF Overtaken, Refused, ServerStream, ClientStream, Write, Wrote, Tick, Timeout, AckArrives,
                          Receive, ReceiveSome, TaskReads, Dispatch, Shapes
      <3>3. ASSUME NEW f \in todo, Dispatch(f) PROVE at'[id] = "acked" /\ id \in dataSent'
        BY <3>1, <3>3 DEF Dispatch
      <3> QED
        BY <2>2, <3>1, <3>2, <3>3 DEF Next, Bind, Connect, Listen, SecondHello, SecondReply, RefusedByServer, Build, Open,
             CloseSends, Finish, Accept, Close, Closed, Merge, Rename, Exit, vars
    <2> QED
      BY <1>1, <1>2, <1>6, <2>1, <2>2 DEF Fins, Streams
  <1>7. server' = server \/ CloseSends \/ Finish \/ (server' \in {"closing", "finished"} => TryCompress(file))
    BY DEF Next, Bind, Connect, Listen, SecondHello, SecondReply, RefusedByServer, Build, Open,
           Accept, Close, Closed, Merge, Rename, Exit, Overtaken, Refused, ServerStream,
           ClientStream, Write, Wrote, Tick, Timeout, AckArrives, Receive,
           ReceiveSome, TaskReads, Dispatch, vars
  <1> QED
    BY <1>4, <1>5, <1>6, <1>7
\* What the network does is fixed.
LEMMA FaultsStay ==
  ASSUME [Next]_vars
  PROVE  faults' = faults /\ (Gone => Gone')
  BY DEF Gone, Next, Bind, Connect, Listen, SecondHello, SecondReply, RefusedByServer, Build, Open, CloseSends,
         Finish, Accept, Close, Closed, Merge, Rename, Exit, Overtaken, Refused, ServerStream,
         ClientStream, Write, Wrote, Tick, Timeout, AckArrives, Receive, ReceiveSome, TaskReads,
         Dispatch, vars, ServerStep, ClientStep, serverVars, clientVars, streams, files, ClientRuns

\* Without a loss nothing is sent twice and received twice.
LEMMA NextLossless == TypeOK /\ Shapes /\ Bounds /\ TaskFiles /\ Lossless /\ [Next]_vars => Lossless'
  <1> SUFFICES ASSUME TypeOK, Shapes, Bounds, TaskFiles, Lossless, [Next]_vars, "loss" \notin faults,
                      NEW id \in Ids
               PROVE  /\ ~Gone' /\ ~serverDeaf' =>
                           /\ at'[id] # "lost"
                           /\ at'[id] \in {"unopened", "open", "written", "sent"} => Nothing(id)'
                      /\ at'[id] = "acked" \/ (at'[id] = "received" /\ ~serverDeaf') => Once(id)'
    BY FaultsStay DEF Lossless
  <1> USE DEF ServerStep, ClientStep, serverVars, clientVars, streams, files
  <1>0. /\ ~Gone /\ ~serverDeaf =>
             at[id] # "lost" /\ (at[id] \in {"unopened", "open", "written", "sent"} => Nothing(id))
        /\ at[id] = "acked" \/ (at[id] = "received" /\ ~serverDeaf) => Once(id)
        /\ ~Gone' => ~Gone
    BY FaultsStay DEF Lossless
  <1>1. CASE /\ recv' = recv /\ todo' \subseteq todo /\ at'[id] = at[id]
             /\ ~serverDeaf' => ~serverDeaf
    BY <1>0, <1>1 DEF Nothing, Once
  <1>2. CASE Bind \/ Connect \/ Listen \/ SecondHello \/ SecondReply \/ RefusedByServer \/ Build
    BY <1>1, <1>2 DEF Bind, Connect, Listen, SecondHello, SecondReply, RefusedByServer, Build
  <1>3. CASE CloseSends \/ Finish \/ Accept \/ Close \/ Closed \/ Merge \/ Rename \/ Exit
    BY <1>1, <1>3 DEF CloseSends, Finish, Accept, Close, Closed, Merge, Rename, Exit
  <1>4. CASE Open
    <2>1. UNCHANGED <<recv, todo, serverDeaf>>
      BY <1>4 DEF Open
    <2>2. at'[id] = at[id] \/ (at'[id] = "open" /\ at[id] = "unopened")
      <3>1. opened \in Int
        BY DEF TypeOK
      <3>2. id = opened => at[id] = "unopened"
        BY <3>1 DEF TypeOK
      <3> QED
        BY <1>4, <3>2 DEF Open, Shapes
    <2> QED
      BY <1>0, <2>1, <2>2 DEF Nothing, Once
  <1>5. ASSUME NEW i \in Ids, Overtaken(i) \/ Refused(i) \/ ServerStream(i)
        PROVE  /\ ~Gone' /\ ~serverDeaf' =>
                    /\ at'[id] # "lost"
                    /\ at'[id] \in {"unopened", "open", "written", "sent"} => Nothing(id)'
               /\ at'[id] = "acked" \/ (at'[id] = "received" /\ ~serverDeaf') => Once(id)'
    <2>1. UNCHANGED <<recv, todo>> /\ (~serverDeaf' => ~serverDeaf)
      BY <1>5 DEF Overtaken, Refused, ServerStream, Write, Wrote, Tick, Timeout, AckArrives
    <2>2. Nothing(id)' = Nothing(id) /\ Once(id)' = Once(id)
      BY <2>1 DEF Nothing, Once
    <2>3. \/ at'[id] = at[id]
          \/ at[id] = "open" /\ at'[id] = "written"
          \/ at[id] \in {"written", "lost"} /\ at'[id] = "sent"
          \/ at[id] = "received" /\ at'[id] = "acked" /\ ~serverDeaf
          \/ at'[id] = "lost" /\ (Gone' \/ serverDeaf')
      BY <1>5 DEF Overtaken, Refused, ServerStream, Write, Wrote, Tick, Timeout, AckArrives, Shapes, Gone
    <2> QED
      BY <1>0, <2>1, <2>2, <2>3
  <1>6. ASSUME NEW i \in Ids, Receive(i) \/ ReceiveSome(i)
        PROVE  /\ ~Gone' /\ ~serverDeaf' =>
                    /\ at'[id] # "lost"
                    /\ at'[id] \in {"unopened", "open", "written", "sent"} => Nothing(id)'
               /\ at'[id] = "acked" \/ (at'[id] = "received" /\ ~serverDeaf') => Once(id)'
    <2>1. Receive(i)
      BY <1>6 DEF ReceiveSome
    <2>2. PICK f \in Frames : todo' = todo \union {f} /\ f.id = i
      BY <2>1, ReceiveFacts
    <2>3. UNCHANGED <<recv, serverDeaf>>
      BY <2>1 DEF Receive
    <2>4. CASE i = id
      <3>1. at[id] = "sent" /\ at'[id] = "received" /\ ~Gone
        BY <2>1, <2>4 DEF Receive, Shapes, ClientRuns, Gone
      <3>2. ~serverDeaf => Nothing(id)
        BY <1>0, <3>1
      <3>3. Nothing(id) => Once(id)'
        BY <2>2, <2>3 DEF Nothing, Once
      <3> QED
        BY <2>3, <3>1, <3>2, <3>3
    <2>5. CASE i # id
      <3>1. at'[id] = at[id]
        BY <2>1, <2>5 DEF Receive, Shapes
      <3>2. (Nothing(id) => Nothing(id)') /\ (Once(id) => Once(id)')
        BY <2>2, <2>3, <2>5 DEF Nothing, Once
      <3> QED
        BY <1>0, <2>3, <3>1, <3>2
    <2> QED
      BY <2>4, <2>5
  <1>7. ASSUME NEW i \in Ids, TaskReads(i)
        PROVE  /\ ~Gone' /\ ~serverDeaf' =>
                    /\ at'[id] # "lost"
                    /\ at'[id] \in {"unopened", "open", "written", "sent"} => Nothing(id)'
               /\ at'[id] = "acked" \/ (at'[id] = "received" /\ ~serverDeaf') => Once(id)'
    <2>1. UNCHANGED <<at, todo, serverDeaf>>
      BY <1>7 DEF TaskReads
    <2>2. /\ recv[id].state = "absent" <=> recv'[id].state = "absent"
          /\ recv[id].state = "SizeKnown" <=> recv'[id].state = "SizeKnown"
      BY <1>7, ReadFacts
    <2>3. (Nothing(id) => Nothing(id)') /\ (Once(id) => Once(id)')
      BY <2>1, <2>2 DEF Nothing, Once
    <2> QED
      BY <1>0, <2>1, <2>3
  <1>8. ASSUME NEW f \in todo, Dispatch(f)
        PROVE  /\ ~Gone' /\ ~serverDeaf' =>
                    /\ at'[id] # "lost"
                    /\ at'[id] \in {"unopened", "open", "written", "sent"} => Nothing(id)'
               /\ at'[id] = "acked" \/ (at'[id] = "received" /\ ~serverDeaf') => Once(id)'
    <2>1. UNCHANGED <<at, serverDeaf>> /\ todo' = todo \ {f}
      BY <1>8 DEF Dispatch
    <2>2. CASE f.id # id
      <3>1. recv'[id] = recv[id]
        BY <1>8, <2>2, DispatchFacts
      <3>2. (Nothing(id) => Nothing(id)') /\ (Once(id) => Once(id)')
        BY <2>1, <3>1 DEF Nothing, Once
      <3> QED
        BY <1>0, <2>1, <3>2
    <2>3. CASE f.id = id
      <3>1. ~Nothing(id)
        BY <2>3 DEF Nothing
      <3>2. ASSUME Once(id) PROVE Once(id)'
        <4>1. recv[id].state = "absent" /\ \A g \in todo' : g.id # id
          BY <2>1, <2>3, <3>2 DEF Once
        <4>2. recv[id].read = 0
          <5>1. recv[id].got = 0 /\ recv[id].read \in 0..recv[id].got
            BY <4>1 DEF Bounds
          <5> QED
            BY <5>1
        <4>3. recv'[id].state # "SizeKnown"
          BY <1>8, <2>3, <4>1, <4>2, DispatchFacts
        <4> QED
          BY <4>1, <4>3 DEF Once
      <3> QED
        BY <1>0, <2>1, <3>1, <3>2
    <2> QED
      BY <2>2, <2>3
  <1>9. CASE UNCHANGED vars
    BY <1>1, <1>9 DEF vars
  <1> QED
    BY <1>2, <1>3, <1>4, <1>5, <1>6, <1>7, <1>8, <1>9 DEF Next, ClientStream
-----------------------------------------------------------------------------
(***************************************************************************)
(* The temporary files, until all streams are closed.                      *)
(***************************************************************************)
LEMMA NothingAccepted ==
  ASSUME TypeOK, Queueing, recvCount = 0
  PROVE  \A id : id \notin accepted
  <1>1. Cardinality(accepted) = 0
    BY DEF Queueing
  <1>2. accepted = {}
    BY <1>1, AcceptedFinite, FS_EmptySet
  <1> QED
    BY <1>2

\* accept() and the task that it starts find the stream unread.
LEMMA AcceptTaskFiles ==
  ASSUME TypeOK, Shapes, Queueing, TaskFiles, Accept
  PROVE  TaskFiles'
  <1> USE DEF ClientStep
  <1>0. PICK id : id = Head(queue)
    OBVIOUS
  <1>1. /\ client' = "receiving" /\ client = "receiving" /\ queue # <<>> /\ queue \in Seq(Ids)
        /\ accepted' = accepted \union {id} /\ disk' = [disk EXCEPT ![id] = <<>>]
        /\ UNCHANGED <<recv, file>>
    BY <1>0 DEF Accept, Shapes
  <1>2. Len(queue) \in Nat /\ Len(queue) > 0 /\ queue[1] = id /\ id \in Ids
    BY <1>0, <1>1, HeadTailProperties
  <1>3. id \notin accepted
    BY <1>2 DEF Queueing, InQueue
  <1>4. recv[id].read = 0
    BY <1>2, <1>3 DEF TaskFiles
  <1>5. id \in 0..MaxStreams /\ accepted \subseteq Ids
    BY <1>2, IdFacts DEF TypeOK
  <1>6. disk'[id] = <<>> /\ \A i \in accepted : disk'[i] = disk[i]
    BY <1>1, <1>3, <1>5 DEF Shapes
  <1>7. SubSeq(Part(file, id), 1, 0) = <<>>
    <2>1. Part(file, id) \in Bytes
      BY <1>2, PartFacts, IdFacts DEF Shapes
    <2> QED
      BY <2>1 DEF Bytes
  <1>8. \A i \in accepted' : disk'[i] = SubSeq(Part(file, i), 1, recv[i].read)
    BY <1>1, <1>4, <1>6, <1>7 DEF TaskFiles
  <1>9. \A i \in Ids : i \notin accepted' => recv'[i].read = 0
    BY <1>1 DEF TaskFiles
  <1> QED
    BY <1>1, <1>8, <1>9 DEF TaskFiles

LEMMA ReadTaskFiles ==
  ASSUME TypeOK, Shapes, Bounds, TaskFiles, NEW id \in Ids, TaskReads(id)
  PROVE  TaskFiles'
  <1> USE DEF ClientStep
  <1>1. /\ id \in accepted /\ accepted \subseteq Ids
        /\ disk' = [disk EXCEPT ![id] = disk[id] \o SubSeq(Part(file, id), recv[id].read + 1, recv[id].got)]
        /\ UNCHANGED <<client, accepted, recvCount, promised, file>>
    BY DEF TaskReads, TypeOK
  <1>2. client \notin {"closing", "merging", "done"}
    BY <1>1, ReadFacts DEF TaskFiles
  <1>3. \A i \in Ids : i # id => recv'[i] = recv[i] /\ disk'[i] = disk[i]
    BY <1>1, ReadFacts, IdFacts DEF Shapes
  <1>4. ASSUME client = "receiving" PROVE disk'[id] = SubSeq(Part(file, id), 1, recv'[id].read)
    <2>1. PICK part \in Bytes : part = Part(file, id)
      BY PartFacts, IdFacts DEF Shapes
    <2>2. PICK a \in Nat, b \in Nat : a = recv[id].read /\ b = recv[id].got
      BY DEF Shapes, Received
    <2>3. a <= b /\ b <= Len(part)
      <3>1. b \in 0..Len(part) /\ a \in 0..b
        BY <2>1, <2>2 DEF Bounds
      <3> QED
        BY <3>1
    <2>4. recv'[id].read = b
      BY <2>2, ReadFacts
    <2>5. disk[id] = SubSeq(part, 1, a)
      BY <1>1, <1>4, <2>1, <2>2 DEF TaskFiles
    <2>6. disk'[id] = disk[id] \o SubSeq(part, a + 1, b)
      <3>1. id \in 0..MaxStreams
        BY IdFacts
      <3> QED
        BY <1>1, <2>1, <2>2, <3>1 DEF Shapes
    <2>7. SubSeq(part, 0 + 1, a) \o SubSeq(part, a + 1, b) = SubSeq(part, 0 + 1, b)
      <3>1. 0 \in Nat /\ 0 <= a
        BY <2>2
      <3> QED
        BY <2>3, <3>1, AdjacentParts
    <2>8. SubSeq(part, 1, a) \o SubSeq(part, a + 1, b) = SubSeq(part, 1, b)
      BY <2>7
    <2> QED
      BY <2>1, <2>4, <2>5, <2>6, <2>8
  <1>5. \A i \in Ids : i \notin accepted' => recv'[i].read = 0
    BY <1>1, <1>3 DEF TaskFiles
  <1>6. ASSUME client = "receiving", NEW i \in accepted
        PROVE  disk'[i] = SubSeq(Part(file, i), 1, recv'[i].read)
    BY <1>1, <1>3, <1>4, <1>6 DEF TaskFiles
  <1> QED
    BY <1>1, <1>2, <1>5, <1>6 DEF TaskFiles

LEMMA DispatchTaskFiles ==
  ASSUME TypeOK, Shapes, Bounds, TaskFiles, NEW f \in todo, Dispatch(f)
  PROVE  TaskFiles'
  <1>1. UNCHANGED <<client, accepted, recvCount, promised, file, disk>>
    BY DEF Dispatch, ClientStep, files
  <1>2. \A i \in Ids : /\ recv'[i].read = recv[i].read
                       /\ recv[i].state = "DataRead" => recv'[i].state = "DataRead"
    BY DispatchFacts
  <1>3. accepted \subseteq Ids
    BY DEF TypeOK
  <1>4. \A i \in accepted : /\ recv'[i].read = recv[i].read
                            /\ recv[i].state = "DataRead" => recv'[i].state = "DataRead"
    BY <1>2, <1>3
  <1> QED
    BY <1>1, <1>2, <1>4 DEF TaskFiles

LEMMA NextTaskFiles ==
  TypeOK /\ Shapes /\ Bounds /\ Answered /\ Queueing /\ TaskFiles /\ [Next]_vars => TaskFiles'
  <1> SUFFICES ASSUME TypeOK, Shapes, Bounds, Answered, Queueing, TaskFiles, [Next]_vars PROVE TaskFiles'
    OBVIOUS
  <1> USE DEF ServerStep, ClientStep, serverVars, clientVars, streams, files
  <1>1. CASE Bind \/ Connect \/ Listen \/ SecondHello \/ SecondReply \/ RefusedByServer
    BY <1>1 DEF Bind, Connect, Listen, SecondHello, SecondReply, RefusedByServer, TaskFiles
  <1>2. CASE Build
    <2>1. \A id : id \notin accepted
      BY <1>2, NothingAccepted DEF Build, Answered
    <2> QED
      BY <1>2, <2>1 DEF Build, TaskFiles
  <1>3. CASE Open \/ CloseSends \/ Finish
    BY <1>3 DEF Open, CloseSends, Finish, TaskFiles
  <1>4. CASE Close
    BY <1>4 DEF Close, Accepting, TaskFiles
  <1>5. CASE Closed \/ Merge \/ Rename \/ Exit
    BY <1>5 DEF Closed, Merge, Rename, Exit, TaskFiles
  <1>6. ASSUME NEW id \in Ids, Overtaken(id) \/ Refused(id) \/ ServerStream(id) \/ Receive(id) \/ ReceiveSome(id)
        PROVE  TaskFiles'
    BY <1>6 DEF Overtaken, Refused, ServerStream, Write, Wrote, Tick, Timeout, AckArrives, Receive,
                ReceiveSome, TaskFiles
  <1>7. CASE UNCHANGED vars
    BY <1>7 DEF vars, TaskFiles
  <1> QED
    BY <1>1, <1>2, <1>3, <1>4, <1>5, <1>6, <1>7, AcceptTaskFiles, ReadTaskFiles, DispatchTaskFiles
    DEF Next, ClientStream
-----------------------------------------------------------------------------
(***************************************************************************)
(* The joining of the files.                                               *)
(***************************************************************************)

LEMMA PartExists ==
  ASSUME NEW f \in Bytes, NEW a \in Nat, NEW b \in Nat, b <= Len(f)
  PROVE  SubSeq(f, a + 1, b) # NoFile
  <1>1. SubSeq(f, a + 1, b) \in Seq(SUBSET Nat)
    BY DEF Bytes
  <1> QED
    BY <1>1, FileConstants DEF FileConstants

\* What may be a file of another transfer is not touched before the end.
LEMMA NeighbourStays ==
  ASSUME TypeOK, Shapes, Bounds, Answered, OnlyOpened, Queueing, [Next]_vars
  PROVE  file' = file /\ (Streams > 1 => disk'[Streams] = disk[Streams])
  <1> USE DEF ServerStep, ClientStep, serverVars, clientVars, streams, files
  <1>0. /\ Streams \in 0..MaxStreams /\ Streams \in Nat /\ opened <= Streams /\ opened \in Nat
        /\ \A id \in Ids : recv[id].state # "absent" => id # Streams
    BY IdFacts DEF TypeOK, Shapes, OnlyOpened, Streams
  <1>1. CASE UNCHANGED <<file, disk>>
    BY <1>1
  <1>2. CASE Accept
    <2>1. Head(queue) = queue[1] /\ queue[1] \in Ids /\ 1 \in 1..Len(queue)
      BY <1>2, HeadTailProperties DEF Accept, Shapes
    <2>2. recv[queue[1]].state # "absent"
      BY <2>1 DEF Queueing, InQueue
    <2> QED
      BY <1>0, <1>2, <2>1, <2>2 DEF Accept, Shapes
  <1>3. ASSUME NEW id \in Ids, TaskReads(id) PROVE file' = file /\ disk'[Streams] = disk[Streams]
    <2>1. id # Streams
      BY <1>0, <1>3, ReadFacts
    <2> QED
      BY <1>3, <2>1 DEF TaskReads, Shapes
  <1>4. CASE Merge
    <2>1. total \in Nat /\ total <= Streams
      <3>1. promised = Promised(file) /\ file \in Bytes
        BY <1>4 DEF Merge, Answered, ClientRuns, Shapes
      <3>2. promised <= Streams /\ promised \in Nat
        BY <3>1, CountFacts DEF Streams
      <3> QED
        BY <1>0, <3>2 DEF TypeOK
    <2>2. (~(2 * Streams < total) /\ ~(Streams < total)) \/ Streams = 0
      BY <1>0, <2>1
    <2>3. Streams \in DOMAIN disk
      BY <1>0 DEF Shapes
    <2>4. Streams > 1 => MergeRound(disk, total)[Streams] = disk[Streams]
      BY <1>0, <2>1, <2>2, <2>3 DEF MergeRound
    <2> QED
      BY <1>4, <2>4 DEF Merge
  <1>5. CASE Rename
    <2>1. file' = file
      BY <1>5 DEF Rename
    <2>2. disk' = disk \/ disk' = [disk EXCEPT ![0] = NoFile]
      BY <1>5 DEF Rename
    <2>3. [disk EXCEPT ![0] = NoFile][Streams] = disk[Streams] \/ Streams = 0
      BY <1>0 DEF Shapes
    <2>4. Streams > 1 => Streams # 0
      BY <1>0
    <2> QED
      BY <2>1, <2>2, <2>3, <2>4
  <1>6. CASE Bind \/ Connect \/ Listen \/ SecondHello \/ SecondReply \/ RefusedByServer \/ Build
    BY <1>1, <1>6 DEF Bind, Connect, Listen, SecondHello, SecondReply, RefusedByServer, Build
  <1>7. CASE Open \/ CloseSends \/ Finish \/ Close \/ Closed \/ Exit
    BY <1>1, <1>7 DEF Open, CloseSends, Finish, Close, Closed, Exit
  <1>8. ASSUME NEW id \in Ids, Overtaken(id) \/ Refused(id) \/ ServerStream(id) \/ Receive(id) \/ ReceiveSome(id)
        PROVE  UNCHANGED <<file, disk>>
    BY <1>8 DEF Overtaken, Refused, ServerStream, Write, Wrote, Tick, Timeout, AckArrives, Receive, ReceiveSome
  <1>10. ASSUME NEW f \in todo, Dispatch(f) PROVE UNCHANGED <<file, disk>>
    BY <1>10 DEF Dispatch
  <1>9. CASE UNCHANGED vars
    BY <1>1, <1>9 DEF vars
  <1> QED
    BY <1>1, <1>2, <1>3, <1>4, <1>5, <1>6, <1>7, <1>8, <1>9, <1>10 DEF Next, ClientStream

LEMMA UnmergeableStays ==
  ASSUME TypeOK, Shapes, Bounds, Answered, OnlyOpened, Queueing, [Next]_vars, Unmergeable
  PROVE  Unmergeable'
  BY NeighbourStays DEF Unmergeable, Streams

\* All streams were accepted, and read whole: their files are the parts of the
\* file at multiples of the chunk length.
LEMMA ClosedJoins ==
  ASSUME TypeOK, Shapes, Bounds, Answered, OnlyOpened, Queueing, TaskFiles, Closed
  PROVE  Unmergeable' \/ Joined'
  <1> USE DEF ClientStep
  <1>1. /\ client = "closing" /\ total' = promised /\ UNCHANGED <<file, disk>>
        /\ ~TryCompress(file) /\ promised = Promised(file) /\ file \in Bytes
    BY DEF Closed, Answered, ClientRuns, Shapes, streams
  <1>2. PICK n \in Nat : n = Streams
    BY IdFacts
  <1>3. SUFFICES ASSUME n # 0, n < Wrap, ~(n > 1 /\ n % 2 = 1 /\ disk[n] # NoFile) PROVE Joined'
    BY <1>1, <1>2, FileConstants DEF FileConstants, Unmergeable, Streams
  <1>4. promised = n
    BY <1>1, <1>2, <1>3, CountFacts DEF Streams
  <1>5. \A id \in 0..(n - 1) : id \in accepted
    <2>1. accepted \subseteq 0..(n - 1)
      <3>1. \A id \in accepted : id \in Ids /\ recv[id].state # "absent"
        BY DEF Queueing, TypeOK
      <3>2. \A id \in accepted : id \in Nat /\ id < opened
        BY <3>1, IdFacts DEF OnlyOpened
      <3>3. opened \in Nat /\ opened <= n
        BY <1>2 DEF TypeOK, Streams
      <3> QED
        BY <3>2, <3>3
    <2>2. IsFiniteSet(0..(n - 1)) /\ Cardinality(0..(n - 1)) = n
      BY FS_Interval
    <2>3. Cardinality(accepted) = n
      BY <1>1, <1>4 DEF Queueing, TaskFiles
    <2>4. accepted = 0..(n - 1)
      BY <2>1, <2>2, <2>3, FS_Subset
    <2> QED
      BY <2>4
  <1>6. ASSUME NEW id \in 0..(n - 1) PROVE disk[id] = Part(file, id)
    <2>1. id \in accepted /\ id \in Ids /\ id \in Nat
      BY <1>5 DEF TypeOK
    <2>2. recv[id].state = "DataRead" /\ disk[id] = SubSeq(Part(file, id), 1, recv[id].read)
      BY <1>1, <2>1 DEF TaskFiles
    <2>3. recv[id].read = Len(Part(file, id))
      BY <2>1, <2>2 DEF Bounds
    <2>4. Part(file, id) \in Bytes
      BY <1>1, <2>1, PartFacts
    <2>5. SubSeq(Part(file, id), 1, Len(Part(file, id))) = Part(file, id)
      BY <2>4 DEF Bytes
    <2> QED
      BY <2>2, <2>3, <2>5
  <1>7. PICK len \in Nat, c \in Nat \ {0} : len = Len(file) /\ c = ChunkLen
    BY <1>1, FileConstants DEF FileConstants, Bytes
  <1>8. /\ len <= n * c /\ \A i \in 0..(n - 1) : i * c < len
        /\ \A i \in 0..n : i * c \in Nat /\ (i + 1) * c = i * c + c
    BY <1>1, <1>2, <1>7, CountFacts DEF Streams
  <1>9. PICK cut : cut = [i \in 0..n |-> LesserLen(i * c, len)]
    OBVIOUS
  <1>10. \A i \in 0..n : cut[i] \in 0..len /\ cut[i] = LesserLen(i * c, len)
    BY <1>7, <1>8, <1>9 DEF LesserLen
  <1>11. cut \in [0..n -> 0..len]
    BY <1>9, <1>10
  <1>12. cut[0] = 0 /\ cut[n] = len
    <2>1. 0 \in 0..n /\ n \in 0..n /\ 0 * c = 0
      OBVIOUS
    <2> QED
      BY <1>7, <1>8, <1>10, <2>1 DEF LesserLen
  <1>13. ASSUME NEW i \in 0..(n - 1)
         PROVE  cut[i] <= cut[i + 1] /\ disk[i] = SubSeq(file, cut[i] + 1, cut[i + 1])
    <2>1. i \in 0..n /\ i + 1 \in 0..n
      OBVIOUS
    <2>2. cut[i] = i * c /\ cut[i + 1] = LesserLen((i + 1) * c, len)
      BY <1>8, <1>10, <2>1 DEF LesserLen
    <2>3. cut[i] <= cut[i + 1]
      BY <1>7, <1>8, <2>1, <2>2 DEF LesserLen
    <2>4. disk[i] = SubSeq(file, cut[i] + 1, cut[i + 1])
      BY <1>6, <1>7, <2>2 DEF Part
    <2> QED
      BY <2>3, <2>4
  <1>14. Cut(cut)'
    BY <1>1, <1>4, <1>7, <1>12, <1>13 DEF Cut
  <1>15. Streams' = n
    BY <1>1, <1>2 DEF Streams
  <1>16. \E x \in [0..total' -> 0..Len(file')] : Cut(x)'
    BY <1>1, <1>4, <1>7, <1>11, <1>14
  <1>17. total' \in 1..Streams'
    BY <1>1, <1>3, <1>4, <1>15
  <1>18. total' > 1 /\ total' % 2 = 1 => disk'[total'] = NoFile
    BY <1>1, <1>3, <1>4
  <1> QED
    BY <1>16, <1>17, <1>18 DEF Joined

\* A round of merge(): the cuts of even number remain.
LEMMA MergeJoins ==
  ASSUME TypeOK, Shapes, Merge, Joined, client' = "merging"
  PROVE  Joined'
  <1> USE DEF ClientStep
  <1>1. /\ total > 1 /\ disk' = MergeRound(disk, total) /\ total' = (total + 1) \div 2
        /\ file' = file /\ file \in Bytes
    BY DEF Merge, Shapes
  <1>2. PICK n \in Nat, m \in Nat : n = total /\ m = total' /\ n > 1 /\ n <= Streams
    <2>1. total \in Nat /\ total <= Streams
      BY IdFacts DEF Joined
    <2>2. total' \in Nat
      BY <1>1, <2>1
    <2> QED
      BY <1>1, <2>1, <2>2
  <1>3. /\ m >= 1 /\ m < n /\ n <= 2 * m /\ 2 * m <= n + 1
        /\ \A i \in 0..(m - 1) : 2 * i < n
    BY <1>1, <1>2
  <1>4. PICK cut \in [0..n -> 0..Len(file)] : Cut(cut)
    BY <1>2 DEF Joined
  <1>5. \A i \in 0..n : cut[i] \in Nat /\ cut[i] <= Len(file)
    BY <1>1, <1>4 DEF Bytes
  <1>6. /\ cut[0] = 0 /\ cut[n] = Len(file)
        /\ \A i \in 0..(n - 1) : cut[i] <= cut[i + 1] /\ disk[i] = SubSeq(file, cut[i] + 1, cut[i + 1])
    BY <1>2, <1>4 DEF Cut
  <1>7. PICK new : new = [i \in 0..m |-> cut[LesserLen(2 * i, n)]]
    OBVIOUS
  <1>8. \A i \in 0..m : LesserLen(2 * i, n) \in 0..n /\ new[i] = cut[LesserLen(2 * i, n)]
    BY <1>7 DEF LesserLen
  <1>9. new \in [0..m -> 0..Len(file)]
    BY <1>4, <1>7, <1>8
  <1>10. new[0] = 0 /\ new[m] = Len(file)
    <2>1. 0 \in 0..m /\ m \in 0..m /\ LesserLen(2 * 0, n) = 0 /\ LesserLen(2 * m, n) = n
      BY <1>3 DEF LesserLen
    <2> QED
      BY <1>6, <1>8, <2>1
  <1>11. MaxStreams \in Nat /\ n <= MaxStreams /\ DOMAIN disk = 0..MaxStreams
    <2>1. MaxStreams \in Nat /\ Streams \in Nat /\ Streams <= MaxStreams
      BY IdFacts
    <2> QED
      BY <1>2, <2>1 DEF Shapes
  <1>12. ASSUME NEW i \in 0..(m - 1)
         PROVE  new[i] <= new[i + 1] /\ disk'[i] = SubSeq(file, new[i] + 1, new[i + 1])
    <2>1. PICK k \in Nat : k = 2 * i /\ k < n /\ k \in 0..(n - 1) /\ i \in DOMAIN disk
      BY <1>3, <1>11
    <2>2. disk'[i] = Neighbours(disk, k)
      BY <1>1, <1>2, <2>1 DEF MergeRound
    <2>3. new[i] = cut[k]
      <3>1. LesserLen(2 * i, n) = k /\ i \in 0..m
        BY <2>1 DEF LesserLen
      <3> QED
        BY <1>8, <3>1
    <2>4. i + 1 \in 0..m /\ 2 * (i + 1) = k + 2
      BY <2>1
    <2>5. CASE k + 1 = n
      <3>1. LesserLen(2 * (i + 1), n) = n
        BY <2>4, <2>5 DEF LesserLen
      <3>2. new[i + 1] = cut[k + 1]
        BY <1>8, <2>4, <2>5, <3>1
      <3>3. n % 2 = 1
        <4>1. n = 2 * i + 1 /\ i \in Nat
          BY <2>1, <2>5
        <4>2. (2 * i + 1) % 2 = 1
          BY <4>1
        <4> QED
          BY <4>1, <4>2
      <3>4. disk[k + 1] = NoFile
        BY <1>2, <2>5, <3>3 DEF Joined
      <3>5. disk'[i] = disk[k]
        BY <2>2, <3>4 DEF Neighbours
      <3> QED
        BY <1>6, <2>1, <2>3, <3>2, <3>5
    <2>6. CASE k + 1 < n
      <3>1. LesserLen(2 * (i + 1), n) = k + 2
        BY <2>4, <2>6 DEF LesserLen
      <3>2. new[i + 1] = cut[k + 2]
        BY <1>8, <2>4, <3>1
      <3>3. k + 1 \in 0..(n - 1) /\ (k + 1) + 1 = k + 2 /\ k \in 0..n /\ k + 1 \in 0..n /\ k + 2 \in 0..n
        BY <2>1, <2>6
      <3>4. cut[k] <= cut[k + 1] /\ disk[k] = SubSeq(file, cut[k] + 1, cut[k + 1])
        BY <1>6, <2>1
      <3>5. cut[k + 1] <= cut[k + 2] /\ disk[k + 1] = SubSeq(file, cut[k + 1] + 1, cut[k + 2])
        BY <1>6, <3>3
      <3>6. /\ cut[k] \in Nat /\ cut[k + 1] \in Nat /\ cut[k + 2] \in Nat
            /\ cut[k + 2] <= Len(file)
        BY <1>5, <3>3
      <3>7. disk[k + 1] # NoFile
        BY <1>1, <3>5, <3>6, PartExists
      <3>8. disk'[i] = disk[k] \o disk[k + 1]
        BY <2>2, <3>7 DEF Neighbours
      <3>9. disk'[i] = SubSeq(file, cut[k] + 1, cut[k + 2])
        <4>1. SubSeq(file, cut[k] + 1, cut[k + 1]) \o SubSeq(file, cut[k + 1] + 1, cut[k + 2])
                = SubSeq(file, cut[k] + 1, cut[k + 2])
          BY <1>1, <3>4, <3>5, <3>6, AdjacentParts
        <4> QED
          BY <3>4, <3>5, <3>8, <4>1
      <3> QED
        BY <2>3, <3>2, <3>4, <3>5, <3>6, <3>9
    <2> QED
      BY <2>1, <2>5, <2>6
  <1>13. Cut(new)'
    BY <1>1, <1>2, <1>10, <1>12 DEF Cut
  <1>14. total' \in 1..Streams'
    <2>1. Streams' = Streams
      BY <1>1 DEF Streams
    <2>2. Streams \in Nat
      BY IdFacts
    <2> QED
      BY <1>2, <1>3, <2>1, <2>2
  <1>15. disk'[m] = NoFile
    <2>1. m \in DOMAIN disk
      BY <1>3, <1>11
    <2> QED
      BY <1>1, <1>2, <1>3, <2>1 DEF MergeRound
  <1>16. \E x \in [0..total' -> 0..Len(file')] : Cut(x)'
    BY <1>1, <1>2, <1>9, <1>13
  <1> QED
    BY <1>2, <1>14, <1>15, <1>16 DEF Joined

LEMMA NextMerging ==
  /\ TypeOK /\ Shapes /\ Bounds /\ Answered /\ OnlyOpened /\ Queueing /\ TaskFiles /\ Merging
  /\ [Next]_vars
  => Merging'
  <1> SUFFICES ASSUME TypeOK, Shapes, Bounds, Answered, OnlyOpened, Queueing, TaskFiles, Merging, [Next]_vars,
                      client' = "merging"
               PROVE  Unmergeable' \/ Joined'
    BY DEF Merging
  <1> USE DEF ServerStep, ClientStep, serverVars, clientVars, streams, files
  <1>1. CASE Unmergeable
    BY <1>1, UnmergeableStays
  <1>2. CASE client = "merging" /\ UNCHANGED <<file, total, disk>>
    BY <1>1, <1>2 DEF Merging, Joined, Cut, Streams
  <1>3. CASE Merge
    BY <1>1, <1>3, MergeJoins DEF Merge, Merging
  <1>4. CASE Closed
    BY <1>4, ClosedJoins
  <1>5. CASE Bind \/ Connect \/ Listen \/ SecondHello \/ SecondReply \/ RefusedByServer
    BY <1>2, <1>5 DEF Bind, Connect, Listen, SecondHello, SecondReply, RefusedByServer
  <1>6. CASE Build \/ Accept \/ Close \/ Rename \/ Exit
    BY <1>6 DEF Build, Accept, Close, Rename, Exit
  <1>7. CASE Open \/ CloseSends \/ Finish
    BY <1>2, <1>7 DEF Open, CloseSends, Finish
  <1>8. ASSUME NEW id \in Ids, Overtaken(id) \/ Refused(id) \/ ServerStream(id) \/ Receive(id) \/ ReceiveSome(id)
        PROVE  client = "merging" /\ UNCHANGED <<file, total, disk>>
    BY <1>8 DEF Overtaken, Refused, ServerStream, Write, Wrote, Tick, Timeout, AckArrives, Receive, ReceiveSome
  <1>11. ASSUME NEW f \in todo, Dispatch(f) PROVE client = "merging" /\ UNCHANGED <<file, total, disk>>
    BY <1>11 DEF Dispatch
  <1>9. ASSUME NEW id \in Ids, TaskReads(id) PROVE FALSE
    <2>1. client = "merging" /\ id \in accepted /\ recv[id].state # "DataRead"
      BY <1>9, ReadFacts DEF TaskReads
    <2> QED
      BY <2>1 DEF TaskFiles
  <1>10. CASE UNCHANGED vars
    BY <1>2, <1>10 DEF vars
  <1> QED
    BY <1>2, <1>3, <1>4, <1>5, <1>6, <1>7, <1>8, <1>9, <1>10, <1>11 DEF Next, ClientStream

\* merge() ends with one file, which is the file.
LEMMA NextFileIsSent ==
  /\ TypeOK /\ Shapes /\ Bounds /\ Answered /\ OnlyOpened /\ Queueing /\ Merging /\ FileIsSent
  /\ [Next]_vars
  => FileIsSent'
  <1> SUFFICES ASSUME TypeOK, Shapes, Bounds, Answered, OnlyOpened, Queueing, Merging, FileIsSent,
                      [Next]_vars
               PROVE  FileIsSent'
    OBVIOUS
  <1> USE DEF ServerStep, ClientStep, serverVars, clientVars, streams, files
  <1>1. file' = file /\ (Unmergeable => Unmergeable')
    BY NeighbourStays, UnmergeableStays
  <1>2. CASE target' = target
    BY <1>1, <1>2 DEF FileIsSent, Mistaken
  <1>3. CASE Build
    <2>1. CASE TryCompress(file)
      BY <1>1, <1>3, <2>1 DEF Build, FileIsSent, Mistaken
    <2>2. CASE ~TryCompress(file)
      BY <1>2, <1>3, <2>2 DEF Build
    <2> QED
      BY <2>1, <2>2
  <1>4. CASE Rename
    <2>1. target' = target \/ target' = disk[0]
      BY <1>4 DEF Rename
    <2>2. client = "merging" /\ total <= 1 /\ file \in Bytes
      BY <1>4 DEF Rename, Shapes
    <2>3. ASSUME Joined PROVE disk[0] = file
      <3>1. total = 1
        BY <2>2, <2>3, IdFacts DEF Joined
      <3>2. PICK cut \in [0..1 -> 0..Len(file)] : Cut(cut)
        BY <2>3, <3>1 DEF Joined
      <3>3. cut[0] = 0 /\ cut[1] = Len(file) /\ disk[0] = SubSeq(file, cut[0] + 1, cut[0 + 1])
        <4>1. 0 \in 0..(total - 1)
          BY <3>1
        <4> QED
          BY <3>1, <3>2, <4>1 DEF Cut
      <3>4. disk[0] = SubSeq(file, 1, Len(file))
        BY <3>3
      <3>5. SubSeq(file, 1, Len(file)) = file
        BY <2>2 DEF Bytes
      <3> QED
        BY <3>4, <3>5
    <2>4. Unmergeable \/ Joined
      BY <2>2 DEF Merging
    <2> QED
      BY <1>1, <1>2, <2>1, <2>3, <2>4 DEF FileIsSent
  <1>5. CASE Bind \/ Connect \/ Listen \/ SecondHello \/ SecondReply \/ RefusedByServer
    BY <1>2, <1>5 DEF Bind, Connect, Listen, SecondHello, SecondReply, RefusedByServer
  <1>6. CASE Open \/ CloseSends \/ Finish \/ Accept \/ Close \/ Closed \/ Merge \/ Exit
    BY <1>2, <1>6 DEF Open, CloseSends, Finish, Accept, Close, Closed, Merge, Exit
  <1>7. ASSUME NEW id \in Ids, Overtaken(id) \/ Refused(id) \/ ServerStream(id) \/ ClientStream(id)
        PROVE  target' = target
    BY <1>7 DEF Overtaken, Refused, ServerStream, ClientStream, Write, Wrote, Tick, Timeout, AckArrives,
                Receive, ReceiveSome, TaskReads
  <1>8. ASSUME NEW f \in todo, Dispatch(f) PROVE target' = target
    BY <1>8 DEF Dispatch
  <1>9. CASE UNCHANGED vars
    BY <1>2, <1>9 DEF vars
  <1> QED
    BY <1>2, <1>3, <1>4, <1>5, <1>6, <1>7, <1>8, <1>9 DEF Next
-----------------------------------------------------------------------------
(***************************************************************************)
(* The theorems.                                                           *)
(***************************************************************************)
LEMMA InitInv == Init => Inv
  <1> SUFFICES ASSUME Init PROVE Inv
    OBVIOUS
  <1>1. TypeOK /\ Shapes /\ Bounds
    BY InitTypes
  <1>2. Answered /\ Merging /\ FileIsSent
    BY DEF Init, Answered, ClientRuns, Merging, FileIsSent
  <1>3. OnlyOpened /\ TaskFiles
    BY DEF Init, OnlyOpened, TaskFiles
  <1>4. Queueing
    <2>1. Cardinality(accepted) = 0
      BY FS_EmptySet DEF Init
    <2>2. Len(queue) = 0 /\ 1..0 = {}
      BY DEF Init
    <2> QED
      BY <2>1, <2>2 DEF Init, Queueing, InQueue
  <1>5. Fins /\ Lossless
    BY DEF Init, Fins, Lossless, Nothing
  <1> QED
    BY <1>1, <1>2, <1>3, <1>4, <1>5 DEF Inv

LEMMA NextInv == Inv /\ [Next]_vars => Inv'
  BY NextTypes, NextBounds, NextAnswered, NextOnlyOpened, NextQueueing, NextFins, NextLossless, NextTaskFiles,
     NextMerging, NextFileIsSent
  DEF Inv

LEMMA InvHolds == Spec => []Inv
  BY InitInv, NextInv, PTL DEF Spec

\* The types of Session: no counter of the handshake and of the streams runs
\* ahead of what the file has.
THEOREM TypesHold == Spec => []TypeOK
  <1>1. Inv => TypeOK
    BY DEF Inv
  <1> QED
    BY <1>1, InvHolds, PTL

\* Streams::accept returns a stream once, however often its frames come, and
\* no more streams than were promised (Handler<Dispatch>, get_recv).
THEOREM AcceptedOnceHolds == Spec => []AcceptedOnce
  <1>1. ASSUME Inv PROVE AcceptedOnce
    <2> DEFINE queued == { queue[i] : i \in DOMAIN queue }
    <2>1. queue \in Seq(Ids) /\ Len(queue) \in Nat /\ DOMAIN queue = 1..Len(queue)
      BY <1>1 DEF Inv, Shapes
    <2>2. \A id : id \in queued <=> InQueue(id)
      BY <2>1 DEF InQueue
    <2>3. \A id : InQueue(id) => id \in Ids
      BY <2>1 DEF InQueue
    <2>4. Len(queue) = Cardinality(queued)
      <3>1. IsFiniteSet(1..Len(queue)) /\ Cardinality(1..Len(queue)) = Len(queue)
        BY <2>1, FS_Interval
      <3>2. queue \in Bijection(1..Len(queue), queued)
        <4>1. queue \in [1..Len(queue) -> queued]
          BY <2>1
        <4>2. \A i, j \in 1..Len(queue) : queue[i] = queue[j] => i = j
          BY <1>1 DEF Inv, Queueing
        <4>3. \A x \in queued : \E i \in 1..Len(queue) : queue[i] = x
          BY <2>1
        <4> QED
          BY <4>1, <4>2, <4>3 DEF Bijection, Injection, IsInjective, Surjection
      <3>3. ExistsBijection(1..Len(queue), queued)
        BY <3>2 DEF ExistsBijection
      <3>4. Cardinality(1..Len(queue)) = Cardinality(queued)
        BY <3>1, <3>3, FS_Bijection
      <3> QED
        BY <3>1, <3>4
    <2>5. accepted \subseteq Ids
      BY <1>1 DEF Inv, TypeOK
    <2>6. accepted \intersect queued = {}
      BY <1>1, <2>2 DEF Inv, Queueing
    <2>7. accepted \union queued = { id \in Ids : recv[id].state # "absent" }
      BY <1>1, <2>2, <2>3, <2>5 DEF Inv, Queueing
    <2>8. recvCount = Cardinality(accepted) /\ recvCount <= promised
      BY <1>1 DEF Inv, Queueing
    <2> QED
      BY <2>4, <2>6, <2>7, <2>8 DEF AcceptedOnce
  <1> QED
    BY <1>1, InvHolds, PTL

\* close() of the sending connection returns when the end of every stream is at
\* the client, and all its bytes unless something was lost: then the end may
\* have been refused (Handler<Close> of StreamsInner and SendStream,
\* RecvWindow::write).
THEOREM ClosedMeansReceivedHolds == Spec => []ClosedMeansReceived
  <1>1. ASSUME Inv PROVE ClosedMeansReceived
    <2>1. ASSUME server = "finished", ~TryCompress(file), NEW id \in 0..(Streams - 1)
          PROVE  Ended(id) \/ clientDeaf
      <3>1. at[id] = "acked" /\ id \in dataSent
        BY <1>1, <2>1 DEF Inv, Fins
      <3>2. id \in Ids
        BY <1>1, IdFacts DEF Inv
      <3>3. EndCame(id)
        BY <1>1, <3>1, <3>2 DEF Inv, Fins
      <3>4. recv[id].state = "SizeKnown" => "loss" \in faults
        BY <1>1, <3>1, <3>2 DEF Inv, Lossless, Once
      <3> QED
        BY <3>3, <3>4 DEF EndCame, Ended
    <2> QED
      BY <2>1 DEF ClosedMeansReceived, Streams
  <1> QED
    BY <1>1, InvHolds, PTL

\* The file that recv() leaves is the file that send() was given: for every
\* file that is not mistaken for one repeated byte and whose streams can be
\* counted and joined (merge, merge_neighbour, try_compress).
THEOREM FileIsSentHolds == Spec => []FileIsSent
  <1>1. Inv => FileIsSent
    BY DEF Inv
  <1> QED
    BY <1>1, InvHolds, PTL
=============================================================================
