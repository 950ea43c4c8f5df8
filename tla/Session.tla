------------------------------ MODULE Session ------------------------------
(***************************************************************************)
(* A file from one command line to the other: the handshake, which is sent *)
(* once and never again (ConnectionListener, ConnectionBuilder), streams   *)
(* opened, accepted and closed (Streams, StreamsInner), the tasks that     *)
(* receive them, the joining of their files, and the end of both processes.*)
(*                                                                         *)
(* What one stream does with its bytes is the subject of StreamTransfer:   *)
(* here they are written at once and sent together; at[id] says where they *)
(* are.  Either all of their packets arrive, or some of the first do while *)
(* the others and the acks are lost (ReceiveSome): what was lost and what  *)
(* was only not acknowledged is sent again as one range then.  A packet,   *)
(* its ack and the handshake may be lost; the handshake may be repeated.   *)
(* A retransmission timer fires for a packet that was lost, or whose ack   *)
(* was or is not heard; none fires while an ack is on its way.             *)
(***************************************************************************)
EXTENDS FileTransfer

CONSTANTS
  Transfers,   \* what may be sent: the file, the numbers of the temporary files
               \* that earlier receptions left, and the faults of the network
  Junk,        \* what those temporary files contain
  MaxStreams   \* bound: the streams of a transfer, enough for every file

ASSUME SessionConstants ==
  /\ MaxStreams \in Nat
  /\ \A t \in Transfers :
       /\ t.file \in Seq(SUBSET Nat) /\ StreamCount(t.file) <= MaxStreams
       /\ t.left \subseteq Nat /\ t.faults \subseteq {"loss", "parts", "copies"}

VARIABLES
  file,         \* the file
  faults,       \* what the network does: "loss" of packets, in "parts" of what was
                \* sent together, and "copies" of handshakes
  server,       \* progress of send()
  serverDeaf,   \* its Receiver is gone
  hello,        \* the client's handshake packet is in the network; one that is lost
                \* is there for ever
  reply,        \* so is the server's answer
  opened,       \* StreamsInner.next_id: streams opened by send()
  wrote,        \* streams that were declared complete (Wrote)
  dataSent,     \* streams whose fin was handed out (State::DataSent or later)
  at,           \* where the bytes of each stream are
  client,       \* progress of recv()
  clientDeaf,   \* its Receiver is gone
  promised,     \* TransportParams.streams that the client was told
  todo,         \* frames received and not dispatched: stream, last byte, fin
  recv,         \* the streams in recv_map: state, bytes that came (from the first
                \* on, without a gap), and those of them that were read
  queue,        \* accept_queue
  recvCount,    \* Streams.recv_count
  accepted,     \* streams returned by accept(), each with a task
  closing,      \* streams whose close() is awaited
  total,        \* files that merge() has yet to join
  disk,         \* temporary files of the client
  target        \* the file it was asked to write

serverVars == <<server, serverDeaf, opened, wrote, dataSent>>
streams    == <<todo, recv, queue, recvCount, accepted>>
files      == <<closing, total, disk, target>>
clientVars == <<client, clientDeaf, promised, streams, files>>
vars == <<file, faults, hello, reply, at, serverVars, clientVars>>

Ids == 0..(MaxStreams - 1)

\* The client's process ended, with success or not.
Gone == client \in {"failed", "panicked", "exited"}

\* Its actors run: they outlive the Connection, for the Receiver holds their
\* addresses and its own.
ClientRuns == client \in {"receiving", "closing", "merging", "done"}

Init ==
  /\ \E t \in Transfers :
       /\ file = t.file /\ faults = t.faults
       /\ disk = [i \in 0..MaxStreams |-> IF i \in t.left THEN Junk ELSE NoFile]
  /\ server = "starting" /\ serverDeaf = FALSE
  /\ hello = FALSE /\ reply = FALSE
  /\ opened = 0 /\ wrote = {} /\ dataSent = {}
  /\ at = [id \in Ids |-> "unopened"]
  /\ client = "starting" /\ clientDeaf = FALSE /\ promised = 0
  /\ todo = {} /\ recv = [id \in Ids |-> [state |-> "absent", got |-> 0, read |-> 0]]
  /\ queue = <<>> /\ recvCount = 0 /\ accepted = {} /\ closing = {} /\ total = 0
  /\ target = NoFile
-----------------------------------------------------------------------------
(***************************************************************************)
(* The handshake.                                                          *)
(***************************************************************************)

\* send() opens the file, decides how to send it, and binds its socket.
Bind ==
  /\ server = "starting" /\ server' = "listening"
  /\ UNCHANGED <<file, faults, hello, reply, at, serverDeaf, opened, wrote, dataSent, clientVars>>

\* ConnectionBuilder::build sends the only packet of the client's handshake.
Connect ==
  /\ client = "starting" /\ client' = "building"
  /\ hello' = TRUE
  /\ UNCHANGED <<file, faults, reply, at, serverVars, clientDeaf, promised, streams, files>>

\* A copy of a handshake packet comes late.  Bound: one does, at one side.
LateCopy == "copies" \in faults /\ ~serverDeaf /\ ~clientDeaf

\* ConnectionListener::accept: one answer; the process is done after it when
\* the answer holds the whole file.
Listen ==
  /\ server = "listening" /\ hello
  /\ hello' = FALSE /\ reply' = TRUE
  /\ server' = IF TryCompress(file) THEN "finished" ELSE "sending"
  /\ UNCHANGED <<file, faults, at, serverDeaf, opened, wrote, dataSent, clientVars>>

\* Receiver decodes a second copy as a packet of frames, finds no frame type
\* in it and panics, and its spawned tasks are dropped with it.
SecondHello ==
  /\ server \in {"sending", "closing"} /\ LateCopy
  /\ serverDeaf' = TRUE
  /\ UNCHANGED <<file, faults, hello, reply, at, server, opened, wrote, dataSent, clientVars>>

SecondReply ==
  /\ ClientRuns /\ LateCopy
  /\ clientDeaf' = TRUE /\ todo' = {}
  /\ UNCHANGED <<file, faults, hello, reply, at, serverVars, client, promised, recv, queue, recvCount,
                 accepted, files>>

\* Nobody has the port that a packet of the client was sent to: its handshake,
\* or after the server's end a late ack or max_stream_data frame.  The client's
\* next recv() on its socket is an error, which ends build(), and later the
\* Receiver.
RefusedByServer ==
  /\ server \in {"starting", "finished"}
  /\ hello \/ (server = "finished" /\ (LateCopy \/ ClientRuns))
  /\ hello' = FALSE
  /\ client' = IF client = "building" THEN "failed" ELSE client
  /\ clientDeaf' = (clientDeaf \/ ClientRuns)
  /\ todo' = IF ClientRuns THEN {} ELSE todo
  /\ UNCHANGED <<file, faults, reply, at, serverVars, promised, recv, queue, recvCount, accepted, files>>

\* build() returns, to recv_random or to recv_compressed.
Build ==
  /\ client = "building" /\ reply /\ reply' = FALSE
  /\ IF TryCompress(file)
     THEN /\ client' = "copied" /\ target' = Repeated(file[1], Len(file))
          /\ UNCHANGED promised
     ELSE client' = "receiving" /\ promised' = Promised(file) /\ UNCHANGED target
  /\ UNCHANGED <<file, faults, hello, at, serverVars, clientDeaf, streams, closing, total, disk>>

\* A packet of a stream comes before the answer, which it overtook or
\* outlived: LongPacket::decode panics.
Overtaken(id) ==
  /\ client = "building" /\ at[id] = "sent"
  /\ client' = "panicked" /\ at' = [at EXCEPT ![id] = "lost"]
  /\ UNCHANGED <<file, faults, hello, reply, serverVars, clientDeaf, promised, streams, files>>
-----------------------------------------------------------------------------
(***************************************************************************)
(* send() after accept: the streams are opened and written one after the   *)
(* other, while the ticks of StreamsInner read them.  That a stream is     *)
(* complete (wrote() is a do_send) may be handled later.                   *)
(***************************************************************************)
ServerStep == UNCHANGED <<file, faults, hello, reply, clientVars>>

AllWritten == \A id \in 0..(opened - 1) : at[id] # "open"

Open ==
  /\ server = "sending" /\ opened < StreamCount(file)
  /\ AllWritten
  /\ at' = [at EXCEPT ![opened] = "open"]
  /\ opened' = opened + 1
  /\ ServerStep /\ UNCHANGED <<server, serverDeaf, wrote, dataSent>>

Write(id) ==
  /\ at[id] = "open" /\ at' = [at EXCEPT ![id] = "written"]
  /\ ServerStep /\ UNCHANGED serverVars

Wrote(id) ==
  /\ at[id] \notin {"unopened", "open"} /\ id \notin wrote
  /\ wrote' = wrote \union {id}
  /\ ServerStep /\ UNCHANGED <<at, server, serverDeaf, opened, dataSent>>

\* conn.close(): StreamsInner asks every stream to close.
CloseSends ==
  /\ server = "sending" /\ opened = StreamCount(file) /\ AllWritten
  /\ server' = "closing"
  /\ ServerStep /\ UNCHANGED <<at, serverDeaf, opened, wrote, dataSent>>

\* Mutant: what was lost is not read again.
MutantTick(id) ==
  /\ at[id] = "written" /\ at' = [at EXCEPT ![id] = "sent"]
  /\ dataSent' = IF id \in wrote THEN dataSent \union {id} ELSE dataSent
  /\ ServerStep /\ UNCHANGED <<server, serverDeaf, opened, wrote>>

\* Mutant: the fin goes with all that was written so far.
MutantEagerFin(id) ==
  /\ at[id] \in {"written", "lost"}
  /\ at' = [at EXCEPT ![id] = "sent"] /\ dataSent' = dataSent \union {id}
  /\ ServerStep /\ UNCHANGED <<server, serverDeaf, opened, wrote>>

\* A tick reads the bytes of a stream, for the first time or again; the fin
\* goes with them if the stream is known to be complete by now.
Tick(id) ==
  /\ at[id] \in {"written", "lost"}
  /\ at' = [at EXCEPT ![id] = "sent"]
  /\ dataSent' = IF id \in wrote THEN dataSent \union {id} ELSE dataSent
  /\ ServerStep /\ UNCHANGED <<server, serverDeaf, opened, wrote>>

\* A packet or its ack is lost, or nobody hears the acks, and its timer fires:
\* Handler<LostBcast> and Handler<Retransmit>.
Timeout(id) ==
  /\ at[id] \in {"sent", "received"} /\ ("loss" \in faults \/ Gone \/ serverDeaf)
  /\ at' = [at EXCEPT ![id] = "lost"]
  /\ ServerStep /\ UNCHANGED serverVars

\* AckSender of the client acknowledges a packet, which its own Receiver may
\* not have dispatched yet, and which may end while the ack is on its way;
\* Handler<AckedBcast> and Handler<Ack> follow.
AckArrives(id) ==
  /\ at[id] = "received" /\ ~serverDeaf
  /\ at' = [at EXCEPT ![id] = "acked"]
  /\ ServerStep /\ UNCHANGED serverVars

\* Mutant: the last stream is not waited for.
MutantAllSent == \A id \in 0..(opened - 2) : at[id] = "acked" /\ id \in dataSent

\* Every sending stream is in DataRecvd: all its bytes acknowledged, with a
\* fin among them.
AllSent == \A id \in 0..(opened - 1) : at[id] = "acked" /\ id \in dataSent

\* join_all of the closes ends, close() returns and the process ends.
Finish ==
  /\ server = "closing" /\ AllSent
  /\ server' = "finished"
  /\ ServerStep /\ UNCHANGED <<at, serverDeaf, opened, wrote, dataSent>>
-----------------------------------------------------------------------------
(***************************************************************************)
(* Packets at the client, and recv_random.                                 *)
(***************************************************************************)
ClientStep == UNCHANGED <<file, faults, hello, reply, serverVars>>

\* Handler<Recv> of Receiver: the frames are left to spawned tasks, the numbers
\* of the packets go to AckSender at once.
Receive(id) ==
  /\ at[id] = "sent" /\ ClientRuns /\ ~clientDeaf
  /\ at' = [at EXCEPT ![id] = "received"]
  /\ todo' = todo \union {[id |-> id, hi |-> Len(Part(file, id)), fin |-> id \in dataSent]}
  /\ ClientStep
  /\ UNCHANGED <<client, clientDeaf, promised, recv, queue, recvCount, accepted, files>>

\* Of the packets with a stream's bytes some of the first arrive; their acks
\* and the other packets are lost.  SendWindow.retransmit joins the ranges.
ReceiveSome(id) ==
  /\ at[id] = "sent" /\ {"loss", "parts"} \subseteq faults /\ ClientRuns /\ ~clientDeaf
  /\ at' = [at EXCEPT ![id] = "lost"]
  /\ \E hi \in 1..(Len(Part(file, id)) - 1) :
       todo' = todo \union {[id |-> id, hi |-> hi, fin |-> FALSE]}
  /\ ClientStep
  /\ UNCHANGED <<client, clientDeaf, promised, recv, queue, recvCount, accepted, files>>

\* The client's process has ended: the server's recv() is an error, and its
\* Receiver stops.
Refused(id) ==
  /\ at[id] = "sent" /\ Gone
  /\ at' = [at EXCEPT ![id] = "lost"] /\ serverDeaf' = TRUE
  /\ UNCHANGED <<file, faults, hello, reply, server, opened, wrote, dataSent, clientVars>>

\* Whether RecvWindow::write takes the bytes up to hi.  A frame that begins
\* below what was read is refused whole, with its fin, and acknowledged all the
\* same; only when a packet was cut just there, what follows is taken.
Taken(r, hi) == IF r.read = 0 THEN {TRUE} ELSE {FALSE, r.read < hi}

\* Handler<Write> of a receiving stream; get_recv creates one that is absent.
\* A fin that was refused makes the state SizeKnown without an offset of the
\* end, which is left only if the end is sent again and taken.
AfterFrame(r, f, taken) ==
  IF r.state \in {"DataRecvd", "DataRead"} THEN r
  ELSE [state |-> IF ~f.fin THEN IF r.state = "absent" THEN "Recv" ELSE r.state
                  ELSE IF taken THEN "DataRecvd" ELSE "SizeKnown",
        got   |-> IF taken /\ r.got < f.hi THEN f.hi ELSE r.got,
        read  |-> r.read]

\* Mutant: a stream is queued for accept with each of its frames.
MutantDispatch(f) ==
  /\ f \in todo /\ ClientRuns
  /\ todo' = todo \ {f}
  /\ \E taken \in Taken(recv[f.id], f.hi) :
       recv' = [recv EXCEPT ![f.id] = AfterFrame(recv[f.id], f, taken)]
  /\ queue' = Append(queue, f.id)
  /\ ClientStep
  /\ UNCHANGED <<at, client, clientDeaf, promised, recvCount, accepted, files>>

\* Handler<Dispatch>: the first frame of a stream creates it (get_recv).
Dispatch(f) ==
  /\ f \in todo /\ ClientRuns
  /\ todo' = todo \ {f}
  /\ \E taken \in Taken(recv[f.id], f.hi) :
       recv' = [recv EXCEPT ![f.id] = AfterFrame(recv[f.id], f, taken)]
  /\ queue' = IF recv[f.id].state = "absent" THEN Append(queue, f.id) ELSE queue
  /\ ClientStep
  /\ UNCHANGED <<at, client, clientDeaf, promised, recvCount, accepted, files>>


\* Streams::accept returns None once the promised number was returned.
Accepting == recvCount # promised

\* accept() returns a stream; its task creates its temporary file.
Accept ==
  /\ client = "receiving" /\ Accepting /\ queue # <<>>
  /\ queue' = Tail(queue)
  /\ recvCount' = recvCount + 1 /\ accepted' = accepted \union {Head(queue)}
  /\ disk' = [disk EXCEPT ![Head(queue)] = <<>>]
  /\ ClientStep
  /\ UNCHANGED <<at, client, clientDeaf, promised, todo, recv, closing, total, target>>

\* A task reads what its stream has and writes it to the temporary file.
TaskReads(id) ==
  LET r == recv[id]
  IN /\ id \in accepted /\ r.read < r.got
     /\ recv' = [recv EXCEPT ![id].read = r.got,
                             ![id].state = IF r.state = "DataRecvd" THEN "DataRead" ELSE r.state]
     /\ disk' = [disk EXCEPT ![id] = disk[id] \o SubSeq(Part(file, id), r.read + 1, r.got)]
     /\ ClientStep
     /\ UNCHANGED <<at, client, clientDeaf, promised, todo, queue, recvCount, accepted,
                    closing, total, target>>

\* A task ends when its read returns 0.  All are joined, and conn.close()
\* asks every stream of recv_map to close.
Close ==
  /\ client = "receiving" /\ ~Accepting
  /\ \A id \in accepted : recv[id].state = "DataRead"
  /\ client' = "closing" /\ closing' = { id \in Ids : recv[id].state # "absent" }
  /\ ClientStep
  /\ UNCHANGED <<at, clientDeaf, promised, streams, total, disk, target>>

Closed ==
  /\ client = "closing" /\ \A id \in closing : recv[id].state = "DataRead"
  /\ client' = "merging" /\ total' = promised
  /\ ClientStep
  /\ UNCHANGED <<at, clientDeaf, promised, streams, closing, disk, target>>

Merge ==
  /\ client = "merging" /\ total > 1
  /\ IF RoundPossible(disk, total)
     THEN /\ disk' = MergeRound(disk, total) /\ total' = (total + 1) \div 2
          /\ UNCHANGED client
     ELSE client' = "failed" /\ UNCHANGED <<disk, total>>
  /\ ClientStep
  /\ UNCHANGED <<at, clientDeaf, promised, streams, closing, target>>

\* merge() renames file 0, and recv() returns.
Rename ==
  /\ client = "merging" /\ total <= 1
  /\ IF disk[0] # NoFile
     THEN client' = "done" /\ target' = disk[0] /\ disk' = [disk EXCEPT ![0] = NoFile]
     ELSE client' = "failed" /\ UNCHANGED <<disk, target>>
  /\ ClientStep
  /\ UNCHANGED <<at, clientDeaf, promised, streams, closing, total>>

\* main() of bin/client.rs ends after recv(); the test in lib.rs stays until
\* the server is done too.
Exit ==
  /\ client \in {"copied", "done"} /\ client' = "exited"
  /\ ClientStep
  /\ UNCHANGED <<at, clientDeaf, promised, streams, files>>
-----------------------------------------------------------------------------
ServerStream(id) ==
  Write(id) \/ Wrote(id) \/ Tick(id) \/ Timeout(id) \/ AckArrives(id)

ClientStream(id) == Receive(id) \/ ReceiveSome(id) \/ TaskReads(id)

Next ==
  \/ Bind \/ Connect \/ Listen \/ SecondHello \/ SecondReply \/ RefusedByServer \/ Build
  \/ Open \/ CloseSends \/ Finish
  \/ Accept \/ Close \/ Closed \/ Merge \/ Rename \/ Exit
  \/ \E id \in Ids :
       Overtaken(id) \/ Refused(id) \/ ServerStream(id) \/ ClientStream(id)
  \/ \E f \in todo : Dispatch(f)

\* Both programs run; what is sent again and again is received at last, and so
\* is an ack while the client runs, and a timer fires if no ack is heard.
\* Nothing is promised of the handshake, which is sent once, nor does the
\* client's process have to stay.
Fairness ==
  /\ WF_vars(Bind) /\ WF_vars(Connect)
  /\ WF_vars(Open) /\ WF_vars(CloseSends) /\ WF_vars(Finish)
  /\ WF_vars(Accept) /\ WF_vars(Close) /\ WF_vars(Closed) /\ WF_vars(Merge) /\ WF_vars(Rename)
  /\ \A id \in Ids :
       /\ WF_vars(Write(id)) /\ WF_vars(Wrote(id)) /\ WF_vars(Tick(id)) /\ WF_vars(TaskReads(id))
       /\ \A fin \in BOOLEAN : WF_vars(\E f \in todo : f.id = id /\ f.fin = fin /\ Dispatch(f))
       /\ WF_vars(serverDeaf /\ Timeout(id))
       /\ SF_vars(Receive(id)) /\ SF_vars(ClientRuns /\ AckArrives(id))

Spec == Init /\ [][Next]_vars /\ Fairness
-----------------------------------------------------------------------------
TypeOK ==
  /\ server \in {"starting", "listening", "sending", "closing", "finished"}
  /\ client \in {"starting", "building", "receiving", "closing", "merging", "done", "copied",
                 "failed", "panicked", "exited"}
  /\ serverDeaf \in BOOLEAN /\ clientDeaf \in BOOLEAN
  /\ hello \in BOOLEAN /\ reply \in BOOLEAN
  /\ opened \in 0..StreamCount(file) /\ dataSent \subseteq wrote /\ wrote \subseteq 0..(opened - 1)
  /\ \A id \in Ids :
       /\ at[id] \in {"unopened", "open", "written", "sent", "received", "lost", "acked"}
       /\ at[id] = "unopened" <=> id >= opened
       /\ recv[id].state \in {"absent", "Recv", "SizeKnown", "DataRecvd", "DataRead"}
  /\ \A id \in Ids :
       /\ recv[id].got \in 0..Len(Part(file, id)) /\ recv[id].read \in 0..recv[id].got
  /\ \A f \in todo :
       f.id \in Ids /\ f.hi \in 1..Len(Part(file, f.id)) /\ (f.fin => f.hi = Len(Part(file, f.id)))
  /\ accepted \subseteq Ids /\ total \in 0..promised

\* accept() returns each stream that the peer opened once, however often its
\* frames come and in whatever order the streams do, and no more of them than
\* were promised.
AcceptedOnce ==
  LET queued == { queue[i] : i \in DOMAIN queue }
  IN /\ recvCount = Cardinality(accepted) /\ Len(queue) = Cardinality(queued)
     /\ accepted \intersect queued = {}
     /\ accepted \union queued = { id \in Ids : recv[id].state # "absent" }
     /\ recvCount <= promised

\* close() of the sending connection returns only when the end of every stream
\* came to the client, with all of its bytes unless packets or acks were lost:
\* then the end may have been refused (SizeKnown), with the last bytes, and
\* acknowledged.  Or the client lost its Receiver, and with it what it had
\* received and not dispatched.
Ended(id) ==
  \/ recv[id].state \in {"DataRecvd", "DataRead"}
  \/ recv[id].state = "SizeKnown" /\ "loss" \in faults
  \/ \E f \in todo : f.id = id /\ f.fin

ClosedMeansReceived ==
  server = "finished" /\ ~TryCompress(file) =>
    \A id \in 0..(StreamCount(file) - 1) : Ended(id) \/ clientDeaf

\* The first bytes cancel out although they are not all the same, or not all
\* of the file.
Mistaken == TryCompress(file) /\ file # Repeated(file[1], Len(file))

\* The streams are too many for their number to be told, or none, or an odd
\* number of them leaves a neighbour to a temporary file of another transfer.
Unmergeable ==
  LET n == StreamCount(file)
  IN ~TryCompress(file) /\ (n = 0 \/ n >= Wrap \/ (n > 1 /\ n % 2 = 1 /\ disk[n] # NoFile))

\* Whatever was lost, repeated or reordered, and in whatever order the streams
\* were accepted, received and joined, the file written is the file sent.
FileIsSent == target # NoFile => target = file \/ Mistaken \/ Unmergeable

\* A stream need not end any more: it was acknowledged without a fin, or the
\* fin was refused, because it came after the bytes were read or with bytes
\* that were read already.
Stuck == \E id \in Ids : recv[id].state = "SizeKnown" \/ (at[id] = "acked" /\ id \notin dataSent)

\* The client's Receiver ended before all the streams had come.
Unheard ==
  clientDeaf /\ \E id \in 0..(StreamCount(file) - 1) :
                  recv[id].state \notin {"DataRecvd", "DataRead"}


\* And the server ends too if the client's process stays after it is done, and
\* no Receiver was killed by a packet it cannot read.
SenderFinishes ==
  server = "closing" /\ ClientRuns ~> server = "finished" \/ Stuck \/ serverDeaf \/ clientDeaf \/ Gone

=============================================================================
