----------------------------- MODULE ByteStream -----------------------------
(***************************************************************************)
(* What one stream of a connection promises its two applications, with no  *)
(* window, frame, packet or network in sight: SendStream::send and wrote   *)
(* on one side, RecvStream::recv on the other, the two handles of          *)
(* rrdt-lib/src/connection/stream/mod.rs.                                  *)
(* The reader gets the bytes that were written, in order and once each; it *)
(* is told that the stream ended only when the writer said so and every    *)
(* byte before was read.                                                   *)
(***************************************************************************)
EXTENDS Integers

VARIABLES
  written,   \* bytes the writer has handed over
  finished,  \* the writer declared that nothing follows
  read,      \* bytes the reader has got
  ended      \* the reader was told that the stream ended

bvars == <<written, finished, read, ended>>

Init == written = 0 /\ finished = FALSE /\ read = 0 /\ ended = FALSE

Write ==
  /\ ~finished
  /\ written' > written
  /\ UNCHANGED <<finished, read, ended>>

Finish ==
  /\ ~finished /\ finished' = TRUE
  /\ UNCHANGED <<written, read, ended>>

Read ==
  /\ ~ended
  /\ read' \in read..written
  /\ ended' \in BOOLEAN
  /\ ended' => finished /\ read' = written
  /\ UNCHANGED <<written, finished>>

Next == Write \/ Finish \/ Read

Spec == Init /\ [][Next]_bvars
=============================================================================
