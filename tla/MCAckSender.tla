---------------------------- MODULE MCAckSender -----------------------------
(***************************************************************************)
(* AckSender on the first packets of a connection, and on a connection     *)
(* that has received 65533 packets in order.                               *)
(***************************************************************************)
EXTENDS AckSender

\* After the packets 0..65532 in order: every third one moves `acked` and is
\* acknowledged at once.
LongRun ==
  /\ waiting = 0 /\ acked = 65532 /\ spans = {<<0, 65533>>} /\ handle = "none" /\ stray = 0
  /\ eliciting = {} /\ unacked = {}

LongSpec == LongRun /\ [][Next]_avars
=============================================================================
