---------------------------- MODULE MCRecvStream ----------------------------
(***************************************************************************)
(* RecvStream on a stream longer than its window, with two reads waiting   *)
(* together and reads of 0, 1 and more bytes than a chunk holds.           *)
(***************************************************************************)
EXTENDS RecvStream

MCReadLens == {0, 1, 3}
=============================================================================
