-------------------------- MODULE MCStreamTransfer --------------------------
(***************************************************************************)
(* StreamTransfer on a stream longer than the window, so that the limit    *)
(* must move, with ticks that send less and more than one write.           *)
(***************************************************************************)
EXTENDS StreamTransfer

MCLens     == {1, 2}
MCBudgets  == {1, 2}
MCReadLens == {1, 2}
=============================================================================
