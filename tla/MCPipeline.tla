---------------------------- MODULE MCPipeline ----------------------------
(***************************************************************************)
(* Pipeline with packets that hold a few bytes: 5 bytes of data are one    *)
(* more than a packet holds, so that they are cut in an empty packet and   *)
(* in one that already holds a frame.                                      *)
(***************************************************************************)
EXTENDS Pipeline

MCLens == {5}

=============================================================================
