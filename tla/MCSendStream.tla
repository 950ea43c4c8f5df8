---------------------------- MODULE MCSendStream ----------------------------
(***************************************************************************)
(* SendStream on a stream of a few bytes: a window smaller than the data,  *)
(* reads and writes of 0, 1 or more bytes, limits below and above it.      *)
(***************************************************************************)
EXTENDS SendStream

MCLens   == {0, 1, 3}
MCLimits == {1, 4}
=============================================================================
