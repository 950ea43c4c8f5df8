-------------------------- MODULE MCRangeSetCalls ---------------------------
(***************************************************************************)
(* RangeSetCalls over seven offsets: every map with up to four ranges, and *)
(* every call on it, empty ranges and ranges across several ones included. *)
(* A replace that leaves an empty range ends the behaviour (NoEmptyRange), *)
(* so deadlock is not checked.                                             *)
(***************************************************************************)
EXTENDS RangeSetCalls
=============================================================================
