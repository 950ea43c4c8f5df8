----------------------------- MODULE ByteRanges -----------------------------
(***************************************************************************)
(* Half-open ranges lo..hi of u64 offsets and sets of them, as the two     *)
(* stream windows use rrdt-lib/src/utils/range_set.rs.  A RangeSet keeps   *)
(* its ranges disjoint and non-adjacent, so it is determined by the set of *)
(* offsets it covers, and that set is what the window modules keep:        *)
(* insert is union, contains_range is inclusion, and popping the first     *)
(* range takes the maximal run that begins at the smallest offset.         *)
(***************************************************************************)
EXTENDS Integers

\* The offsets of the half-open range lo..hi.
Span(lo, hi) == lo..(hi - 1)

LesserOf(a, b) == IF a <= b THEN a ELSE b

\* RangeSet::first, as a set: the pair <<lo, hi>> of the first maximal range
\* of S, and no pair when S is empty.  `\E run \in FirstRun(S)` is therefore
\* both the `if let Some(range) = set.pop_front()` and its binding.
FirstRun(S) ==
  { run \in S \X { x + 1 : x \in S } :
      /\ run[1] < run[2]
      /\ Span(run[1], run[2]) \subseteq S
      /\ run[2] \notin S
      /\ \A x \in S : run[1] <= x }

=============================================================================
