----------------------------- MODULE OffsetSet ------------------------------
(***************************************************************************)
(* What a RangeSet promises its callers: a set of offsets.                 *)
(***************************************************************************)
EXTENDS ByteRanges

CONSTANT Top   \* bound: offsets lie below Top

VARIABLES
  elems,   \* the offsets in the set
  answer   \* the last call and what it returned: a flag, or a set of offsets

ovars == <<elems, answer>>

Flag(call, lo, hi, changed) == [call |-> call, lo |-> lo, hi |-> hi, changed |-> changed, out |-> {}]
Out(call, lo, hi, offsets)  == [call |-> call, lo |-> lo, hi |-> hi, changed |-> TRUE, out |-> offsets]

Ranges == { r \in (0..Top) \X (0..Top) : r[1] <= r[2] }

Init == elems = {} /\ answer = Flag("new", 0, 0, FALSE)

\* True exactly when the call added something.
Insert(lo, hi) ==
  /\ elems' = elems \union Span(lo, hi)
  /\ answer' = Flag("insert", lo, hi, elems' # elems)

\* True exactly when the call removed something.
Remove(lo, hi) ==
  /\ elems' = elems \ Span(lo, hi)
  /\ answer' = Flag("remove", lo, hi, elems' # elems)

\* The offsets that were there already, before the whole range is.
Replace(lo, hi) ==
  /\ elems' = elems \union Span(lo, hi)
  /\ answer' = Out("replace", lo, hi, elems \intersect Span(lo, hi))

\* The first, or the last, maximal range.
Pop(call, run) ==
  /\ elems' = elems \ Span(run[1], run[2])
  /\ answer' = Out(call, run[1], run[2], Span(run[1], run[2]))

PopFront == \E run \in FirstRun(elems) : Pop("pop_front", run)

PopBack ==
  \E run \in Ranges :
    /\ run[1] < run[2] /\ Span(run[1], run[2]) \subseteq elems
    /\ run[1] - 1 \notin elems
    /\ \A x \in elems : x < run[2]
    /\ Pop("pop_back", run)

Next ==
  \/ \E r \in Ranges : Insert(r[1], r[2]) \/ Remove(r[1], r[2]) \/ Replace(r[1], r[2])
  \/ PopFront \/ PopBack

Spec == Init /\ [][Next]_ovars
=============================================================================
