--------------------------- MODULE RangeSetCalls ----------------------------
(***************************************************************************)
(* A RangeSet (rrdt-lib/src/utils/range_set.rs) under any sequence of      *)
(* calls, against the set of offsets that it stands for.                   *)
(*                                                                         *)
(* Bounds: ranges are not reversed, and a map is followed until it holds   *)
(* an empty range.  replace(x..x), where no range touches x, leaves x..x   *)
(* in the map: no code of the repository calls replace, and what the later *)
(* calls make of such a map (the loop of Drop, for one, stops at an empty  *)
(* range) is not modelled.                                                 *)
(***************************************************************************)
EXTENDS RangeSet

CONSTANT Top   \* bound: offsets lie below Top

ASSUME RangeSetConstants == Top \in Nat \ {0}

VARIABLES
  map,     \* RangeSet.map
  answer   \* the last call and what it returned: a flag, or a set of offsets

mvars == <<map, answer>>

Flag(call, lo, hi, changed) == [call |-> call, lo |-> lo, hi |-> hi, changed |-> changed, out |-> {}]
Out(call, lo, hi, offsets)  == [call |-> call, lo |-> lo, hi |-> hi, changed |-> TRUE, out |-> offsets]

Init == map = {} /\ answer = Flag("new", 0, 0, FALSE)

CallInsert(lo, hi) ==
  map' = Insert(map, lo, hi) /\ answer' = Flag("insert", lo, hi, lo < hi /\ ~ContainsRange(map, lo, hi))

CallInsertOne(x) ==
  map' = InsertOne(map, x) /\ answer' = Flag("insert", x, x + 1, ~Contains(map, x))

CallRemove(lo, hi) ==
  /\ map' = Remove(map, lo, hi)
  /\ answer' = Flag("remove", lo, hi, lo < hi /\ Cut(map, lo, hi) # {})

CallReplace(lo, hi) ==
  map' = Replace(map, lo, hi) /\ answer' = Out("replace", lo, hi, Replaced(map, lo, hi))

Pop(call, p) == map' = map \ {p} /\ answer' = Out(call, p[1], p[2], Span(p[1], p[2]))

PopFront == \E p \in FirstRange(map) : Pop("pop_front", p)
PopBack  == \E p \in LastRange(map) : Pop("pop_back", p)

\* The bound on what is followed.
NoEmptyRange == \A p \in map : p[1] < p[2]

Calls ==
  \/ \E lo, hi \in 0..Top :
       lo <= hi /\ (CallInsert(lo, hi) \/ CallRemove(lo, hi) \/ CallReplace(lo, hi))
  \/ \E x \in 0..(Top - 1) : CallInsertOne(x)
  \/ PopFront \/ PopBack

Next == NoEmptyRange /\ Calls

Spec == Init /\ [][Next]_mvars
-----------------------------------------------------------------------------
\* The map has one form for each set: between two ranges there is a gap, and
\* no range is empty but one: that of a replace of an empty range that touches
\* none.  Equality of RangeSets, len, and `recvd` of the receive window (one
\* range, of a given extent) depend on it.
Normal ==
  /\ \A p \in map : \/ p[1] < p[2]
                    \/ answer.call = "replace" /\ p = <<answer.lo, answer.hi>>
  /\ \A p, q \in map : p[1] < q[1] => p[2] < q[1]
  /\ \A p, q \in map : p[1] = q[1] => p = q

\* The queries answer for the set: contains_range, which looks at one range
\* only, never misses an extent that two ranges cover together, and first,
\* while no range is empty, is the maximal run from the smallest offset.
Queries ==
  /\ \A x \in 0..Top : Contains(map, x) <=> x \in Elements(map)
  /\ \A lo, hi \in 0..Top :
       lo < hi => (ContainsRange(map, lo, hi) <=> Span(lo, hi) \subseteq Elements(map))
  /\ NoEmptyRange => FirstRange(map) = FirstRun(Elements(map))

\* Every operation does to the map what it promises for the set, and returns
\* true exactly when it changed something, up to and with a replace that leaves
\* an empty range.
O == INSTANCE OffsetSet WITH elems <- Elements(map)
IsASet == O!Spec
=============================================================================
