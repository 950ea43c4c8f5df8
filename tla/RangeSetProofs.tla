--------------------------- MODULE RangeSetProofs ---------------------------
(***************************************************************************)
(* The map of a RangeSet stays in its normal form under every sequence of  *)
(* calls, the queries that look at one range only answer for the whole     *)
(* set, and every call does to the map what OffsetSet promises for the     *)
(* set of offsets, for every bound Top on the offsets.  A replace of an    *)
(* empty range that touches none is the end of a behaviour (NoEmptyRange): *)
(* the map then is one in normal form and the empty range apart from it.   *)
(*                                                                         *)
(* The lemmas about the operators of RangeSet are about any map in normal  *)
(* form whose ranges end at or below a bound.                              *)
(***************************************************************************)
EXTENDS RangeSetCalls, ByteRangesProofs

\* A map in normal form over the offsets below top (Normal, for any map).
Maps(top) ==
  { m \in SUBSET ((0..top) \X (0..top)) :
      /\ \A p \in m : p[1] < p[2]
      /\ \A p, q \in m : p[1] < q[1] => p[2] < q[1]
      /\ \A p, q \in m : p[1] = q[1] => p = q }

\* n is m with the empty range x..x, that touches no range of m.
WithEmpty(n, m, x) ==
  n = m \union {<<x, x>>} /\ \A p \in m : p[2] < x \/ x < p[1]

\* The inductive invariant.
Inv ==
  \/ map \in Maps(Top)
  \/ \E m \in Maps(Top) : \E x \in 0..Top :
       /\ WithEmpty(map, m, x)
       /\ answer.call = "replace" /\ answer.lo = x /\ answer.hi = x
-----------------------------------------------------------------------------
(***************************************************************************)
(* Ranges of a map.                                                        *)
(***************************************************************************)
LEMMA RangeFacts ==
  ASSUME NEW top \in Nat, NEW m \in Maps(top), NEW p \in m
  PROVE  /\ p \in (0..top) \X (0..top) /\ p = <<p[1], p[2]>>
         /\ p[1] \in 0..top /\ p[2] \in 0..top /\ p[1] < p[2]
         /\ \A q \in m : p[1] < q[1] => p[2] < q[1]
         /\ \A q \in m : p[1] = q[1] => p = q
  BY DEF Maps

LEMMA ElementsMember ==
  ASSUME NEW top \in Nat, NEW m \in Maps(top), NEW x
  PROVE  x \in Elements(m) <=> x \in Int /\ \E p \in m : p[1] <= x /\ x < p[2]
  BY RangeFacts DEF Elements, Span

LEMMA ElementsBound ==
  ASSUME NEW top \in Nat, NEW m \in Maps(top), NEW x \in Elements(m)
  PROVE  x \in Nat /\ x < top
  BY RangeFacts, ElementsMember

\* The only range that may hold or touch x is the one that pred finds.
LEMMA PredMember ==
  ASSUME NEW top \in Nat, NEW m \in Maps(top), NEW x \in Int, NEW p \in m
  PROVE  /\ p \in Pred(m, x) => p[1] <= x
         /\ p[1] <= x /\ x <= p[2] => p \in Pred(m, x)
  <1>1. ASSUME p[1] <= x, x <= p[2], NEW q \in m, q[1] <= x PROVE q[1] <= p[1]
    BY <1>1, RangeFacts
  <1> QED
    BY <1>1 DEF Pred

LEMMA PredUnique ==
  ASSUME NEW top \in Nat, NEW m \in Maps(top), NEW x \in Int,
         NEW p \in Pred(m, x), NEW q \in Pred(m, x)
  PROVE  p = q
  <1>1. p \in m /\ q \in m /\ p[1] <= q[1] /\ q[1] <= p[1]
    BY DEF Pred
  <1>2. p[1] = q[1]
    BY <1>1, RangeFacts
  <1> QED
    BY <1>1, <1>2, RangeFacts

\* No range holds the end of another.
LEMMA EndOutside ==
  ASSUME NEW top \in Nat, NEW m \in Maps(top), NEW p \in m
  PROVE  p[2] \notin Elements(m)
  <1> SUFFICES ASSUME NEW q \in m, q[1] <= p[2], p[2] < q[2] PROVE FALSE
    BY ElementsMember
  <1>1. CASE p[1] < q[1]
    BY <1>1, RangeFacts
  <1>2. CASE q[1] < p[1]
    BY <1>2, RangeFacts
  <1>3. CASE p[1] = q[1]
    BY <1>3, RangeFacts
  <1> QED
    BY <1>1, <1>2, <1>3, RangeFacts

LEMMA ContainsFact ==
  ASSUME NEW top \in Nat, NEW m \in Maps(top), NEW x \in Int
  PROVE  Contains(m, x) <=> x \in Elements(m)
  <1>1. ASSUME NEW p \in Pred(m, x), p[2] > x PROVE x \in Elements(m)
    BY <1>1, ElementsMember, PredMember DEF Pred
  <1>2. ASSUME NEW p \in m, p[1] <= x, x < p[2] PROVE Contains(m, x)
    <2>1. p \in Pred(m, x)
      BY <1>2, PredMember, RangeFacts
    <2>2. p[2] > x
      BY <1>2, RangeFacts
    <2> QED
      BY <2>1, <2>2 DEF Contains
  <1> QED
    BY <1>1, <1>2, ElementsMember DEF Contains

\* An extent that two ranges cover together does not exist.
LEMMA ContainsRangeFact ==
  ASSUME NEW top \in Nat, NEW m \in Maps(top), NEW lo \in Int, NEW hi \in Int, lo < hi
  PROVE  ContainsRange(m, lo, hi) <=> Span(lo, hi) \subseteq Elements(m)
  <1>1. ASSUME NEW p \in Pred(m, lo), p[2] >= hi, NEW x \in Span(lo, hi)
        PROVE  x \in Elements(m)
    <2>1. p \in m /\ p[1] <= lo /\ x \in Int /\ lo <= x /\ x < hi
      BY SpanMember DEF Pred, Span
    <2> QED
      BY <1>1, <2>1, ElementsMember, RangeFacts
  <1>2. ASSUME Span(lo, hi) \subseteq Elements(m) PROVE ContainsRange(m, lo, hi)
    <2>1. lo \in Elements(m)
      BY <1>2, SpanMember
    <2>2. PICK p \in m : p[1] <= lo /\ lo < p[2]
      BY <2>1, ElementsMember
    <2>3. p[2] \notin Span(lo, hi)
      BY <1>2, EndOutside
    <2>4. p[2] >= hi
      BY <2>2, <2>3, SpanMember, RangeFacts
    <2>5. p \in Pred(m, lo)
      BY <2>2, PredMember, RangeFacts
    <2> QED
      BY <2>4, <2>5 DEF ContainsRange
  <1> QED
    BY <1>1, <1>2 DEF ContainsRange

\* first() gives the maximal run that begins at the smallest offset.
LEMMA FirstRangeFact ==
  ASSUME NEW top \in Nat, NEW m \in Maps(top)
  PROVE  FirstRange(m) = FirstRun(Elements(m))
  <1>1. ASSUME NEW p \in FirstRange(m) PROVE p \in FirstRun(Elements(m))
    <2>1. p \in m /\ \A q \in m : p[1] <= q[1]
      BY DEF FirstRange
    <2>2. p[1] \in Elements(m)
      BY <2>1, ElementsMember, RangeFacts
    <2>3. p[2] - 1 \in Elements(m) /\ p[2] = (p[2] - 1) + 1
      BY <2>1, ElementsMember, RangeFacts
    <2>4. p \in Elements(m) \X { x + 1 : x \in Elements(m) }
      <3>1. p[2] \in { x + 1 : x \in Elements(m) }
        BY <2>3
      <3> QED
        BY <2>1, <2>2, <3>1, RangeFacts
    <2>5. Span(p[1], p[2]) \subseteq Elements(m)
      BY <2>1, ElementsMember, RangeFacts DEF Span
    <2>6. \A x \in Elements(m) : p[1] <= x
      BY <2>1, ElementsMember, RangeFacts
    <2> QED
      BY <2>1, <2>4, <2>5, <2>6, EndOutside, RangeFacts DEF FirstRun
  <1>2. ASSUME NEW run \in FirstRun(Elements(m)) PROVE run \in FirstRange(m)
    <2>0. Elements(m) \in SUBSET Nat
      BY ElementsBound
    <2>1. /\ run[1] \in Elements(m) /\ run[2] \in Nat /\ run[1] < run[2]
          /\ \A x \in Span(run[1], run[2]) : x \in Elements(m)
          /\ run[2] \notin Elements(m)
          /\ \A x \in Elements(m) : run[1] <= x
      BY <2>0, FirstRunFacts
    <2>2. run = <<run[1], run[2]>>
      BY DEF FirstRun
    <2>3. run[1] \in Nat
      BY <2>0, <2>1
    <2>4. PICK p \in m : p[1] <= run[1] /\ run[1] < p[2]
      BY <2>1, ElementsMember
    <2>5. \A q \in m : q[1] \in Elements(m)
      BY ElementsMember, RangeFacts
    <2>6. p[1] = run[1]
      BY <2>1, <2>3, <2>4, <2>5, RangeFacts
    <2>7. p[2] >= run[2]
      BY <2>1, <2>3, <2>4, EndOutside, RangeFacts, SpanMember
    <2>8. run[2] >= p[2]
      BY <2>1, <2>3, <2>4, <2>6, ElementsMember, RangeFacts
    <2>9. run = p
      BY <2>1, <2>2, <2>6, <2>7, <2>8, RangeFacts
    <2> QED
      BY <2>1, <2>5, <2>9 DEF FirstRange
  <1> QED
    BY <1>1, <1>2
-----------------------------------------------------------------------------
(***************************************************************************)
(* The map after a call.                                                   *)
(***************************************************************************)
LEMMA PartOfMap ==
  ASSUME NEW top \in Nat, NEW m \in Maps(top), NEW C \in SUBSET m
  PROVE  C \in Maps(top)
  BY DEF Maps

\* A range that leaves a gap to all that stay takes the place of the others.
LEMMA JoinIsMap ==
  ASSUME NEW top \in Nat, NEW m \in Maps(top), NEW C \in SUBSET m,
         NEW lo \in 0..top, NEW hi \in 0..top, lo < hi,
         \A p \in m \ C : p[2] < lo \/ hi < p[1]
  PROVE  (m \ C) \union {<<lo, hi>>} \in Maps(top)
  <1> DEFINE n == (m \ C) \union {<<lo, hi>>}
  <1>1. \A p \in n : p \in (0..top) \X (0..top) /\ p[1] < p[2]
    BY RangeFacts
  <1>2. ASSUME NEW p \in n, NEW q \in n
        PROVE  (p[1] < q[1] => p[2] < q[1]) /\ (p[1] = q[1] => p = q)
    <2>1. CASE p \in m \ C /\ q \in m \ C
      BY <2>1, RangeFacts
    <2>2. CASE p \in m \ C /\ q = <<lo, hi>>
      <3>1. p[2] < lo \/ hi < p[1]
        BY <2>2
      <3> QED
        BY <2>2, <3>1, RangeFacts
    <2>3. CASE p = <<lo, hi>> /\ q \in m \ C
      <3>1. q[2] < lo \/ hi < q[1]
        BY <2>3
      <3> QED
        BY <2>3, <3>1, RangeFacts
    <2> QED
      BY <2>1, <2>2, <2>3
  <1> QED
    BY <1>1, <1>2 DEF Maps

\* It covers the ranges whose place it takes, and otherwise only lo..hi.
Joins(m, C, from, to, lo, hi) ==
  /\ lo \in Int /\ hi \in Int
  /\ from <= lo /\ hi <= to
  /\ \A p \in m \ C : p[2] < from \/ to < p[1]
  /\ \A p \in C : from <= p[1] /\ p[2] <= to
  /\ \A x \in Span(from, to) : x \in Elements(m) \/ x \in Span(lo, hi)

\* n stands for the set of m with lo..hi added.
Adds(top, n, m, lo, hi) ==
  n \in Maps(top) /\ Elements(n) = Elements(m) \union Span(lo, hi)

LEMMA JoinFact ==
  ASSUME NEW top \in Nat, NEW m \in Maps(top), NEW C \in SUBSET m,
         NEW from \in 0..top, NEW to \in 0..top, from < to,
         NEW lo, NEW hi, Joins(m, C, from, to, lo, hi)
  PROVE  Adds(top, (m \ C) \union {<<from, to>>}, m, lo, hi)
  <1> USE DEF Joins
  <1> DEFINE n == (m \ C) \union {<<from, to>>}
  <1>1. n \in Maps(top)
    BY JoinIsMap
  <1>2. ASSUME NEW x \in Elements(n) PROVE x \in Elements(m) \union Span(lo, hi)
    <2>1. PICK p \in n : x \in Int /\ p[1] <= x /\ x < p[2]
      BY <1>1, <1>2, ElementsMember
    <2>2. CASE p \in m
      BY <2>1, <2>2, ElementsMember
    <2>3. CASE p = <<from, to>>
      BY <2>1, <2>3, SpanMember
    <2> QED
      BY <2>2, <2>3
  <1>3. ASSUME NEW x \in Elements(m) PROVE x \in Elements(n)
    <2>1. PICK p \in m : x \in Int /\ p[1] <= x /\ x < p[2]
      BY <1>3, ElementsMember
    <2>2. CASE p \in C
      <3>1. from <= x /\ x < to
        BY <2>1, <2>2, RangeFacts
      <3> QED
        BY <1>1, <2>1, <3>1, ElementsMember
    <2>3. CASE p \notin C
      BY <1>1, <2>1, <2>3, ElementsMember
    <2> QED
      BY <2>2, <2>3
  <1>4. ASSUME NEW x \in Span(lo, hi) PROVE x \in Elements(n)
    <2>1. x \in Int /\ from <= x /\ x < to
      BY SpanMember DEF Span
    <2> QED
      BY <1>1, <2>1, ElementsMember
  <1> QED
    BY <1>1, <1>2, <1>3, <1>4 DEF Adds

\* The least and the greatest of the numbers that a call compares.
LEMMA LeastIs ==
  ASSUME NEW S \in SUBSET Int, NEW a \in S, \A y \in S : a <= y
  PROVE  Min(S) = a
  <1>1. \A b \in S : (\A y \in S : b <= y) => b = a
    OBVIOUS
  <1>2. Min(S) \in S /\ \A y \in S : Min(S) <= y
    BY DEF Min
  <1> QED
    BY <1>1, <1>2, Zenon

LEMMA MinFact ==
  ASSUME NEW a \in Int, NEW b \in Int, a <= b
  PROVE  Min({a}) = a /\ Min({a, b}) = a /\ Min({b, a}) = a
  <1>1. ASSUME NEW S \in {{a}, {a, b}, {b, a}} PROVE Min(S) \in S /\ \A y \in S : Min(S) <= y
    BY DEF Min
  <1> QED
    BY <1>1

LEMMA MaxFact ==
  ASSUME NEW a \in Int, NEW b \in Int, a <= b
  PROVE  Max({b}) = b /\ Max({a, b}) = b /\ Max({b, a}) = b
  <1>1. ASSUME NEW S \in {{b}, {a, b}, {b, a}} PROVE Max(S) \in S /\ \A y \in S : Max(S) >= y
    BY DEF Max
  <1> QED
    BY <1>1

LEMMA InsertOneFact ==
  ASSUME NEW top \in Nat, NEW m \in Maps(top), NEW x \in 0..(top - 1)
  PROVE  Adds(top, InsertOne(m, x), m, x, x + 1)
  <1>0. x \in Int /\ x + 1 \in 0..top /\ Span(x, x + 1) = {x}
    BY DEF Span
  <1>1. CASE Contains(m, x)
    BY <1>0, <1>1, ContainsFact DEF InsertOne, Adds
  <1>2. CASE ~Contains(m, x)
    <2> DEFINE before == { p \in Pred(m, x) : p[2] = x }
               after == { p \in Succ(m, x) : p[1] = x + 1 }
               C == before \union after
               from == From(before, x)
               to == Max({x + 1} \union { p[2] : p \in after })
    <2>1. x \notin Elements(m)
      BY <1>0, <1>2, ContainsFact
    <2>2. \A p \in m : p \in before <=> p[2] = x
      BY <1>0, PredMember, RangeFacts DEF Pred
    <2>3. \A p \in m : p \in after <=> p[1] = x + 1
      <3>1. ASSUME NEW p \in m, p[1] = x + 1 PROVE p \in Succ(m, x)
        BY <1>0, <3>1, RangeFacts DEF Succ
      <3> QED
        BY <3>1
    <2>4. C \in SUBSET m
      BY DEF Pred, Succ
    <2>5. /\ from \in 0..top /\ from <= x
          /\ \A p \in before : p[1] = from
          /\ from = x \/ \E p \in before : p[1] = from
      <3>1. CASE before = {}
        <4>1. {x} \union { p[1] : p \in before } = {x}
          BY <3>1
        <4>2. Min({x}) = x
          BY <1>0, x <= x, MinFact
        <4>3. from = x
          BY <4>1, <4>2 DEF From
        <4> QED
          BY <1>0, <3>1, <4>3
      <3>2. ASSUME NEW p \in before PROVE p[1] \in 0..top /\ p[1] < x /\ from = p[1] /\ \A q \in before : q = p
        <4>1. p \in m /\ p[2] = x
          BY DEF Pred
        <4>2. \A q \in before : q = p
          BY <1>0, PredUnique
        <4>3. {x} \union { q[1] : q \in before } = {x, p[1]}
          BY <4>2
        <4>4. p[1] \in 0..top /\ p[1] < x
          BY <4>1, RangeFacts
        <4>4a. p[1] \in Int /\ p[1] <= x
          BY <1>0, <4>4
        <4>5. Min({x, p[1]}) = p[1]
          BY <1>0, <4>4a, MinFact, Zenon
        <4>6. from = p[1]
          BY <4>3, <4>5 DEF From
        <4> QED
          BY <4>2, <4>4, <4>6
      <3> QED
        BY <3>1, <3>2
    <2>6. /\ to \in 0..top /\ x < to
          /\ \A p \in after : p[2] = to
          /\ to = x + 1 \/ \E p \in after : p[2] = to
      <3>1. CASE after = {}
        <4>1. {x + 1} \union { p[2] : p \in after } = {x + 1}
          BY <3>1
        <4>2. Max({x + 1}) = x + 1
          BY <1>0, MaxFact
        <4>3. to = x + 1
          BY <4>1, <4>2
        <4> QED
          BY <1>0, <3>1, <4>3
      <3>2. ASSUME NEW p \in after PROVE p[2] \in 0..top /\ x < p[2] /\ to = p[2] /\ \A q \in after : q = p
        <4>1. p \in m /\ p[1] = x + 1
          BY DEF Succ
        <4>2. \A q \in after : q = p
          <5>1. ASSUME NEW q \in after PROVE q = p
            <6>1. q \in m /\ q[1] = x + 1
              BY DEF Succ
            <6> QED
              BY <4>1, <6>1, RangeFacts
          <5> QED
            BY <5>1
        <4>3. {x + 1} \union { q[2] : q \in after } = {x + 1, p[2]}
          BY <4>2
        <4>4. p[2] \in 0..top /\ x + 1 < p[2]
          BY <4>1, RangeFacts
        <4>4a. p[2] \in Int /\ x + 1 \in Int /\ x + 1 <= p[2]
          BY <1>0, <4>4
        <4>5. Max({x + 1, p[2]}) = p[2]
          BY <4>4a, MaxFact, Zenon
        <4>6. to = p[2]
          BY <4>3, <4>5
        <4> QED
          BY <1>0, <4>2, <4>4, <4>6
      <3> QED
        BY <3>1, <3>2
    <2>7. InsertOne(m, x) = (m \ C) \union {<<from, to>>}
      BY <1>2 DEF InsertOne
    <2>8. \A p \in C : from <= p[1] /\ p[2] <= to
      <3>1. ASSUME NEW p \in before PROVE from <= p[1] /\ p[2] <= to
        BY <2>5, <2>6, <1>0
      <3>2. ASSUME NEW p \in after PROVE from <= p[1] /\ p[2] <= to
        BY <2>5, <2>6, <1>0
      <3> QED
        BY <3>1, <3>2
    <2>9. ASSUME NEW p \in m \ C PROVE p[2] < from \/ to < p[1]
      <3>1. p \in m /\ p[2] # x /\ p[1] # x + 1
        BY <2>2, <2>3
      <3>2. p[2] <= x \/ x < p[1]
        BY <1>0, <2>1, <3>1, ElementsMember, RangeFacts
      <3>3. CASE p[2] <= x
        <4>1. CASE from = x
          BY <3>1, <3>3, <4>1, RangeFacts
        <4>2. ASSUME NEW q \in before, q[1] = from PROVE p[2] < from
          <5>1. q \in m /\ q[2] = x /\ p # q
            BY <2>2, <2>4
          <5>2. p[2] < x
            BY <1>0, <3>1, <3>3, RangeFacts
          <5> QED
            BY <1>0, <4>2, <3>1, <5>1, <5>2, RangeFacts
        <4> QED
          BY <2>5, <4>1, <4>2
      <3>4. CASE x < p[1]
        <4>1. CASE to = x + 1
          BY <1>0, <3>1, <3>4, <4>1, RangeFacts
        <4>2. ASSUME NEW q \in after, q[2] = to PROVE to < p[1]
          <5>1. q \in m /\ q[1] = x + 1
            BY <2>3, <2>4
          <5>2. q[1] < p[1]
            BY <1>0, <3>1, <3>4, <5>1, RangeFacts
          <5> QED
            BY <4>2, <3>1, <5>1, <5>2, RangeFacts
        <4> QED
          BY <2>6, <4>1, <4>2
      <3> QED
        BY <3>2, <3>3, <3>4
    <2>10. ASSUME NEW y \in Span(from, to) PROVE y \in Elements(m) \/ y \in Span(x, x + 1)
      <3>1. y \in Int /\ from <= y /\ y < to
        BY <2>5, <2>6, SpanMember DEF Span
      <3>2. CASE y < x
        <4>1. PICK q \in before : q[1] = from
          BY <1>0, <2>5, <3>1, <3>2
        <4>2. q \in m /\ q[2] = x
          BY <2>2, <2>4
        <4> QED
          BY <3>1, <3>2, <4>1, <4>2, ElementsMember
      <3>3. CASE y > x
        <4>1. PICK q \in after : q[2] = to
          BY <1>0, <2>6, <3>1, <3>3
        <4>2. q \in m /\ q[1] = x + 1
          BY <2>3, <2>4
        <4> QED
          BY <1>0, <3>1, <3>3, <4>1, <4>2, ElementsMember
      <3> QED
        BY <1>0, <3>1, <3>2, <3>3
    <2> HIDE DEF C, from, to
    <2>11. from < to /\ x + 1 <= to
      BY <1>0, <2>5, <2>6
    <2>12. Joins(m, C, from, to, x, x + 1)
      BY <1>0, <2>5, <2>6, <2>8, <2>9, <2>10, <2>11 DEF Joins
    <2>13. from \in 0..top /\ to \in 0..top /\ from < to
      BY <2>5, <2>6, <2>11
    <2>14. Adds(top, (m \ C) \union {<<from, to>>}, m, x, x + 1)
      BY <2>4, <2>12, <2>13, JoinFact, Zenon
    <2> QED
      BY <2>7, <2>14
  <1> QED
    BY <1>1, <1>2

\* What a range that is added takes in below it.
LEMMA TouchingFact ==
  ASSUME NEW top \in Nat, NEW m \in Maps(top), NEW lo \in 0..top
  PROVE  LET T == Touching(m, lo)
             from == From(T, lo)
         IN /\ T \in SUBSET m
            /\ from \in 0..top /\ from <= lo
            /\ \A p \in T : p[1] = from /\ lo <= p[2]
            /\ \A p \in T : Touching(m, lo) = {p}
            /\ T = {} => from = lo
            /\ \A p \in m \ T : p[1] <= from => p[2] < from
            /\ \A p \in m \ T : from < p[1] => lo < p[1]
            /\ \A x \in Int : from <= x /\ x < lo => x \in Elements(m)
  <1> DEFINE T == Touching(m, lo)
             from == From(T, lo)
  <1>1. \A p \in m : p \in T <=> p[1] <= lo /\ lo <= p[2]
    BY PredMember, RangeFacts DEF Touching
  <1>2. T \in SUBSET m
    BY DEF Touching, Pred
  <1>3. CASE T = {}
    <2>1. {lo} \union { p[1] : p \in T } = {lo}
      BY <1>3
    <2>2. Min({lo}) = lo
      BY lo <= lo, MinFact
    <2>3. from = lo
      BY <2>1, <2>2 DEF From
    <2>4. \A p \in m : p[1] <= lo => p[2] < lo
      BY <1>1, <1>3, RangeFacts
    <2> QED
      BY <1>3, <2>3, <2>4
  <1>4. ASSUME NEW t \in T
        PROVE  /\ from \in 0..top /\ from <= lo
               /\ \A p \in T : p[1] = from /\ lo <= p[2]
               /\ \A p \in T : T = {p}
               /\ \A p \in m \ T : p[1] <= from => p[2] < from
               /\ \A p \in m \ T : from < p[1] => lo < p[1]
               /\ \A x \in Int : from <= x /\ x < lo => x \in Elements(m)
    <2>1. t \in m /\ t[1] <= lo /\ lo <= t[2]
      BY <1>1, <1>2
    <2>2. T = {t}
      BY PredUnique DEF Touching
    <2>3. {lo} \union { p[1] : p \in T } = {lo, t[1]}
      BY <2>2
    <2>4. t[1] \in Int /\ lo \in Int /\ t[1] <= lo
      BY <2>1, RangeFacts
    <2>5. Min({lo, t[1]}) = t[1]
      BY <2>4, MinFact, Zenon
    <2>6. from = t[1]
      BY <2>3, <2>5 DEF From
    <2> HIDE DEF T, from
    <2>7. ASSUME NEW p \in m \ T PROVE (p[1] <= from => p[2] < from) /\ (from < p[1] => lo < p[1])
      <3>1. p[1] < t[1] \/ t[1] < p[1]
        BY <2>1, RangeFacts
      <3>2. p[1] < t[1] => p[2] < t[1]
        BY <2>1, RangeFacts
      <3>3. t[1] < p[1] => t[2] < p[1]
        BY <2>1, RangeFacts
      <3> QED
        BY <2>1, <2>6, <3>1, <3>2, <3>3, RangeFacts
    <2>8. ASSUME NEW x \in Int, from <= x, x < lo PROVE x \in Elements(m)
      BY <2>1, <2>6, <2>8, ElementsMember, RangeFacts
    <2>9. from \in 0..top /\ from <= lo
      BY <2>1, <2>6, RangeFacts
    <2>10. \A p \in T : p[1] = from /\ lo <= p[2] /\ T = {p}
      BY <2>1, <2>2, <2>6
    <2> QED
      BY <2>7, <2>8, <2>9, <2>10
  <1> QED
    BY <1>2, <1>3, <1>4

\* What it takes in above it: the loop stops after the one range, if there is
\* one, that reaches beyond the end.
LEMMA AbsorbedFact ==
  ASSUME NEW top \in Nat, NEW m \in Maps(top), NEW lo \in 0..top, NEW hi \in 0..top, lo < hi
  PROVE  LET e == Absorbed(m, lo, hi)
         IN /\ e \in 0..top /\ hi <= e
            /\ \A p \in m : lo < p[1] /\ p[1] <= e => p[2] <= e
            /\ \A x \in Int : hi <= x /\ x < e => x \in Elements(m)
  <1> DEFINE Closed(e) == e >= hi /\ \A p \in m : lo < p[1] /\ p[1] <= e => p[2] <= e
             S == { e \in {hi} \union { p[2] : p \in m } : Closed(e) }
  <1>1. S \in SUBSET Int
    BY RangeFacts
  <1>2. Absorbed(m, lo, hi) = Min(S)
    BY DEF Absorbed
  <1>3. CASE \A p \in m : ~ (lo < p[1] /\ p[1] <= hi /\ hi < p[2])
    <2>1. hi \in S /\ \A e \in S : hi <= e
      BY <1>1, <1>3, RangeFacts
    <2>2. Min(S) = hi
      BY <1>1, <2>1, LeastIs
    <2>3. \A p \in m : lo < p[1] /\ p[1] <= hi => p[2] <= hi
      BY <2>1
    <2> HIDE DEF S
    <2> QED
      BY <1>2, <2>2, <2>3
  <1>4. ASSUME NEW r \in m, lo < r[1], r[1] <= hi, hi < r[2]
        PROVE  /\ r[2] \in 0..top /\ hi <= r[2] /\ Min(S) = r[2]
               /\ \A p \in m : lo < p[1] /\ p[1] <= r[2] => p[2] <= r[2]
               /\ \A x \in Int : hi <= x /\ x < r[2] => x \in Elements(m)
    <2>1. ASSUME NEW p \in m, p[1] <= r[2] PROVE p[2] <= r[2]
      <3>1. CASE r[1] < p[1]
        BY <2>1, <3>1, RangeFacts
      <3>2. CASE p[1] < r[1]
        BY <3>2, RangeFacts
      <3>3. CASE p[1] = r[1]
        BY <3>3, RangeFacts
      <3> QED
        BY <3>1, <3>2, <3>3, RangeFacts
    <2>2. r[2] \in 0..top /\ hi <= r[2]
      BY <1>4, RangeFacts
    <2>3. r[2] \in S
      BY <2>1, <2>2
    <2>4. ASSUME NEW e \in S PROVE r[2] <= e
      BY <1>1, <1>4, RangeFacts
    <2>5. Min(S) = r[2]
      BY <1>1, <2>3, <2>4, LeastIs
    <2>6. ASSUME NEW x \in Int, hi <= x, x < r[2] PROVE x \in Elements(m)
      BY <1>4, <2>6, ElementsMember, RangeFacts
    <2> QED
      BY <2>1, <2>2, <2>5, <2>6
  <1> QED
    BY <1>2, <1>3, <1>4

LEMMA MergeFact ==
  ASSUME NEW top \in Nat, NEW m \in Maps(top), NEW lo \in 0..top, NEW to \in 0..top,
         From(Touching(m, lo), lo) < to,
         \A p \in Touching(m, lo) : p[2] <= to,
         NEW a \in Int, NEW b \in Int, From(Touching(m, lo), lo) <= a, b <= to,
         \A x \in Int : From(Touching(m, lo), lo) <= x /\ x < to => x \in Elements(m) \/ x \in Span(a, b)
  PROVE  Adds(top, Merge(m \ Touching(m, lo), From(Touching(m, lo), lo), to), m, a, b)
  <1> DEFINE T == Touching(m, lo)
             from == From(T, lo)
             e == Absorbed(m \ T, from, to)
             C == T \union { p \in m \ T : from < p[1] /\ p[1] <= e }
  <1>1. /\ T \in SUBSET m /\ from \in 0..top
        /\ \A p \in T : p[1] = from
        /\ \A p \in m \ T : p[1] <= from => p[2] < from
    BY TouchingFact
  <1>2. m \ T \in Maps(top)
    BY PartOfMap
  <1> HIDE DEF T, from
  <1>3. /\ e \in 0..top /\ to <= e
        /\ \A p \in m \ T : from < p[1] /\ p[1] <= e => p[2] <= e
        /\ \A x \in Int : to <= x /\ x < e => x \in Elements(m \ T)
    BY <1>1, <1>2, AbsorbedFact DEF T, from
  <1>4. \A x \in Int : to <= x /\ x < e => x \in Elements(m)
    BY <1>2, <1>3, ElementsMember
  <1> HIDE DEF e
  <1>5. C \in SUBSET m
    BY <1>1
  <1>6. Merge(m \ T, from, to) = (m \ C) \union {<<from, e>>}
    BY DEF Merge, e
  <1>7. ASSUME NEW p \in m \ C PROVE p[2] < from \/ e < p[1]
    BY <1>1, <1>3, <1>7, RangeFacts
  <1>8. ASSUME NEW p \in C PROVE from <= p[1] /\ p[2] <= e
    <2>1. CASE p \in T
      <3>1. p[2] <= to /\ p \in m
        BY <1>1, <2>1 DEF T
      <3> QED
        BY <1>1, <1>3, <2>1, <3>1, RangeFacts
    <2>2. CASE p \notin T
      BY <1>1, <1>3, <1>8, <2>2, RangeFacts
    <2> QED
      BY <2>1, <2>2
  <1>9. ASSUME NEW x \in Span(from, e) PROVE x \in Elements(m) \/ x \in Span(a, b)
    <2>1. x \in Int /\ from <= x /\ x < e
      BY <1>1, <1>3 DEF Span
    <2>2. CASE x < to
      BY <2>1, <2>2 DEF T, from
    <2>3. CASE to <= x
      BY <1>4, <2>1, <2>3
    <2> QED
      BY <2>1, <2>2, <2>3
  <1> HIDE DEF C
  <1>10. from < e /\ from <= a /\ b <= e
    BY <1>1, <1>3 DEF T, from
  <1>11. Joins(m, C, from, e, a, b)
    BY <1>7, <1>8, <1>9, <1>10 DEF Joins
  <1>12. from \in 0..top /\ e \in 0..top /\ from < e
    BY <1>1, <1>3, <1>10
  <1>13. Adds(top, (m \ C) \union {<<from, e>>}, m, a, b)
    BY <1>5, <1>11, <1>12, JoinFact, Zenon
  <1> QED
    BY <1>6, <1>13 DEF T, from

LEMMA InsertFact ==
  ASSUME NEW top \in Nat, NEW m \in Maps(top), NEW lo \in 0..top, NEW hi \in 0..top, lo <= hi
  PROVE  Adds(top, Insert(m, lo, hi), m, lo, hi)
  <1> DEFINE T == Touching(m, lo)
             from == From(T, lo)
  <1>1. CASE lo = hi
    <2>1. Span(lo, hi) = {} /\ Insert(m, lo, hi) = m
      BY <1>1 DEF Span, Insert
    <2> QED
      BY <2>1 DEF Adds
  <1>2. CASE lo < hi /\ ContainsRange(m, lo, hi)
    <2>1. Span(lo, hi) \subseteq Elements(m) /\ Insert(m, lo, hi) = m
      BY <1>2, ContainsRangeFact DEF Insert
    <2> QED
      BY <2>1 DEF Adds
  <1>3. CASE lo < hi /\ ~ContainsRange(m, lo, hi)
    <2>1. /\ from \in 0..top /\ from <= lo
          /\ T \in SUBSET m
          /\ \A x \in Int : from <= x /\ x < lo => x \in Elements(m)
      BY TouchingFact
    <2>2. \A p \in T : p[2] <= hi
      <3>1. ASSUME NEW p \in T PROVE p[2] <= hi
        <4>1. p \in Pred(m, lo) /\ p \in m
          BY <2>1 DEF Touching
        <4>2. ~ (p[2] >= hi)
          BY <1>3, <4>1 DEF ContainsRange
        <4> QED
          BY <4>1, <4>2, RangeFacts
      <3> QED
        BY <3>1
    <2>3. from < hi /\ lo \in Int /\ hi \in Int /\ hi <= hi
      BY <1>3, <2>1
    <2>4. ASSUME NEW x \in Int, from <= x, x < hi PROVE x \in Elements(m) \/ x \in Span(lo, hi)
      BY <2>1, <2>4, SpanMember
    <2>5. Insert(m, lo, hi) = Merge(m \ T, from, hi)
      BY <1>3 DEF Insert
    <2>6. Adds(top, Merge(m \ T, from, hi), m, lo, hi)
      BY <2>1, <2>2, <2>3, <2>4, MergeFact
    <2> QED
      BY <2>5, <2>6
  <1> QED
    BY <1>1, <1>2, <1>3

LEMMA UptoFact ==
  ASSUME NEW top \in Nat, NEW m \in Maps(top), NEW lo \in 0..top, NEW hi \in 0..top
  PROVE  LET T == Touching(m, lo)
             upto == Upto(T, hi)
         IN /\ upto \in 0..top /\ hi <= upto
            /\ \A p \in T : p[2] <= upto
            /\ upto = hi \/ \E p \in T : upto = p[2]
  <1> DEFINE T == Touching(m, lo)
             upto == Upto(T, hi)
  <1>1. CASE T = {}
    <2>1. {hi} \union { p[2] : p \in T } = {hi}
      BY <1>1
    <2>2. Max({hi}) = hi
      BY hi <= hi, MaxFact
    <2>3. upto = hi
      BY <2>1, <2>2 DEF Upto
    <2> QED
      BY <1>1, <2>3
  <1>2. ASSUME NEW t \in T
        PROVE  /\ upto \in 0..top /\ hi <= upto
               /\ \A p \in T : p[2] <= upto
               /\ upto = hi \/ \E p \in T : upto = p[2]
    <2>1. t \in m /\ T = {t}
      BY TouchingFact
    <2>2. {hi} \union { p[2] : p \in T } = {hi, t[2]}
      BY <2>1
    <2>3. t[2] \in 0..top /\ t[2] \in Int /\ hi \in Int
      BY <2>1, RangeFacts
    <2>4. CASE t[2] <= hi
      <3>1. Max({hi, t[2]}) = hi
        BY <2>3, <2>4, MaxFact, Zenon
      <3>2. upto = hi
        BY <2>2, <3>1 DEF Upto
      <3> QED
        BY <2>1, <2>4, <3>2
    <2>5. CASE hi <= t[2]
      <3>1. Max({hi, t[2]}) = t[2]
        BY <2>3, <2>5, MaxFact, Zenon
      <3>2. upto = t[2]
        BY <2>2, <3>1 DEF Upto
      <3> QED
        BY <2>1, <2>3, <2>5, <3>2
    <2> QED
      BY <2>3, <2>4, <2>5
  <1> QED
    BY <1>1, <1>2

\* replace yields what was there of lo..hi, and then all of it is.
LEMMA ReplaceFact ==
  ASSUME NEW top \in Nat, NEW m \in Maps(top), NEW lo \in 0..top, NEW hi \in 0..top, lo < hi
  PROVE  /\ Adds(top, Replace(m, lo, hi), m, lo, hi)
         /\ Replaced(m, lo, hi) = Elements(m) \intersect Span(lo, hi)
  <1> DEFINE T == Touching(m, lo)
             from == From(T, lo)
             upto == Upto(T, hi)
             later == { p \in m \ T : from < p[1] /\ p[1] <= upto }
  <1>1. /\ from \in 0..top /\ from <= lo
        /\ T \in SUBSET m
        /\ \A p \in T : p[1] = from /\ lo <= p[2]
        /\ \A p \in m \ T : from < p[1] => lo < p[1]
        /\ \A x \in Int : from <= x /\ x < lo => x \in Elements(m)
    BY TouchingFact
  <1>2. /\ upto \in 0..top /\ hi <= upto
        /\ \A p \in T : p[2] <= upto
        /\ upto = hi \/ \E p \in T : upto = p[2]
    BY UptoFact
  <1>3. \A p \in m : p[1] <= lo /\ lo <= p[2] => p \in T
    BY PredMember, RangeFacts DEF Touching
  <1>4. Replace(m, lo, hi) = Merge(m \ T, from, upto)
    BY DEF Replace
  <1>5. \A x : x \in Replaced(m, lo, hi) <=>
                 \/ \E p \in T : x \in Span(lo, LesserOf(hi, p[2]))
                 \/ \E p \in later : x \in Span(p[1], LesserOf(upto, p[2]))
    BY DEF Replaced
  <1>6. from < upto /\ lo \in Int /\ hi \in Int
    BY <1>1, <1>2
  <1> HIDE DEF T, from, upto
  <1>7. ASSUME NEW x \in Int, from <= x, x < upto PROVE x \in Elements(m) \/ x \in Span(lo, hi)
    <2>1. CASE x < lo
      BY <1>1, <1>7, <2>1
    <2>2. CASE lo <= x /\ x < hi
      BY <1>6, <2>2, SpanMember
    <2>3. CASE hi <= x
      <3>1. PICK p \in T : upto = p[2]
        BY <1>2, <1>7, <2>3
      <3> QED
        BY <1>1, <1>7, <3>1, ElementsMember
    <2> QED
      BY <1>6, <2>1, <2>2, <2>3
  <1>8. Adds(top, Merge(m \ T, from, upto), m, lo, hi)
    BY <1>1, <1>2, <1>6, <1>7, MergeFact DEF T, from
  <1>9. ASSUME NEW x \in Elements(m) \intersect Span(lo, hi) PROVE x \in Replaced(m, lo, hi)
    <2>1. x \in Int /\ lo <= x /\ x < hi
      BY <1>6, SpanMember DEF Span
    <2>2. PICK p \in m : p[1] <= x /\ x < p[2]
      BY ElementsMember
    <2>3. CASE p[1] <= lo
      <3>1. p \in T
        BY <1>3, <2>1, <2>2, <2>3, RangeFacts
      <3>2. x \in Span(lo, LesserOf(hi, p[2]))
        BY <2>1, <2>2, RangeFacts DEF Span, LesserOf
      <3> QED
        BY <1>5, <3>1, <3>2
    <2>4. CASE lo < p[1]
      <3>1. p \notin T
        BY <1>1, <2>4, RangeFacts
      <3>2. p \in later
        BY <1>1, <1>2, <2>1, <2>2, <2>4, <3>1, RangeFacts
      <3>3. x \in Span(p[1], LesserOf(upto, p[2]))
        BY <1>2, <2>1, <2>2, RangeFacts DEF Span, LesserOf
      <3> QED
        BY <1>5, <3>2, <3>3
    <2> QED
      BY <2>3, <2>4, RangeFacts
  <1>10. ASSUME NEW p \in T, NEW x \in Span(lo, LesserOf(hi, p[2]))
         PROVE  x \in Elements(m) \intersect Span(lo, hi)
    <2>1. p \in m /\ p[1] <= lo
      BY <1>1, RangeFacts
    <2>2. x \in Int /\ lo <= x /\ x < hi /\ x < p[2]
      BY <2>1, RangeFacts DEF Span, LesserOf
    <2> QED
      BY <1>6, <2>1, <2>2, ElementsMember, SpanMember, RangeFacts
  <1>11. ASSUME NEW p \in later, NEW x \in Span(p[1], LesserOf(upto, p[2]))
         PROVE  x \in Elements(m) \intersect Span(lo, hi)
    <2>1. p \in m \ T /\ from < p[1] /\ p[1] <= upto /\ lo < p[1]
      BY <1>1
    <2>2. x \in Int /\ p[1] <= x /\ x < upto /\ x < p[2]
      BY <1>2, <2>1, RangeFacts DEF Span, LesserOf
    <2>3. ASSUME NEW t \in T, upto = t[2] PROVE FALSE
      <3>1. t \in m /\ t[1] = from
        BY <1>1
      <3> QED
        BY <2>1, <2>3, <3>1, RangeFacts
    <2>4. upto = hi
      BY <1>2, <2>3
    <2> QED
      BY <1>6, <2>1, <2>2, <2>4, ElementsMember, SpanMember, RangeFacts
  <1>12. Replaced(m, lo, hi) = Elements(m) \intersect Span(lo, hi)
    BY <1>5, <1>9, <1>10, <1>11
  <1> QED
    BY <1>4, <1>8, <1>12

\* n stands for the set of m without lo..hi.
Takes(top, n, m, lo, hi) ==
  n \in Maps(top) /\ Elements(n) = Elements(m) \ Span(lo, hi)

\* replace of an empty range: nothing changes where a range touches it.
LEMMA ReplaceEmptyFact ==
  ASSUME NEW top \in Nat, NEW m \in Maps(top), NEW x \in 0..top
  PROVE  /\ Replace(m, x, x) = m \/ WithEmpty(Replace(m, x, x), m, x)
         /\ Replaced(m, x, x) = {}
  <1> DEFINE T == Touching(m, x)
             from == From(T, x)
             upto == Upto(T, x)
             later == { p \in m \ T : from < p[1] /\ p[1] <= upto }
  <1>1. \A p \in m : p \in T <=> p[1] <= x /\ x <= p[2]
    BY PredMember, RangeFacts DEF Touching, Pred
  <1>2. T \in SUBSET m
    BY DEF Touching, Pred
  <1>3. later = {} /\ \/ T = {} /\ from = x /\ upto = x
                      \/ \E p \in T : T = {p} /\ from = p[1] /\ upto = p[2]
    <2>1. CASE T = {}
      <3>1. {x} \union { p[1] : p \in T } = {x} /\ {x} \union { p[2] : p \in T } = {x}
        BY <2>1
      <3>2a. Min({x}) = x /\ Max({x}) = x
        BY x \in Int, x <= x, MinFact, MaxFact
      <3>2. from = x /\ upto = x
        BY <3>1, <3>2a DEF From, Upto
      <3>3. later = {}
        BY <3>2, RangeFacts
      <3> QED
        BY <2>1, <3>2, <3>3
    <2>2. CASE T # {}
      <3>1. PICK p : p \in T
        BY <2>2
      <3>2. T = {p}
        BY <3>1, PredUnique DEF Touching
      <3>3. p \in m /\ p[1] \in Int /\ p[2] \in Int /\ p[1] <= x /\ x <= p[2]
        BY <1>1, <1>2, <3>1, RangeFacts
      <3>4. {x} \union { q[1] : q \in T } = {x, p[1]} /\ {x} \union { q[2] : q \in T } = {x, p[2]}
        BY <3>2
      <3>3a. x \in Int
        OBVIOUS
      <3>5. Min({x, p[1]}) = p[1]
        BY <3>3, <3>3a, MinFact, Zenon
      <3>5a. Max({x, p[2]}) = p[2]
        BY <3>3, <3>3a, MaxFact, Zenon
      <3>6. from = p[1] /\ upto = p[2]
        BY <3>4, <3>5, <3>5a DEF From, Upto
      <3>7. later = {}
        BY <3>3, <3>6, RangeFacts
      <3> QED
        BY <3>1, <3>2, <3>6, <3>7
    <2> QED
      BY <2>1, <2>2
  <1>4. from \in Int /\ upto \in Int /\ from <= upto
    BY <1>1, <1>2, <1>3, RangeFacts
  <1>5. \A p \in m \ T : ~(from < p[1] /\ p[1] <= upto)
    BY <1>3
  <1>6. Absorbed(m \ T, from, upto) = upto
    <2> DEFINE S == { e \in {upto} \union { p[2] : p \in m \ T } :
                        e >= upto /\ \A p \in m \ T : from < p[1] /\ p[1] <= e => p[2] <= e }
    <2>1. S \in SUBSET Int
      BY <1>4, RangeFacts
    <2>2. upto \in S /\ \A e \in S : upto <= e
      BY <1>4, <1>5, <2>1
    <2>3. Min(S) = upto
      BY <2>1, <2>2, LeastIs
    <2> QED
      BY <2>3 DEF Absorbed
  <1>7. Replace(m, x, x) = (m \ T) \union {<<from, upto>>}
    <2>1. Replace(m, x, x) = Merge(m \ T, from, upto)
      BY DEF Replace
    <2>2. { p \in m \ T : ~(from < p[1] /\ p[1] <= upto) } = m \ T
      BY <1>5
    <2> QED
      BY <1>6, <2>1, <2>2 DEF Merge
  <1>8. Replaced(m, x, x) = {}
    <2>1. \A p \in T : Span(x, LesserOf(x, p[2])) = {}
      BY <1>1, <1>2, RangeFacts DEF Span, LesserOf
    <2>2. Replaced(m, x, x) = (UNION { Span(x, LesserOf(x, p[2])) : p \in T })
                               \union (UNION { Span(p[1], LesserOf(upto, p[2])) : p \in later })
      BY DEF Replaced
    <2> HIDE DEF T, later, from, upto
    <2> QED
      BY <1>3, <2>1, <2>2
  <1>9. CASE T = {}
    <2>1. \A p \in m : p[2] < x \/ x < p[1]
      BY <1>1, <1>9, RangeFacts
    <2> QED
      BY <1>3, <1>7, <1>8, <1>9, <2>1 DEF WithEmpty
  <1>10. CASE T # {}
    <2>1. PICK p \in T : T = {p} /\ from = p[1] /\ upto = p[2]
      BY <1>3, <1>10
    <2>2. p \in m /\ p = <<p[1], p[2]>>
      BY <1>2, RangeFacts
    <2>3. Replace(m, x, x) = m
      BY <1>7, <2>1, <2>2
    <2> QED
      BY <1>8, <2>3
  <1> QED
    BY <1>9, <1>10

\* remove leaves of each range what lies below lo and what lies above hi.
LEMMA CutFact ==
  ASSUME NEW top \in Nat, NEW m \in Maps(top), NEW lo \in 0..top, NEW hi \in 0..top, lo < hi
  PROVE  /\ Cut(m, lo, hi) \in SUBSET m
         /\ \A p \in m : p \in Cut(m, lo, hi) <=> p[1] < hi /\ lo < p[2]
  <1> DEFINE before == { p \in Pred(m, lo) : p[2] > lo }
             later == { p \in m : lo < p[1] /\ p[1] < hi
                                  /\ \A q \in m : lo < q[1] /\ q[1] < p[1] => q[2] <= hi }
  <1>1. \A p \in m : p \in before <=> p[1] <= lo /\ lo < p[2]
    BY PredMember, RangeFacts DEF Pred
  <1>2. \A p \in m : p \in later <=> lo < p[1] /\ p[1] < hi
    <2>1. ASSUME NEW p \in m, p[1] < hi, NEW q \in m, q[1] < p[1] PROVE q[2] <= hi
      BY <2>1, RangeFacts
    <2> QED
      BY <2>1
  <1>3. ASSUME NEW p \in before, p[2] >= hi, NEW q \in m, lo < q[1] PROVE ~(q[1] < hi)
    <2>1. p \in m /\ p[1] <= lo
      BY <1>1 DEF Pred
    <2> QED
      BY <1>3, <2>1, RangeFacts
  <1>4. before \in SUBSET m /\ later \in SUBSET m
    BY DEF Pred
  <1>5. Cut(m, lo, hi) = IF \E p \in before : p[2] >= hi THEN before ELSE before \union later
    BY DEF Cut
  <1> HIDE DEF before, later
  <1>6. ASSUME NEW p \in m PROVE p \in before \/ p \in later <=> p[1] < hi /\ lo < p[2]
    BY <1>1, <1>2, RangeFacts
  <1>7. ASSUME \E p \in before : p[2] >= hi PROVE later \subseteq before
    BY <1>2, <1>3, <1>4, <1>7
  <1> QED
    BY <1>4, <1>5, <1>6, <1>7

LEMMA RemoveFact ==
  ASSUME NEW top \in Nat, NEW m \in Maps(top), NEW lo \in 0..top, NEW hi \in 0..top, lo <= hi
  PROVE  Takes(top, Remove(m, lo, hi), m, lo, hi)
  <1> DEFINE cut == Cut(m, lo, hi)
             n == Remove(m, lo, hi)
             Below(r, p) == r[1] = p[1] /\ r[2] = LesserOf(p[2], lo) /\ p[1] < lo
             Above(r, p) == r[1] = (IF p[1] <= hi THEN hi ELSE p[1]) /\ r[2] = p[2] /\ hi < p[2]
  <1>1. CASE lo = hi
    <2>1. Span(lo, hi) = {} /\ n = m
      BY <1>1 DEF Span, Remove
    <2> QED
      BY <2>1 DEF Takes
  <1>2. CASE lo < hi
    <2>1. cut \in SUBSET m /\ \A p \in m : p \in cut <=> p[1] < hi /\ lo < p[2]
      BY <1>2, CutFact
    <2>2. n = (m \ cut) \union { <<p[1], lo>> : p \in { q \in cut : q[1] < lo } }
                        \union { <<hi, p[2]>> : p \in { q \in cut : q[2] > hi } }
      BY <1>2 DEF Remove
    <2> HIDE DEF cut, n
    <2>3. ASSUME NEW r \in n
          PROVE  r \in (0..top) \X (0..top) /\ \E p \in m : Below(r, p) \/ Above(r, p)
      <3>1. CASE r \in m \ cut
        <4>1. r \in m /\ (hi <= r[1] \/ r[2] <= lo)
          BY <2>1, <3>1, RangeFacts
        <4>2. Below(r, r) \/ Above(r, r)
          BY <1>2, <4>1, RangeFacts DEF LesserOf
        <4> QED
          BY <4>1, <4>2, RangeFacts
      <3>2. ASSUME NEW p \in cut, p[1] < lo, r = <<p[1], lo>> PROVE r \in (0..top) \X (0..top) /\ Below(r, p)
        <4>1. p \in m /\ lo < p[2]
          BY <2>1
        <4> QED
          BY <3>2, <4>1, RangeFacts DEF LesserOf
      <3>3. ASSUME NEW p \in cut, p[2] > hi, r = <<hi, p[2]>> PROVE r \in (0..top) \X (0..top) /\ Above(r, p)
        <4>1. p \in m /\ p[1] < hi
          BY <2>1
        <4> QED
          BY <3>3, <4>1, RangeFacts
      <3> QED
        BY <2>1, <2>2, <3>1, <3>2, <3>3
    <2>4. ASSUME NEW r, NEW p \in m, Below(r, p) \/ Above(r, p)
          PROVE  /\ r[1] \in 0..top /\ r[2] \in 0..top
                 /\ p[1] <= r[1] /\ r[1] < r[2] /\ r[2] <= p[2]
                 /\ r[2] <= lo \/ hi <= r[1]
      BY <1>2, <2>4, RangeFacts DEF LesserOf
    <2>5. ASSUME NEW r \in n, NEW s \in n
          PROVE  (r[1] < s[1] => r[2] < s[1]) /\ (r[1] = s[1] => r = s)
      <3>1. PICK p \in m : Below(r, p) \/ Above(r, p)
        BY <2>3
      <3>2. PICK q \in m : Below(s, q) \/ Above(s, q)
        BY <2>3
      <3>3. r = <<r[1], r[2]>> /\ s = <<s[1], s[2]>>
        BY <2>3
      <3>4. CASE p[1] < q[1]
        BY <2>4, <3>1, <3>2, <3>4, RangeFacts
      <3>5. CASE q[1] < p[1]
        BY <2>4, <3>1, <3>2, <3>5, RangeFacts
      <3>6. CASE p[1] = q[1]
        <4>1. p = q
          BY <3>6, RangeFacts
        <4>2. Below(r, p) /\ Below(s, p) => r[1] = s[1] /\ r[2] = s[2]
          OBVIOUS
        <4>3. Above(r, p) /\ Above(s, p) => r[1] = s[1] /\ r[2] = s[2]
          OBVIOUS
        <4>4. Below(r, p) /\ Above(s, p) => r[2] < s[1]
          BY <1>2, RangeFacts DEF LesserOf
        <4>5. Above(r, p) /\ Below(s, p) => s[1] < r[1]
          BY <1>2, RangeFacts DEF LesserOf
        <4> QED
          BY <2>4, <3>1, <3>2, <3>3, <4>1, <4>2, <4>3, <4>4, <4>5, RangeFacts
      <3> QED
        BY <3>4, <3>5, <3>6, RangeFacts
    <2>6. n \in Maps(top)
      BY <2>3, <2>4, <2>5 DEF Maps
    <2>7. ASSUME NEW x \in Elements(n) PROVE x \in Elements(m) \ Span(lo, hi)
      <3>1. PICK r \in n : x \in Int /\ r[1] <= x /\ x < r[2]
        BY <2>6, ElementsMember
      <3>2. PICK p \in m : Below(r, p) \/ Above(r, p)
        BY <2>3
      <3>3. p[1] <= x /\ x < p[2] /\ (x < lo \/ hi <= x)
        BY <2>4, <3>1, <3>2, RangeFacts
      <3> QED
        BY <3>1, <3>3, ElementsMember, SpanMember
    <2>8. ASSUME NEW x \in Elements(m) \ Span(lo, hi) PROVE x \in Elements(n)
      <3>1. PICK p \in m : x \in Int /\ p[1] <= x /\ x < p[2]
        BY ElementsMember
      <3>2. x < lo \/ hi <= x
        BY <3>1, SpanMember
      <3>3. CASE p \notin cut
        BY <2>2, <2>6, <3>1, <3>3, ElementsMember
      <3>4. CASE p \in cut /\ x < lo
        <4>1. <<p[1], lo>> \in n
          BY <2>2, <3>1, <3>4, RangeFacts
        <4> QED
          BY <2>6, <3>1, <3>4, <4>1, ElementsMember
      <3>5. CASE p \in cut /\ hi <= x
        <4>1. <<hi, p[2]>> \in n
          BY <2>2, <3>1, <3>5, RangeFacts
        <4> QED
          BY <2>6, <3>1, <3>5, <4>1, ElementsMember
      <3> QED
        BY <3>2, <3>3, <3>4, <3>5
    <2>9. Elements(n) = Elements(m) \ Span(lo, hi)
      BY <2>7, <2>8
    <2> QED
      BY <2>6, <2>9 DEF Takes, n
  <1> QED
    BY <1>1, <1>2

\* pop_front and pop_back take a whole range out.
LEMMA PopFact ==
  ASSUME NEW top \in Nat, NEW m \in Maps(top), NEW p \in m
  PROVE  Takes(top, m \ {p}, m, p[1], p[2])
  <1>1. m \ {p} \in Maps(top)
    BY PartOfMap
  <1>2. ASSUME NEW x \in Elements(m \ {p}) PROVE x \in Elements(m) /\ x \notin Span(p[1], p[2])
    <2>1. PICK q \in m \ {p} : x \in Int /\ q[1] <= x /\ x < q[2]
      BY <1>1, ElementsMember
    <2>2. q[1] # p[1] /\ (q[1] < p[1] => q[2] < p[1]) /\ (p[1] < q[1] => p[2] < q[1])
      BY RangeFacts
    <2>3. ~ (p[1] <= x /\ x < p[2])
      BY <2>1, <2>2, RangeFacts
    <2> QED
      BY <2>1, <2>3, ElementsMember, SpanMember, RangeFacts
  <1>3. ASSUME NEW x \in Elements(m) \ Span(p[1], p[2]) PROVE x \in Elements(m \ {p})
    <2>1. PICK q \in m : x \in Int /\ q[1] <= x /\ x < q[2]
      BY ElementsMember
    <2>2. q # p
      BY <2>1, SpanMember, RangeFacts
    <2> QED
      BY <1>1, <2>1, <2>2, ElementsMember
  <1>4. Elements(m \ {p}) = Elements(m) \ Span(p[1], p[2])
    BY <1>2, <1>3
  <1> QED
    BY <1>1, <1>4 DEF Takes

\* last() gives the maximal run that ends at the largest offset.
LEMMA LastRangeFact ==
  ASSUME NEW top \in Nat, NEW m \in Maps(top), NEW p \in LastRange(m)
  PROVE  /\ p \in m
         /\ Span(p[1], p[2]) \subseteq Elements(m)
         /\ p[1] - 1 \notin Elements(m)
         /\ \A x \in Elements(m) : x < p[2]
  <1>1. p \in m /\ \A q \in m : q[1] <= p[1]
    BY DEF LastRange
  <1>2. Span(p[1], p[2]) \subseteq Elements(m)
    BY <1>1, ElementsMember, RangeFacts DEF Span
  <1>3. ASSUME NEW q \in m, q[1] <= p[1] - 1, p[1] - 1 < q[2] PROVE FALSE
    BY <1>1, <1>3, RangeFacts
  <1>4. ASSUME NEW x \in Elements(m) PROVE x < p[2]
    <2>1. PICK q \in m : x \in Int /\ q[1] <= x /\ x < q[2]
      BY ElementsMember
    <2>2. q[2] <= p[2]
      <3>1. CASE q[1] < p[1]
        BY <1>1, <3>1, RangeFacts
      <3>2. CASE q[1] = p[1]
        BY <1>1, <3>2, RangeFacts
      <3> QED
        BY <1>1, <3>1, <3>2, RangeFacts
    <2> QED
      BY <1>1, <2>1, <2>2, RangeFacts
  <1> QED
    BY <1>1, <1>2, <1>3, <1>4, ElementsMember
-----------------------------------------------------------------------------
(***************************************************************************)
(* Any sequence of calls.                                                  *)
(***************************************************************************)
LEMMA TopIsNat == Top \in Nat
  BY RangeSetConstants DEF RangeSetConstants

LEMMA InitInv == Init => Inv
  BY TopIsNat DEF Init, Inv, Maps

\* A step begins without an empty range.
LEMMA NextBegins == Inv /\ Next => map \in Maps(Top)
  <1> SUFFICES ASSUME NoEmptyRange, NEW m \in Maps(Top), NEW x \in 0..Top, WithEmpty(map, m, x)
               PROVE  FALSE
    BY DEF Inv, Next
  <1>1. <<x, x>> \in map /\ <<x, x>>[1] = <<x, x>>[2]
    BY DEF WithEmpty
  <1> QED
    BY <1>1 DEF NoEmptyRange

LEMMA NextInv == Inv /\ [Next]_mvars => Inv'
  <1> SUFFICES ASSUME Inv, [Next]_mvars PROVE Inv'
    OBVIOUS
  <1> USE TopIsNat
  <1>0. CASE UNCHANGED mvars
    BY <1>0 DEF mvars, Inv
  <1>1. CASE Next
    <2>0. map \in Maps(Top)
      BY <1>1, NextBegins
    <2>1. ASSUME NEW lo \in 0..Top, NEW hi \in 0..Top, lo <= hi, CallInsert(lo, hi)
          PROVE  map' \in Maps(Top)
      BY <2>0, <2>1, InsertFact DEF CallInsert, Adds
    <2>2. ASSUME NEW lo \in 0..Top, NEW hi \in 0..Top, lo <= hi, CallRemove(lo, hi)
          PROVE  map' \in Maps(Top)
      BY <2>0, <2>2, RemoveFact DEF CallRemove, Takes
    <2>3. ASSUME NEW lo \in 0..Top, NEW hi \in 0..Top, lo < hi, CallReplace(lo, hi)
          PROVE  map' \in Maps(Top)
      BY <2>0, <2>3, ReplaceFact DEF CallReplace, Adds
    <2>4. ASSUME NEW x \in 0..Top, CallReplace(x, x) PROVE Inv'
      <3>1. CASE Replace(map, x, x) = map
        BY <2>0, <2>4, <3>1 DEF CallReplace, Inv
      <3>2. CASE WithEmpty(Replace(map, x, x), map, x)
        <4>1. WithEmpty(map', map, x)
          BY <2>4, <3>2 DEF CallReplace
        <4>2. answer'.call = "replace" /\ answer'.lo = x /\ answer'.hi = x
          BY <2>4 DEF CallReplace, Out
        <4> QED
          BY <2>0, <4>1, <4>2 DEF Inv, WithEmpty
      <3> QED
        BY <2>0, <3>1, <3>2, ReplaceEmptyFact
    <2>5. ASSUME NEW x \in 0..(Top - 1), CallInsertOne(x) PROVE map' \in Maps(Top)
      BY <2>0, <2>5, InsertOneFact DEF CallInsertOne, Adds
    <2>6. ASSUME PopFront \/ PopBack PROVE map' \in Maps(Top)
      BY <2>0, <2>6, PartOfMap DEF PopFront, PopBack, Pop
    <2>7. \A lo, hi \in 0..Top : lo <= hi => lo < hi \/ lo = hi
      OBVIOUS
    <2>8. map' \in Maps(Top) => Inv'
      BY DEF Inv
    <2> QED
      BY <1>1, <2>1, <2>2, <2>3, <2>4, <2>5, <2>6, <2>7, <2>8 DEF Next, Calls
  <1> QED
    BY <1>0, <1>1

LEMMA Invariant == Spec => []Inv
  BY InitInv, NextInv, PTL DEF Spec

\* After any sequence of calls the map has the one form that stands for its
\* set: no empty range, and a gap between any two (range_set.rs: what len, the
\* equality of two sets and pop_front rely on).  A replace of an empty range
\* that touches none is the one call that breaks it, and ends the sequence.
THEOREM NormalHolds == Spec => []Normal
  <1>1. Inv => Normal
    <2>1. CASE map \in Maps(Top)
      BY <2>1 DEF Maps, Normal
    <2>2. ASSUME NEW m \in Maps(Top), NEW x \in 0..Top, WithEmpty(map, m, x),
                 answer.call = "replace" /\ answer.lo = x /\ answer.hi = x
          PROVE  Normal
      <3>1. map = m \union {<<x, x>>} /\ \A p \in m : p[2] < x \/ x < p[1]
        BY <2>2 DEF WithEmpty
      <3>2. \A p \in map : p[1] < p[2] \/ p = <<answer.lo, answer.hi>>
        BY <2>2, <3>1, TopIsNat, RangeFacts
      <3>3. ASSUME NEW p \in map, NEW q \in map
            PROVE  (p[1] < q[1] => p[2] < q[1]) /\ (p[1] = q[1] => p = q)
        BY <3>1, TopIsNat, RangeFacts
      <3> QED
        BY <2>2, <3>2, <3>3 DEF Normal
    <2> QED
      BY <2>1, <2>2 DEF Inv
  <1> QED
    BY <1>1, Invariant, PTL

\* An empty range hides none of the others.
LEMMA PredWithEmpty ==
  ASSUME NEW m \in Maps(Top), NEW x \in 0..Top, NEW n, WithEmpty(n, m, x), NEW y \in Int, NEW p
  PROVE  p \in Pred(n, y) /\ p[2] > y <=> p \in Pred(m, y) /\ p[2] > y
  <1> USE TopIsNat
  <1>1. n = m \union {<<x, x>>} /\ \A q \in m : q[2] < x \/ x < q[1]
    BY DEF WithEmpty
  <1>2. ASSUME p \in Pred(n, y), p[2] > y PROVE p \in Pred(m, y)
    <2>1. p # <<x, x>>
      BY <1>2 DEF Pred
    <2> QED
      BY <1>1, <1>2, <2>1 DEF Pred
  <1>3. ASSUME p \in Pred(m, y), p[2] > y PROVE p \in Pred(n, y)
    <2>1. p \in m /\ p[1] <= y /\ \A q \in m : q[1] <= y => q[1] <= p[1]
      BY <1>3 DEF Pred
    <2>2. x <= y => x <= p[1]
      BY <1>1, <1>3, <2>1, RangeFacts
    <2> QED
      BY <1>1, <2>1, <2>2 DEF Pred
  <1> QED
    BY <1>2, <1>3

\* contains, contains_range and first look at one range of the map and yet
\* answer for the whole set; first only while no range is empty.
THEOREM QueriesAnswer == Spec => []Queries
  <1>1. ASSUME NEW m \in Maps(Top)
        PROVE  /\ \A x \in 0..Top : Contains(m, x) <=> x \in Elements(m)
               /\ \A lo, hi \in 0..Top :
                    lo < hi => (ContainsRange(m, lo, hi) <=> Span(lo, hi) \subseteq Elements(m))
               /\ FirstRange(m) = FirstRun(Elements(m))
    <2>1. \A x \in 0..Top : Contains(m, x) <=> x \in Elements(m)
      BY TopIsNat, ContainsFact
    <2>2. \A lo, hi \in 0..Top :
            lo < hi => (ContainsRange(m, lo, hi) <=> Span(lo, hi) \subseteq Elements(m))
      BY TopIsNat, ContainsRangeFact
    <2>3. FirstRange(m) = FirstRun(Elements(m))
      BY TopIsNat, FirstRangeFact
    <2> QED
      BY <2>1, <2>2, <2>3
  <1>2. ASSUME map \in Maps(Top) PROVE Queries
    <2>1. /\ \A x \in 0..Top : Contains(map, x) <=> x \in Elements(map)
          /\ \A lo, hi \in 0..Top :
               lo < hi => (ContainsRange(map, lo, hi) <=> Span(lo, hi) \subseteq Elements(map))
          /\ FirstRange(map) = FirstRun(Elements(map))
      BY <1>1, <1>2, Zenon
    <2> QED
      BY <2>1, Zenon DEF Queries
  <1>3. ASSUME NEW m \in Maps(Top), NEW x \in 0..Top, WithEmpty(map, m, x) PROVE Queries
    <2>1. Elements(map) = Elements(m)
      <3>1. map = m \union {<<x, x>>} /\ Span(x, x) = {}
        BY <1>3 DEF WithEmpty, Span
      <3> QED
        BY <3>1 DEF Elements
    <2>2. \A y \in 0..Top : Contains(map, y) <=> Contains(m, y)
      BY <1>3, PredWithEmpty DEF Contains
    <2>3. ASSUME NEW lo \in 0..Top, NEW hi \in 0..Top, lo < hi
          PROVE  ContainsRange(map, lo, hi) <=> ContainsRange(m, lo, hi)
      <3>1. \A p \in map : p[2] \in Int
        BY <1>3, TopIsNat, RangeFacts DEF WithEmpty
      <3>2. \A p \in map : p[2] >= hi => p[2] > lo
        BY <2>3, <3>1
      <3>3. m \subseteq map
        BY <1>3 DEF WithEmpty
      <3>4. ASSUME NEW p \in Pred(map, lo), p[2] >= hi PROVE p \in Pred(m, lo)
        BY <1>3, <3>2, <3>4, PredWithEmpty DEF Pred
      <3>5. ASSUME NEW p \in Pred(m, lo), p[2] >= hi PROVE p \in Pred(map, lo)
        <4>1. p \in map
          BY <3>3 DEF Pred
        <4> QED
          BY <1>3, <3>2, <3>5, <4>1, PredWithEmpty
      <3> QED
        BY <3>4, <3>5 DEF ContainsRange
    <2>4. ~NoEmptyRange
      <3>1. <<x, x>> \in map /\ <<x, x>>[1] = <<x, x>>[2]
        BY <1>3 DEF WithEmpty
      <3> QED
        BY <3>1 DEF NoEmptyRange
    <2> QED
      BY <1>1, <2>1, <2>2, <2>3, <2>4 DEF Queries
  <1>4. Inv => Queries
    <2>1. ASSUME NEW m \in Maps(Top), NEW x \in 0..Top, WithEmpty(map, m, x) PROVE Queries
      BY <1>3, <2>1
    <2> QED
      BY <1>2, <2>1, Zenon DEF Inv
  <1> QED
    BY <1>4, Invariant, PTL
-----------------------------------------------------------------------------
(***************************************************************************)
(* The refinement of OffsetSet, call by call.                              *)
(***************************************************************************)
LEMMA SameDefs ==
  /\ \A lo, hi : O!Span(lo, hi) = Span(lo, hi)
  /\ \A S : O!FirstRun(S) = FirstRun(S)
  /\ \A call, lo, hi, c : O!Flag(call, lo, hi, c) = Flag(call, lo, hi, c)
  /\ \A call, lo, hi, c : O!Out(call, lo, hi, c) = Out(call, lo, hi, c)
  <1>1. \A lo, hi : O!Span(lo, hi) = Span(lo, hi)
    BY DEF O!Span, Span
  <1>2. \A S : O!FirstRun(S) = FirstRun(S)
    BY DEF O!FirstRun, FirstRun, O!Span, Span
  <1>3. \A call, lo, hi, c : O!Flag(call, lo, hi, c) = Flag(call, lo, hi, c)
    BY DEF O!Flag, Flag
  <1>4. \A call, lo, hi, c : O!Out(call, lo, hi, c) = Out(call, lo, hi, c)
    BY DEF O!Out, Out
  <1> QED
    BY <1>1, <1>2, <1>3, <1>4

\* An insertion returns true exactly when it adds an offset.
LEMMA InsertFlag ==
  ASSUME NEW m \in Maps(Top), NEW lo \in 0..Top, NEW hi \in 0..Top, lo <= hi
  PROVE  (lo < hi /\ ~ContainsRange(m, lo, hi)) = (Elements(m) \union Span(lo, hi) # Elements(m))
  <1>1. CASE lo = hi
    <2>1. Span(lo, hi) = {}
      BY <1>1 DEF Span
    <2> QED
      BY <1>1, <2>1
  <1>2. CASE lo < hi
    <2>1. ContainsRange(m, lo, hi) <=> Span(lo, hi) \subseteq Elements(m)
      BY <1>2, TopIsNat, ContainsRangeFact
    <2>2. Span(lo, hi) \subseteq Elements(m) <=> Elements(m) \union Span(lo, hi) = Elements(m)
      OBVIOUS
    <2> QED
      BY <1>2, <2>1, <2>2
  <1> QED
    BY <1>1, <1>2

LEMMA InsertOneFlag ==
  ASSUME NEW m \in Maps(Top), NEW x \in 0..(Top - 1)
  PROVE  (~Contains(m, x)) = (Elements(m) \union Span(x, x + 1) # Elements(m))
  <1>1. Span(x, x + 1) = {x}
    BY DEF Span
  <1>2. Contains(m, x) <=> x \in Elements(m)
    BY TopIsNat, ContainsFact
  <1> QED
    BY <1>1, <1>2

\* A removal returns true exactly when it removes one.
LEMMA RemoveFlag ==
  ASSUME NEW m \in Maps(Top), NEW lo \in 0..Top, NEW hi \in 0..Top, lo <= hi
  PROVE  (lo < hi /\ Cut(m, lo, hi) # {}) = (Elements(m) \ Span(lo, hi) # Elements(m))
  <1>1. CASE lo = hi
    <2>1. Span(lo, hi) = {}
      BY <1>1 DEF Span
    <2> QED
      BY <1>1, <2>1
  <1>2. CASE lo < hi
    <2>1. /\ Cut(m, lo, hi) \in SUBSET m
          /\ \A p \in m : p \in Cut(m, lo, hi) <=> p[1] < hi /\ lo < p[2]
      BY <1>2, TopIsNat, CutFact
    <2>2. ASSUME NEW p \in Cut(m, lo, hi) PROVE \E x \in Span(lo, hi) : x \in Elements(m)
      <3>1. p \in m /\ p[1] < hi /\ lo < p[2]
        BY <2>1
      <3>2. CASE p[1] <= lo
        <4>1. lo \in Elements(m)
          BY <3>1, <3>2, TopIsNat, ElementsMember
        <4>2. lo \in Span(lo, hi)
          BY <1>2, SpanMember
        <4> QED
          BY <4>1, <4>2
      <3>3. CASE lo <= p[1]
        <4>1. p[1] \in Elements(m)
          BY <3>1, TopIsNat, ElementsMember, RangeFacts
        <4>2. p[1] \in Span(lo, hi)
          BY <3>1, <3>3, TopIsNat, SpanMember, RangeFacts
        <4> QED
          BY <4>1, <4>2
      <3> QED
        BY <3>1, <3>2, <3>3, TopIsNat, RangeFacts
    <2>3. ASSUME NEW x \in Span(lo, hi), x \in Elements(m) PROVE Cut(m, lo, hi) # {}
      <3>1. PICK p \in m : p[1] <= x /\ x < p[2]
        BY <2>3, TopIsNat, ElementsMember
      <3>2. lo <= x /\ x < hi /\ x \in Int
        BY DEF Span
      <3>3. p \in Cut(m, lo, hi)
        BY <2>1, <3>1, <3>2, TopIsNat, RangeFacts
      <3> QED
        BY <3>3
    <2>4. Elements(m) \ Span(lo, hi) # Elements(m) <=> \E x \in Span(lo, hi) : x \in Elements(m)
      OBVIOUS
    <2>5. Cut(m, lo, hi) # {} <=> \E x \in Span(lo, hi) : x \in Elements(m)
      <3>1. ASSUME Cut(m, lo, hi) # {} PROVE \E x \in Span(lo, hi) : x \in Elements(m)
        <4>1. PICK p : p \in Cut(m, lo, hi)
          BY <3>1
        <4> QED
          BY <2>2, <4>1
      <3> QED
        BY <2>3, <3>1
    <2> QED
      BY <1>2, <2>4, <2>5, Zenon
  <1> QED
    BY <1>1, <1>2

\* Every call is the call of the same name on the set.
LEMMA NextRefines == Inv /\ [Next]_mvars => [O!Next]_(O!ovars)
  <1> SUFFICES ASSUME Inv, [Next]_mvars PROVE [O!Next]_(O!ovars)
    OBVIOUS
  <1>7. CASE UNCHANGED mvars
    BY <1>7 DEF mvars, O!ovars
  <1> SUFFICES ASSUME Next PROVE O!Next
    BY <1>7
  <1> USE TopIsNat
  <1>0. map \in Maps(Top)
    BY NextBegins
  <1> DEFINE E == Elements(map)
             E2 == Elements(map')
  <1>1. ASSUME NEW lo \in 0..Top, NEW hi \in 0..Top, lo <= hi, CallInsert(lo, hi)
        PROVE  O!Insert(lo, hi)
    <2>1. E2 = E \union Span(lo, hi)
      BY <1>0, <1>1, InsertFact DEF CallInsert, Adds
    <2>2. answer' = Flag("insert", lo, hi, E2 # E)
      BY <1>0, <1>1, <2>1, InsertFlag DEF CallInsert
    <2> QED
      BY <2>1, <2>2, SameDefs DEF O!Insert
  <1>2. ASSUME NEW lo \in 0..Top, NEW hi \in 0..Top, lo <= hi, CallRemove(lo, hi)
        PROVE  O!Remove(lo, hi)
    <2>1. E2 = E \ Span(lo, hi)
      BY <1>0, <1>2, RemoveFact DEF CallRemove, Takes
    <2>2. answer' = Flag("remove", lo, hi, E2 # E)
      BY <1>0, <1>2, <2>1, RemoveFlag DEF CallRemove
    <2> QED
      BY <2>1, <2>2, SameDefs DEF O!Remove
  <1>3. ASSUME NEW lo \in 0..Top, NEW hi \in 0..Top, lo < hi, CallReplace(lo, hi)
        PROVE  O!Replace(lo, hi)
    <2>1. E2 = E \union Span(lo, hi)
      BY <1>0, <1>3, ReplaceFact DEF CallReplace, Adds
    <2>2. answer' = Out("replace", lo, hi, E \intersect Span(lo, hi))
      <3>1. Replaced(map, lo, hi) = E \intersect Span(lo, hi)
        BY <1>0, <1>3, ReplaceFact
      <3> QED
        BY <1>3, <3>1, Zenon DEF CallReplace
    <2> QED
      BY <2>1, <2>2, SameDefs DEF O!Replace
  <1>4. ASSUME NEW x \in 0..(Top - 1), CallInsertOne(x) PROVE O!Insert(x, x + 1)
    <2>1. E2 = E \union Span(x, x + 1)
      BY <1>0, <1>4, InsertOneFact DEF CallInsertOne, Adds
    <2>2. answer' = Flag("insert", x, x + 1, E2 # E)
      BY <1>0, <1>4, <2>1, InsertOneFlag DEF CallInsertOne
    <2> QED
      BY <2>1, <2>2, SameDefs DEF O!Insert
  <1>5. ASSUME PopFront PROVE O!PopFront
    <2>1. PICK p \in FirstRange(map) : Pop("pop_front", p)
      BY <1>5 DEF PopFront
    <2>2. p \in map /\ p \in O!FirstRun(E)
      BY <1>0, FirstRangeFact, SameDefs DEF FirstRange
    <2>3. E2 = E \ Span(p[1], p[2])
      BY <1>0, <2>1, <2>2, PopFact DEF Pop, Takes
    <2>4. O!Pop("pop_front", p)
      BY <2>1, <2>3, SameDefs DEF Pop, O!Pop
    <2> QED
      BY <2>2, <2>4 DEF O!PopFront
  <1>6. ASSUME PopBack PROVE O!PopBack
    <2>1. PICK p \in LastRange(map) : Pop("pop_back", p)
      BY <1>6 DEF PopBack
    <2>2. /\ p \in map /\ Span(p[1], p[2]) \subseteq E
          /\ p[1] - 1 \notin E /\ \A x \in E : x < p[2]
      BY <1>0, LastRangeFact
    <2>3. E2 = E \ Span(p[1], p[2])
      BY <1>0, <2>1, <2>2, PopFact DEF Pop, Takes
    <2>4. O!Pop("pop_back", p)
      BY <2>1, <2>3, SameDefs DEF Pop, O!Pop
    <2>5. p \in O!Ranges /\ p[1] < p[2]
      BY <1>0, <2>2, RangeFacts DEF O!Ranges
    <2> QED
      BY <2>2, <2>4, <2>5, SameDefs DEF O!PopBack
  <1>12. ASSUME NEW x \in 0..Top, CallReplace(x, x) PROVE O!Replace(x, x)
    <2>1. Span(x, x) = {}
      BY DEF Span
    <2>2. E2 = E
      <3>1. map' = map \/ map' = map \union {<<x, x>>}
        BY <1>0, <1>12, ReplaceEmptyFact DEF CallReplace, WithEmpty
      <3> QED
        BY <2>1, <3>1 DEF Elements
    <2>3. answer' = Out("replace", x, x, {})
      BY <1>0, <1>12, ReplaceEmptyFact DEF CallReplace
    <2>4. E2 = E \union Span(x, x) /\ E \intersect Span(x, x) = {}
      BY <2>1, <2>2
    <2> QED
      BY <2>3, <2>4, SameDefs DEF O!Replace
  <1>8. ASSUME NEW lo \in 0..Top, NEW hi \in 0..Top, lo <= hi,
               O!Insert(lo, hi) \/ O!Remove(lo, hi) \/ O!Replace(lo, hi)
        PROVE  O!Next
    <2>1. <<lo, hi>> \in O!Ranges
      BY <1>8 DEF O!Ranges
    <2>2. <<lo, hi>>[1] = lo /\ <<lo, hi>>[2] = hi
      OBVIOUS
    <2> QED
      BY <1>8, <2>1, <2>2 DEF O!Next
  <1>9. \A x \in 0..(Top - 1) : x \in 0..Top /\ x + 1 \in 0..Top /\ x <= x + 1
    OBVIOUS
  <1>10. \A lo, hi \in 0..Top : lo <= hi => lo < hi \/ lo = hi
    OBVIOUS
  <1>11. O!PopFront \/ O!PopBack => O!Next
    BY DEF O!Next
  <1> QED
    BY <1>1, <1>2, <1>3, <1>4, <1>5, <1>6, <1>8, <1>9, <1>10, <1>11, <1>12 DEF Next, Calls

\* Every call does to the map what it promises for the set of offsets, and
\* returns true exactly when it changed the set: insert, insert_one, remove,
\* replace with its iterator, pop_front and pop_back of range_set.rs.
THEOREM IsASetOfOffsets == Spec => IsASet
  <1>1. Init => O!Init
    <2>1. Elements({}) = {}
      BY DEF Elements
    <2> QED
      BY <2>1, SameDefs DEF Init, O!Init
  <1> QED
    BY <1>1, Invariant, NextRefines, PTL DEF Spec, IsASet, O!Spec
=============================================================================
