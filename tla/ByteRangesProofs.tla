-------------------------- MODULE ByteRangesProofs --------------------------
(***************************************************************************)
(* Lemmas about ranges of offsets and sets of them, for the proofs about   *)
(* the windows and the range sets.                                         *)
(***************************************************************************)
EXTENDS ByteRanges, WellFoundedInduction, TLAPS

LEMMA SpanMember ==
  ASSUME NEW a \in Int, NEW b \in Int, NEW x \in Int
  PROVE  x \in Span(a, b) <=> a <= x /\ x < b
  BY DEF Span

\* What popping the first range of a RangeSet gives (RangeSet::pop_front).
LEMMA FirstRunFacts ==
  ASSUME NEW S \in SUBSET Nat, NEW run \in FirstRun(S)
  PROVE  /\ run[1] \in S /\ run[2] \in Nat /\ run[1] < run[2]
         /\ \A x \in Span(run[1], run[2]) : x \in S
         /\ run[2] \notin S
         /\ \A x \in S : run[1] <= x
  BY DEF FirstRun, Span

\* A nonempty set of naturals has a least element.
LEMMA LeastElement ==
  ASSUME NEW S \in SUBSET Nat, S # {}
  PROVE  \E x \in S : \A y \in S : x <= y
  <1> DEFINE Less == { p \in Nat \X Nat : p[1] < p[2] }
  <1>1. OpToRel(<, Nat) = Less
    BY Zenon DEF OpToRel
  <1>2. \A a, b \in Nat : a < b => <<a, b>> \in Less
    OBVIOUS
  <1> HIDE DEF Less
  <1>3. IsWellFoundedOn(Less, Nat)
    BY <1>1, NatLessThanWellFounded, Zenon
  <1>4. PICK x \in S : \A y \in S : ~ (<<y, x>> \in Less)
    BY <1>3, WFMin, Zenon
  <1>5. ASSUME NEW y \in S PROVE x <= y
    <2>1. ~ (y < x)
      BY <1>2, <1>4
    <2> QED
      BY <2>1
  <1> QED
    BY <1>5

\* A bounded set of offsets that holds x holds a whole run from x on, which
\* ends at an offset it does not hold.
LEMMA RunEnds ==
  ASSUME NEW S \in SUBSET Nat, NEW x \in S, NEW top \in Nat, \A y \in S : y < top
  PROVE  \E end \in { y + 1 : y \in S } : Span(x, end) \subseteq S /\ end \notin S
  <1> DEFINE Missing == { y \in Nat : x < y /\ y \notin S }
  <1>1. top \in Missing
    OBVIOUS
  <1>2. PICK end \in Missing : \A y \in Missing : end <= y
    BY <1>1, LeastElement
  <1>3. \A y \in Nat : x <= y /\ y < end => y \in S
    BY <1>2
  <1>4. end - 1 \in S
    BY <1>2, <1>3
  <1>5. Span(x, end) \subseteq S
    BY <1>2, <1>3 DEF Span
  <1>6. end \in { y + 1 : y \in S } /\ end \notin S
    BY <1>2, <1>4
  <1> QED
    BY <1>5, <1>6
=============================================================================
