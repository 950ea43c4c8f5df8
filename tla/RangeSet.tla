------------------------------ MODULE RangeSet ------------------------------
(***************************************************************************)
(* rrdt-lib/src/utils/range_set.rs: a set of u64 kept as a BTreeMap from   *)
(* the start of each range to its end.  It holds the offsets a stream      *)
(* received, acknowledged or lost and the packet numbers a peer received.  *)
(* A map is the set of its pairs <<start, end>>; the operators give the    *)
(* map after a call, RangeSetCalls makes actions of them.                  *)
(***************************************************************************)
EXTENDS ByteRanges, FiniteSetsExt

\* The offsets that a map covers.
Elements(m) == UNION { Span(p[1], p[2]) : p \in m }

\* RangeSet::pred and RangeSet::succ: no pair when there is none.
Pred(m, x) == { p \in m : p[1] <= x /\ \A q \in m : q[1] <= x => q[1] <= p[1] }
Succ(m, x) == { p \in m : p[1] > x /\ \A q \in m : q[1] > x => p[1] <= q[1] }

\* first and last: the pairs with the smallest and the largest start.
FirstRange(m) == { p \in m : \A q \in m : p[1] <= q[1] }
LastRange(m)  == { p \in m : \A q \in m : q[1] <= p[1] }

\* Mutant: the end of a range counts as part of it.
MutantContains(m, x) == \E p \in Pred(m, x) : p[2] >= x

Contains(m, x) == \E p \in Pred(m, x) : p[2] > x
ContainsRange(m, lo, hi) == \E p \in Pred(m, lo) : p[2] >= hi
-----------------------------------------------------------------------------
\* The range before lo that reaches it, which a call takes in, and where the
\* range of the call then begins.
Touching(m, lo) == { p \in Pred(m, lo) : p[2] >= lo }
From(touching, lo) == Min({lo} \union { p[1] : p \in touching })

\* The loop of insert and of Replace::next over the successors of lo: each
\* one that begins at or below the end so far is removed and extends it.  The
\* end is the least one that no removed successor exceeds.
Absorbed(m, lo, hi) ==
  Min({ e \in {hi} \union { p[2] : p \in m } :
          e >= hi /\ \A p \in m : lo < p[1] /\ p[1] <= e => p[2] <= e })

Merge(m, lo, hi) ==
  LET end == Absorbed(m, lo, hi)
  IN { p \in m : ~(lo < p[1] /\ p[1] <= end) } \union {<<lo, end>>}

Insert(m, lo, hi) ==
  LET touching == Touching(m, lo)
  IN IF lo >= hi \/ ContainsRange(m, lo, hi) THEN m
     ELSE Merge(m \ touching, From(touching, lo), hi)

\* Mutant: the range that ends at x is extended without looking at the next.
MutantInsertOne(m, x) ==
  LET before == { p \in Pred(m, x) : p[2] = x }
  IN IF Contains(m, x) THEN m ELSE (m \ before) \union {<<From(before, x), x + 1>>}

\* insert_one joins the range that ends at x and the one that begins at x + 1.
InsertOne(m, x) ==
  LET before == { p \in Pred(m, x) : p[2] = x }
      after  == { p \in Succ(m, x) : p[1] = x + 1 }
  IN IF Contains(m, x) THEN m
     ELSE (m \ (before \union after)) \union
            {<<From(before, x), Max({x + 1} \union { p[2] : p \in after })>>}

\* Mutant: remove returns once it has cut the range around lo.
MutantCut(m, lo, hi) ==
  LET before == { p \in Pred(m, lo) : p[2] > lo }
      later  == { p \in m : lo < p[1] /\ p[1] < hi }
  IN IF before # {} THEN before ELSE later

\* The ranges that remove cuts.  When the one around lo reaches hi it is the
\* only one; else the loop takes those that begin below hi, in order, up to
\* and with the first that ends above hi.
Cut(m, lo, hi) ==
  LET before == { p \in Pred(m, lo) : p[2] > lo }
      later  == { p \in m : lo < p[1] /\ p[1] < hi
                            /\ \A q \in m : lo < q[1] /\ q[1] < p[1] => q[2] <= hi }
  IN IF \E p \in before : p[2] >= hi THEN before ELSE before \union later

Remove(m, lo, hi) ==
  LET cut == Cut(m, lo, hi)
  IN IF lo >= hi THEN m
     ELSE (m \ cut) \union { <<p[1], lo>> : p \in { q \in cut : q[1] < lo } }
                    \union { <<hi, p[2]>> : p \in { q \in cut : q[2] > hi } }

\* replace, with its iterator run to the end or dropped, and the offsets that
\* the iterator yields.  For an empty range that touches none, the iterator's
\* Drop puts the empty range in the map.
Upto(touching, hi) == Max({hi} \union { p[2] : p \in touching })

Replace(m, lo, hi) ==
  LET touching == Touching(m, lo)
  IN Merge(m \ touching, From(touching, lo), Upto(touching, hi))

Replaced(m, lo, hi) ==
  LET touching == Touching(m, lo)
      upto     == Upto(touching, hi)
      later    == { p \in m \ touching : From(touching, lo) < p[1] /\ p[1] <= upto }
  IN (UNION { Span(lo, LesserOf(hi, p[2])) : p \in touching })
       \union (UNION { Span(p[1], LesserOf(upto, p[2])) : p \in later })
=============================================================================
