------------------------------ MODULE AckFrame ------------------------------
(***************************************************************************)
(* rrdt-lib/src/frame/ack.rs: the set of received packet numbers as an ack *)
(* frame.  The frame counts downwards from the largest number: the length  *)
(* of the last range, then for each older range its gap and its length,    *)
(* all of them u16.                                                        *)
(***************************************************************************)
EXTENDS RangeSet, Sequences

CONSTANTS
  U16,          \* 2^16: gaps and lengths are taken modulo it
  RangesLimit   \* DEFAULT_ACK_RANGES_LIMIT

ASSUME AckFrameConstants == U16 \in Nat \ {0, 1} /\ RangesLimit \in Nat \ {0}

\* The ranges of a map, the newest first.
Newer(m, p) == { q \in m : q[1] > p[1] }
Descending(m) ==
  [ i \in 1..Cardinality(m) |-> CHOOSE p \in m : Cardinality(Newer(m, p)) = i - 1 ]

\* Mutant: each gap is measured from the end of the newer range.
MutantToFrame(m) ==
  LET runs == Descending(m)
      old  == LesserOf(RangesLimit, Len(runs) - 1)
  IN [ largest |-> runs[1][2] - 1,
       first   |-> (runs[1][2] - runs[1][1]) % U16,
       ranges  |-> [ i \in 1..old |->
                       [ gap    |-> (runs[i][2] - runs[i + 1][2]) % U16,
                         length |-> (runs[i + 1][2] - runs[i + 1][1]) % U16 ] ] ]

\* Into<AckFrame> for AckSpans, of a set that is not empty.
ToFrame(m) ==
  LET runs == Descending(m)
      old  == LesserOf(RangesLimit, Len(runs) - 1)
  IN [ largest |-> runs[1][2] - 1,
       first   |-> (runs[1][2] - runs[1][1]) % U16,
       ranges  |-> [ i \in 1..old |->
                       [ gap    |-> (runs[i][1] - runs[i + 1][2]) % U16,
                         length |-> (runs[i + 1][2] - runs[i + 1][1]) % U16 ] ] ]

\* From<AckFrame> for AckSpans unwraps the first range of the set so far for
\* every older range: it panics when there is none.
Panics(frame) == frame.first = 0 /\ frame.ranges # <<>>

\* Where the lowest range begins after the i-th older range was inserted:
\* inserting an empty range changes nothing.
LowAfter(frame) ==
  LET low[i \in 0..Len(frame.ranges)] ==
        CASE i = 0                       -> frame.largest + 1 - frame.first
          [] i > 0 /\ frame.ranges[i].length = 0 -> low[i - 1]
          [] OTHER -> low[i - 1] - frame.ranges[i].gap - frame.ranges[i].length
  IN low

\* The set it builds otherwise: each range goes below the lowest so far, and
\* RangeSet::insert joins two that touch (a gap of 0).
FromFrame(frame) ==
  LET low    == LowAfter(frame)
      ends   == { low[i] + frame.ranges[i].length :
                    i \in { j \in DOMAIN frame.ranges : frame.ranges[j].length > 0 } }
                  \union {frame.largest + 1}
      starts == { low[i] : i \in DOMAIN low }
  IN IF frame.first = 0 THEN {}
     ELSE { <<lo, Min({ hi \in ends \ starts : hi > lo })>> : lo \in starts \ ends }
=============================================================================
