--------------------------- MODULE AckSenderProofs ---------------------------
(***************************************************************************)
(* An ack frame says what arrived, and AckSender waits neither without a   *)
(* timer nor with the wrong count, for every number of packets to wait for *)
(* and of ranges in a frame.                                               *)
(*                                                                         *)
(* Packet numbers stay below MaxPn; what is said about frames holds while  *)
(* all gaps and lengths fit into a frame's field (MaxPn < U16).            *)
(***************************************************************************)
EXTENDS AckSender, FiniteSetTheorems, TLAPS

\* The lemmas about range sets.
R == INSTANCE RangeSetProofs WITH Top <- MaxPn + 1, map <- spans, answer <- spans

Maps == R!Maps(MaxPn)

LEMMA SameDefs ==
  /\ \A m : R!Elements(m) = Elements(m)
  /\ \A m, x : R!Contains(m, x) = Contains(m, x)
  /\ \A m, x : R!InsertOne(m, x) = InsertOne(m, x)
  <1>1. \A m : R!Elements(m) = Elements(m)
    BY DEF R!Elements, Elements, R!Span, Span
  <1>2. \A m, x : R!Pred(m, x) = Pred(m, x) /\ R!Succ(m, x) = Succ(m, x)
    BY DEF R!Pred, Pred, R!Succ, Succ
  <1>3. \A m, x : R!Contains(m, x) = Contains(m, x)
    BY <1>2 DEF R!Contains, Contains
  <1>4. \A m, x : R!From(m, x) = From(m, x)
    BY DEF R!From, From, R!Min, Min
  <1>5. \A m, x : R!InsertOne(m, x) = InsertOne(m, x)
    BY <1>2, <1>3, <1>4, Zenon DEF R!InsertOne, InsertOne, R!Max, Max
  <1> QED
    BY <1>1, <1>3, <1>5

LEMMA Consts == MaxPn \in Nat /\ MaxPn + 1 \in Nat \ {0} /\ MinPn \in Nat /\ WaitCount \in Nat \ {0}
                /\ RangesLimit \in Nat \ {0} /\ U16 \in Nat \ {0, 1}
  BY AckSenderConstants, AckFrameConstants DEF AckSenderConstants, AckFrameConstants

LEMMA MapFacts ==
  ASSUME NEW m \in Maps, NEW p \in m
  PROVE  /\ p = <<p[1], p[2]>>
         /\ p[1] \in Nat /\ p[2] \in Nat /\ p[1] < p[2] /\ p[2] <= MaxPn
         /\ \A q \in m : p[1] < q[1] => p[2] < q[1]
         /\ \A q \in m : p[1] = q[1] => p = q
  BY Consts DEF Maps, R!Maps

LEMMA HoldsElements ==
  ASSUME NEW m \in Maps, NEW x \in Int
  PROVE  /\ x \in Elements(m) <=> \E p \in m : p[1] <= x /\ x < p[2]
         /\ Contains(m, x) <=> x \in Elements(m)
  <1>1. Contains(m, x) <=> x \in Elements(m)
    BY Consts, SameDefs, R!ContainsFact DEF Maps
  <1>2. x \in Elements(m) <=> \E p \in m : p[1] <= x /\ x < p[2]
    BY Consts, SameDefs, R!ElementsMember DEF Maps
  <1> QED
    BY <1>1, <1>2

LEMMA InsertsOne ==
  ASSUME NEW m \in Maps, NEW x \in Numbers
  PROVE  /\ InsertOne(m, x) \in Maps
         /\ Elements(InsertOne(m, x)) = Elements(m) \union {x}
  <1>1. x \in 0..(MaxPn - 1) /\ x \in Nat
    BY Consts DEF Numbers
  <1>2. R!Adds(MaxPn, R!InsertOne(m, x), m, x, x + 1)
    BY <1>1, Consts, R!InsertOneFact DEF Maps
  <1>3. R!Span(x, x + 1) = {x}
    BY <1>1 DEF R!Span
  <1> QED
    BY <1>2, <1>3, SameDefs DEF R!Adds, Maps
-----------------------------------------------------------------------------
(***************************************************************************)
(* The ranges of a map, the newest first.                                  *)
(***************************************************************************)
Rank(m, p) == Cardinality(Newer(m, p))

LEMMA FiniteMap ==
  ASSUME NEW m \in Maps
  PROVE  IsFiniteSet(m) /\ Cardinality(m) \in Nat
  <1>1. IsFiniteSet(0..MaxPn)
    BY Consts, FS_Interval
  <1>2. IsFiniteSet((0..MaxPn) \X (0..MaxPn))
    BY <1>1, FS_Product
  <1>3. m \in SUBSET ((0..MaxPn) \X (0..MaxPn))
    BY DEF Maps, R!Maps
  <1>4. IsFiniteSet(m)
    BY <1>2, <1>3, FS_Subset
  <1> QED
    BY <1>4, FS_CardinalityType

LEMMA RankFacts ==
  ASSUME NEW m \in Maps, NEW p \in m
  PROVE  /\ Rank(m, p) \in 0..(Cardinality(m) - 1)
         /\ \A q \in m : p[1] < q[1] => Rank(m, q) < Rank(m, p)
  <1>1. ASSUME NEW S \in SUBSET m, NEW T \in SUBSET S, NEW x \in S, x \notin T
        PROVE  Cardinality(T) < Cardinality(S) /\ Cardinality(T) \in Nat
    <2>1. IsFiniteSet(S) /\ IsFiniteSet(T)
      BY FiniteMap, FS_Subset
    <2>2. Cardinality(T) <= Cardinality(S) /\ Cardinality(S) # Cardinality(T)
      BY <1>1, <2>1, FS_Subset
    <2>3. Cardinality(S) \in Nat /\ Cardinality(T) \in Nat
      BY <2>1, FS_CardinalityType
    <2> QED
      BY <2>2, <2>3
  <1>2. Newer(m, p) \in SUBSET m /\ p \notin Newer(m, p)
    BY MapFacts DEF Newer
  <1>3. Rank(m, p) < Cardinality(m) /\ Rank(m, p) \in Nat
    BY <1>1, <1>2 DEF Rank
  <1>4. ASSUME NEW q \in m, p[1] < q[1] PROVE Rank(m, q) < Rank(m, p)
    <2>1. Newer(m, q) \in SUBSET Newer(m, p) /\ q \in Newer(m, p) /\ q \notin Newer(m, q)
      BY <1>4, MapFacts DEF Newer
    <2> QED
      BY <1>1, <1>2, <2>1 DEF Rank
  <1> QED
    BY <1>3, <1>4, FiniteMap

LEMMA RankIsInjective ==
  ASSUME NEW m \in Maps, NEW p \in m, NEW q \in m, Rank(m, p) = Rank(m, q)
  PROVE  p = q
  <1>1. Rank(m, p) \in Int /\ Rank(m, q) \in Int
    BY RankFacts
  <1>2. ~(p[1] < q[1]) /\ ~(q[1] < p[1])
    BY <1>1, RankFacts
  <1>3. p[1] = q[1]
    BY <1>2, MapFacts
  <1> QED
    BY <1>3, MapFacts

LEMMA RankIsOnto ==
  ASSUME NEW m \in Maps, NEW i \in 0..(Cardinality(m) - 1)
  PROVE  \E p \in m : Rank(m, p) = i
  <1> DEFINE n == Cardinality(m)
             rank == [p \in m |-> Rank(m, p)]
  <1>1. n \in Nat /\ IsFiniteSet(m)
    BY FiniteMap
  <1>2. IsFiniteSet(0..(n - 1)) /\ Cardinality(0..(n - 1)) = n
    BY <1>1, FS_Interval
  <1>3. rank \in Injection(m, 0..(n - 1))
    <2>1. rank \in [m -> 0..(n - 1)]
      BY RankFacts
    <2>2. \A p, q \in m : rank[p] = rank[q] => p = q
      BY RankIsInjective
    <2> QED
      BY <2>1, <2>2 DEF Injection, IsInjective
  <1>4. rank \in Surjection(m, 0..(n - 1))
    BY <1>2, <1>3, FS_Injection
  <1> QED
    BY <1>4 DEF Surjection

\* Descending gives every range once, and the ranges before it are newer.
LEMMA DescendingFacts ==
  ASSUME NEW m \in Maps
  PROVE  /\ Descending(m) \in Seq(m) /\ Len(Descending(m)) = Cardinality(m)
         /\ \A i \in 1..Cardinality(m) : Descending(m)[i] \in m /\ Rank(m, Descending(m)[i]) = i - 1
         /\ \A i, j \in 1..Cardinality(m) : i < j => Descending(m)[j][2] < Descending(m)[i][1]
         /\ \A p \in m : Rank(m, p) + 1 \in 1..Cardinality(m) /\ p = Descending(m)[Rank(m, p) + 1]
  <1> DEFINE n == Cardinality(m)
             runs == Descending(m)
  <1>1. n \in Nat
    BY FiniteMap
  <1>2. \A i \in 1..n : runs[i] \in m /\ Rank(m, runs[i]) = i - 1
    <2>1. ASSUME NEW i \in 1..n
          PROVE  (CHOOSE p \in m : Rank(m, p) = i - 1) \in m
                 /\ Rank(m, CHOOSE p \in m : Rank(m, p) = i - 1) = i - 1
      <3>1. i - 1 \in 0..(n - 1)
        BY <1>1
      <3>2. \E p \in m : Rank(m, p) = i - 1
        BY <3>1, RankIsOnto
      <3> QED
        BY <3>2
    <2>2. \A i \in 1..n : runs[i] = CHOOSE p \in m : Rank(m, p) = i - 1
      BY DEF Descending, Rank
    <2> QED
      BY <2>1, <2>2
  <1>3. DOMAIN runs = 1..n /\ runs = [i \in 1..n |-> runs[i]]
    BY DEF Descending
  <1>4. runs \in Seq(m)
    BY <1>1, <1>2, <1>3
  <1>5. Len(runs) = n
    BY <1>1, <1>3, <1>4
  <1>6. ASSUME NEW i \in 1..n, NEW j \in 1..n, i < j PROVE runs[j][2] < runs[i][1]
    <2>1. runs[i] \in m /\ runs[j] \in m /\ Rank(m, runs[i]) < Rank(m, runs[j])
      BY <1>1, <1>2, <1>6
    <2>2. ~(runs[i][1] < runs[j][1])
      <3>1. Rank(m, runs[i]) \in Int /\ Rank(m, runs[j]) \in Int
        BY <2>1, RankFacts
      <3> QED
        BY <2>1, <3>1, RankFacts
    <2>3. runs[i] # runs[j]
      BY <2>1, RankFacts
    <2>4. runs[j][1] < runs[i][1]
      BY <2>1, <2>2, <2>3, MapFacts
    <2> QED
      BY <2>1, <2>4, MapFacts
  <1>7. ASSUME NEW p \in m PROVE Rank(m, p) + 1 \in 1..n /\ p = runs[Rank(m, p) + 1]
    <2>1. Rank(m, p) \in 0..(n - 1)
      BY RankFacts
    <2>2. Rank(m, p) + 1 \in 1..n /\ (Rank(m, p) + 1) - 1 = Rank(m, p)
      BY <1>1, <2>1
    <2>3. runs[Rank(m, p) + 1] \in m /\ Rank(m, runs[Rank(m, p) + 1]) = Rank(m, p)
      BY <1>2, <2>2
    <2> QED
      BY <2>2, <2>3, RankIsInjective
  <1> QED
    BY <1>2, <1>4, <1>5, <1>6, <1>7
-----------------------------------------------------------------------------
(***************************************************************************)
(* The frame of a map.                                                     *)
(***************************************************************************)
\* The older ranges that a frame has room for.
Older(m) == LesserOf(RangesLimit, Cardinality(m) - 1)

LEMMA OlderFacts ==
  ASSUME NEW m \in Maps, m # {}
  PROVE  /\ Older(m) \in Nat /\ Older(m) + 1 <= Cardinality(m) /\ Cardinality(m) \in Nat
         /\ Older(m) <= RangesLimit /\ (Cardinality(m) <= RangesLimit + 1 => Older(m) = Cardinality(m) - 1)
         /\ \A k \in 0..(Cardinality(m) - 1) : k <= Older(m) <=> k <= RangesLimit
  <1>1. Cardinality(m) \in Nat /\ Cardinality(m) # 0
    BY FiniteMap, FS_EmptySet
  <1> QED
    BY <1>1, Consts DEF Older, LesserOf

\* Nothing is lost to the width of the fields.
LEMMA ToFrameFacts ==
  ASSUME MaxPn < U16, NEW m \in Maps, m # {}
  PROVE  LET runs == Descending(m)
             frame == ToFrame(m)
         IN  /\ frame.largest = runs[1][2] - 1
             /\ frame.first = runs[1][2] - runs[1][1]
             /\ Len(frame.ranges) = Older(m) /\ DOMAIN frame.ranges = 1..Older(m)
             /\ \A i \in 1..Older(m) :
                  /\ frame.ranges[i].gap = runs[i][1] - runs[i + 1][2]
                  /\ frame.ranges[i].length = runs[i + 1][2] - runs[i + 1][1]
  <1> DEFINE runs == Descending(m)
             n == Cardinality(m)
             old == Older(m)
             frame == ToFrame(m)
  <1>1. /\ n \in Nat /\ old \in Nat /\ old + 1 <= n /\ Len(runs) = n
        /\ old = LesserOf(RangesLimit, Len(runs) - 1)
    BY OlderFacts, DescendingFacts DEF Older
  <1>2. \A i \in 1..n : /\ runs[i] \in m /\ runs[i][1] \in Nat /\ runs[i][2] \in Nat
                        /\ runs[i][1] < runs[i][2] /\ runs[i][2] <= MaxPn
    BY DescendingFacts, MapFacts
  <1>3. \A i \in 1..old : i \in 1..n /\ i + 1 \in 1..n /\ runs[i + 1][2] < runs[i][1]
    <2>1. \A i \in 1..old : i \in 1..n /\ i + 1 \in 1..n /\ i < i + 1
      BY <1>1
    <2> QED
      BY <2>1, DescendingFacts
  <1>4. \A a, b \in Nat : a <= b /\ b <= MaxPn => (b - a) % U16 = b - a
    BY Consts
  <1>5. frame.first = runs[1][2] - runs[1][1]
    <2>1. frame.first = (runs[1][2] - runs[1][1]) % U16
      BY DEF ToFrame
    <2>2. 1 \in 1..n
      BY <1>1
    <2> QED
      BY <1>2, <1>4, <2>1, <2>2
  <1>6. frame.largest = runs[1][2] - 1
    BY DEF ToFrame
  <1>7. frame.ranges = [ i \in 1..old |->
                          [ gap    |-> (runs[i][1] - runs[i + 1][2]) % U16,
                            length |-> (runs[i + 1][2] - runs[i + 1][1]) % U16 ] ]
    BY <1>1 DEF ToFrame
  <1> HIDE DEF frame, runs, n, old
  <1>8. ASSUME NEW i \in 1..old
        PROVE  /\ frame.ranges[i].gap = runs[i][1] - runs[i + 1][2]
               /\ frame.ranges[i].length = runs[i + 1][2] - runs[i + 1][1]
    <2>1. (runs[i][1] - runs[i + 1][2]) % U16 = runs[i][1] - runs[i + 1][2]
      <3>1. /\ runs[i + 1][2] \in Nat /\ runs[i][1] \in Nat /\ runs[i][2] \in Nat
            /\ runs[i + 1][2] < runs[i][1] /\ runs[i][1] < runs[i][2] /\ runs[i][2] <= MaxPn
        BY <1>2, <1>3
      <3>2. runs[i + 1][2] <= runs[i][1] /\ runs[i][1] <= MaxPn
        BY <3>1, Consts
      <3> QED
        BY <1>4, <3>1, <3>2
    <2>2. (runs[i + 1][2] - runs[i + 1][1]) % U16 = runs[i + 1][2] - runs[i + 1][1]
      <3>1. /\ runs[i + 1][2] \in Nat /\ runs[i + 1][1] \in Nat
            /\ runs[i + 1][1] < runs[i + 1][2] /\ runs[i + 1][2] <= MaxPn
        BY <1>2, <1>3
      <3>2. runs[i + 1][1] <= runs[i + 1][2]
        BY <3>1
      <3> QED
        BY <1>4, <3>1, <3>2
    <2> QED
      BY <1>7, <2>1, <2>2
  <1>9. DOMAIN frame.ranges = 1..old /\ Len(frame.ranges) = old
    BY <1>1, <1>7
  <1> QED
    BY <1>5, <1>6, <1>8, <1>9 DEF frame, runs, old

\* Decoding goes down the ranges as encoding did.  The function is defined by
\* its equation: the starts of the ranges satisfy it, so there is one, and the
\* least index at which it is something else does not exist.
LEMMA LowAfterFacts ==
  ASSUME MaxPn < U16, NEW m \in Maps, m # {}
  PROVE  LET low == LowAfter(ToFrame(m))
         IN  DOMAIN low = 0..Older(m) /\ \A i \in 0..Older(m) : low[i] = Descending(m)[i + 1][1]
  <1> DEFINE runs == Descending(m)
             old == Older(m)
             frame == ToFrame(m)
             Down(f, i) == CASE i = 0 -> frame.largest + 1 - frame.first
                             [] i > 0 /\ frame.ranges[i].length = 0 -> f[i - 1]
                             [] OTHER -> f[i - 1] - frame.ranges[i].gap - frame.ranges[i].length
             starts == [i \in 0..old |-> runs[i + 1][1]]
             low == LowAfter(frame)
  <1>1. old \in Nat /\ \A i \in 0..old : i + 1 \in 1..Cardinality(m)
    BY OlderFacts
  <1>2. \A i \in 0..old : /\ runs[i + 1][1] \in Nat /\ runs[i + 1][2] \in Nat
                          /\ runs[i + 1][1] < runs[i + 1][2]
    BY <1>1, DescendingFacts, MapFacts
  <1>3. /\ frame.largest = runs[1][2] - 1 /\ frame.first = runs[1][2] - runs[1][1]
        /\ Len(frame.ranges) = old
        /\ \A i \in 1..old : /\ frame.ranges[i].gap = runs[i][1] - runs[i + 1][2]
                             /\ frame.ranges[i].length = runs[i + 1][2] - runs[i + 1][1]
    BY ToFrameFacts
  <1>4. low = CHOOSE f : f = [i \in 0..old |-> Down(f, i)]
    BY <1>3 DEF LowAfter
  <1> HIDE DEF frame, runs, old, low
  <1>5. ASSUME NEW f, NEW i \in 0..old, i = 0 \/ f[i - 1] = runs[(i - 1) + 1][1]
        PROVE  Down(f, i) = runs[i + 1][1]
    <2>1. CASE i = 0
      <3>1. frame.largest + 1 - frame.first = runs[1][1]
        BY <1>1, <1>2, <1>3
      <3> QED
        BY <2>1, <3>1
    <2>2. CASE i > 0
      <3>1. i \in 1..old /\ i - 1 \in 0..old /\ (i - 1) + 1 = i
        BY <1>1, <2>2
      <3>2. /\ f[i - 1] = runs[i][1] /\ runs[i][1] \in Nat
            /\ runs[i + 1][1] \in Nat /\ runs[i + 1][2] \in Nat /\ runs[i + 1][1] < runs[i + 1][2]
        BY <1>2, <1>5, <2>2, <3>1
      <3>3. frame.ranges[i].length # 0
        BY <1>3, <3>1, <3>2
      <3>4. f[i - 1] - frame.ranges[i].gap - frame.ranges[i].length = runs[i + 1][1]
        BY <1>3, <3>1, <3>2
      <3>5. i # 0
        BY <3>1
      <3> QED
        BY <3>3, <3>4, <3>5
    <2> QED
      BY <1>1, <2>1, <2>2
  <1>6. starts = [i \in 0..old |-> Down(starts, i)]
    <2>1. ASSUME NEW i \in 0..old PROVE Down(starts, i) = runs[i + 1][1]
      <3>1. i = 0 \/ starts[i - 1] = runs[(i - 1) + 1][1]
        <4>1. i = 0 \/ i - 1 \in 0..old
          BY <1>1
        <4> QED
          BY <4>1
      <3> QED
        BY <1>5, <3>1
    <2> QED
      BY <2>1
  <1>7. low = [i \in 0..old |-> Down(low, i)]
    <2> HIDE DEF Down, starts
    <2>1. \E f : f = [i \in 0..old |-> Down(f, i)]
      BY <1>6
    <2> QED
      BY <1>4, <2>1
  <1>8. DOMAIN low = 0..old /\ \A i \in 0..old : low[i] = Down(low, i)
    <2> HIDE DEF Down
    <2>1. DOMAIN [i \in 0..old |-> Down(low, i)] = 0..old
      OBVIOUS
    <2>2. \A i \in 0..old : [j \in 0..old |-> Down(low, j)][i] = Down(low, i)
      OBVIOUS
    <2> QED
      BY <1>7, <2>1, <2>2, Zenon
  <1>9. \A i \in 0..old : low[i] = runs[i + 1][1]
    <2> DEFINE Others == { i \in 0..old : low[i] # runs[i + 1][1] }
    <2>1. SUFFICES ASSUME Others # {} PROVE FALSE
      OBVIOUS
    <2>2. Others \in SUBSET Nat
      BY <1>1
    <2>3. PICK i \in Others : \A j \in Others : i <= j
      <3> HIDE DEF Others
      <3> QED
        BY <2>1, <2>2, Consts, R!LeastElement
    <2>4. i = 0 \/ low[i - 1] = runs[(i - 1) + 1][1]
      <3>1. i # 0 => i - 1 \in 0..old /\ i - 1 \notin Others
        BY <1>1, <2>3
      <3> QED
        BY <3>1
    <2>5. low[i] = runs[i + 1][1]
      <3> HIDE DEF Down
      <3>1. i \in 0..old
        OBVIOUS
      <3>2. Down(low, i) = runs[i + 1][1]
        BY <1>5, <2>4, <3>1
      <3> QED
        BY <1>8, <3>1, <3>2
    <2> QED
      BY <2>3, <2>5
  <1> QED
    BY <1>8, <1>9 DEF low, runs, old, frame

\* Above a start, the next end that is no start is the one of its own range.
LEMMA NextEnd ==
  ASSUME NEW m \in Maps, NEW S \in SUBSET m, NEW p \in S
  PROVE  LET ends == { q[2] : q \in S }
             starts == { q[1] : q \in S }
         IN  /\ p[1] \in starts \ ends
             /\ Min({ hi \in ends \ starts : hi > p[1] }) = p[2]
  <1> DEFINE ends == { q[2] : q \in S }
             starts == { q[1] : q \in S }
             above == { hi \in ends \ starts : hi > p[1] }
  <1>1. \A q, r \in S : q[1] # r[2]
    <2>1. ASSUME NEW q \in S, NEW r \in S, q[1] = r[2] PROVE FALSE
      <3>1. r[1] < q[1]
        BY <2>1, MapFacts
      <3> QED
        BY <2>1, <3>1, MapFacts
    <2> QED
      BY <2>1
  <1>2. p[1] \in starts /\ p[1] \notin ends /\ p[2] \in ends /\ p[2] \notin starts
    BY <1>1
  <1>3. p[2] \in above
    BY <1>2, MapFacts
  <1>4. ASSUME NEW hi \in above PROVE p[2] <= hi /\ hi \in Int
    <2>1. PICK q \in S : hi = q[2]
      OBVIOUS
    <2>2. p[1] < q[2]
      BY <2>1, MapFacts
    <2>3. CASE p[1] < q[1]
      <3>1. p[2] < q[1] /\ q[1] < q[2] /\ p[2] \in Int /\ q[1] \in Int /\ q[2] \in Int
        BY <2>3, MapFacts
      <3> QED
        BY <2>1, <3>1
    <2>4. CASE q[1] < p[1]
      BY <2>2, <2>4, MapFacts
    <2>5. CASE p[1] = q[1]
      BY <2>1, <2>5, MapFacts
    <2> QED
      BY <2>3, <2>4, <2>5, MapFacts
  <1>5. Min(above) = p[2]
    <2>1. above \in SUBSET Int
      BY <1>4
    <2>2. p[2] \in above /\ \A y \in above : p[2] <= y
      BY <1>3, <1>4
    <2> HIDE DEF above
    <2>3. R!Min(above) = p[2]
      BY <2>1, <2>2, Consts, R!LeastIs
    <2> QED
      BY <2>3 DEF R!Min, Min
  <1> QED
    BY <1>2, <1>5

\* What the peer decodes are the newest ranges, as they are.
LEMMA DecodesNewestFact ==
  ASSUME MaxPn < U16, NEW m \in Maps, m # {}
  PROVE  Covered(ToFrame(m)) = Newest(m)
  <1> DEFINE runs == Descending(m)
             old == Older(m)
             frame == ToFrame(m)
             low == LowAfter(frame)
             S == { runs[i] : i \in 1..(old + 1) }
  <1>1. /\ old \in Nat /\ \A i \in 1..(old + 1) : i \in 1..Cardinality(m)
        /\ 1 \in 1..(old + 1)
    BY OlderFacts
  <1>2. S \in SUBSET m
    BY <1>1, DescendingFacts
  <1>3. S = Newest(m)
    <2>1. ASSUME NEW i \in 1..(old + 1) PROVE runs[i] \in Newest(m)
      <3>1. runs[i] \in m /\ Rank(m, runs[i]) = i - 1
        BY <1>1, DescendingFacts
      <3>2. i - 1 <= RangesLimit
        BY <1>1, OlderFacts, Consts
      <3> QED
        BY <3>1, <3>2 DEF Newest, Rank
    <2>2. ASSUME NEW p \in Newest(m) PROVE \E i \in 1..(old + 1) : p = runs[i]
      <3>1. p \in m /\ Rank(m, p) <= RangesLimit
        BY DEF Newest, Rank
      <3>2. Rank(m, p) \in 0..(Cardinality(m) - 1) /\ p = runs[Rank(m, p) + 1]
        BY <3>1, RankFacts, DescendingFacts
      <3>3. Rank(m, p) <= old
        BY <3>1, <3>2, OlderFacts
      <3>4. Rank(m, p) + 1 \in 1..(old + 1)
        BY <1>1, <3>2, <3>3
      <3> QED
        BY <3>2, <3>4
    <2> QED
      BY <2>1, <2>2
  <1>4. \A i \in 1..(old + 1) : /\ runs[i] \in m /\ runs[i][1] \in Nat /\ runs[i][2] \in Nat
                                /\ runs[i][1] < runs[i][2]
    BY <1>1, DescendingFacts, MapFacts
  <1>5. /\ frame.largest = runs[1][2] - 1 /\ frame.first = runs[1][2] - runs[1][1]
        /\ DOMAIN frame.ranges = 1..old
        /\ \A i \in 1..old : frame.ranges[i].length = runs[i + 1][2] - runs[i + 1][1]
    BY ToFrameFacts
  <1>6. DOMAIN low = 0..old /\ \A i \in 0..old : low[i] = runs[i + 1][1]
    BY LowAfterFacts
  <1>7. frame.first # 0
    BY <1>1, <1>4, <1>5
  <1> DEFINE ends == { q[2] : q \in S }
             starts == { q[1] : q \in S }
  <1>8. { low[i] : i \in DOMAIN low } = starts
    <2>1. ASSUME NEW i \in 0..old PROVE i + 1 \in 1..(old + 1) /\ low[i] = runs[i + 1][1]
      BY <1>1, <1>6
    <2>2. ASSUME NEW i \in 1..(old + 1) PROVE i - 1 \in 0..old /\ low[i - 1] = runs[i][1]
      <3>1. i - 1 \in 0..old /\ (i - 1) + 1 = i
        BY <1>1
      <3> QED
        BY <1>6, <3>1
    <2> HIDE DEF frame, runs, old, low
    <2>3. ASSUME NEW x \in { low[i] : i \in DOMAIN low } PROVE x \in starts
      <3>1. PICK i \in 0..old : x = low[i]
        BY <1>6
      <3> QED
        BY <2>1, <3>1
    <2>4. ASSUME NEW x \in starts PROVE x \in { low[i] : i \in DOMAIN low }
      <3>1. PICK i \in 1..(old + 1) : x = runs[i][1]
        OBVIOUS
      <3> QED
        BY <1>6, <2>2, <3>1
    <2> QED
      BY <2>3, <2>4
  <1>9. { low[i] + frame.ranges[i].length :
            i \in { j \in DOMAIN frame.ranges : frame.ranges[j].length > 0 } }
          \union {frame.largest + 1} = ends
    <2>1. ASSUME NEW i \in 1..old
          PROVE  /\ i + 1 \in 1..(old + 1) /\ frame.ranges[i].length > 0
                 /\ low[i] + frame.ranges[i].length = runs[i + 1][2]
      <3>1. i + 1 \in 1..(old + 1) /\ i \in 0..old
        BY <1>1
      <3>2. runs[i + 1][1] \in Nat /\ runs[i + 1][2] \in Nat /\ runs[i + 1][1] < runs[i + 1][2]
        BY <1>4, <3>1
      <3>3. low[i] = runs[i + 1][1] /\ frame.ranges[i].length = runs[i + 1][2] - runs[i + 1][1]
        BY <1>5, <1>6, <3>1
      <3> QED
        BY <3>1, <3>2, <3>3
    <2>2. frame.largest + 1 = runs[1][2]
      BY <1>1, <1>4, <1>5
    <2>3. ASSUME NEW i \in 1..(old + 1)
          PROVE  runs[i][2] = frame.largest + 1
                 \/ \E k \in 1..old : /\ frame.ranges[k].length > 0
                                     /\ runs[i][2] = low[k] + frame.ranges[k].length
      <3>1. CASE i = 1
        BY <2>2, <3>1
      <3>2. CASE i # 1
        <4>1. i - 1 \in 1..old /\ (i - 1) + 1 = i
          BY <1>1, <3>2
        <4> QED
          BY <2>1, <4>1
      <3> QED
        BY <3>1, <3>2
    <2> HIDE DEF frame, runs, old, low
    <2>4. ASSUME NEW x \in { low[i] + frame.ranges[i].length :
                             i \in { j \in DOMAIN frame.ranges : frame.ranges[j].length > 0 } }
          PROVE  x \in ends
      <3>1. PICK i \in 1..old : x = low[i] + frame.ranges[i].length
        BY <1>5
      <3> QED
        BY <2>1, <3>1
    <2>5. frame.largest + 1 \in ends
      BY <1>1, <2>2
    <2>6. ASSUME NEW x \in ends
          PROVE  x \in { low[i] + frame.ranges[i].length :
                         i \in { j \in DOMAIN frame.ranges : frame.ranges[j].length > 0 } }
                 \/ x = frame.largest + 1
      <3>1. PICK i \in 1..(old + 1) : x = runs[i][2]
        OBVIOUS
      <3> QED
        BY <1>5, <2>3, <3>1
    <2> QED
      BY <2>4, <2>5, <2>6
  <1>10. FromFrame(frame) = { <<lo, Min({ hi \in ends \ starts : hi > lo })>> : lo \in starts \ ends }
    BY <1>7, <1>8, <1>9, Zenon DEF FromFrame
  <1> HIDE DEF S, frame, runs, old, low
  <1>11. FromFrame(frame) = S
    <2>1. ASSUME NEW lo \in starts \ ends
          PROVE  <<lo, Min({ hi \in ends \ starts : hi > lo })>> \in S
      <3>1. PICK p \in S : lo = p[1]
        OBVIOUS
      <3>2. Min({ hi \in ends \ starts : hi > p[1] }) = p[2]
        BY <1>2, NextEnd
      <3>3. p = <<p[1], p[2]>>
        BY <1>2, MapFacts
      <3> QED
        BY <3>1, <3>2, <3>3
    <2>2. ASSUME NEW p \in S
          PROVE  \E lo \in starts \ ends : p = <<lo, Min({ hi \in ends \ starts : hi > lo })>>
      <3>1. p[1] \in starts \ ends /\ Min({ hi \in ends \ starts : hi > p[1] }) = p[2]
        BY <1>2, NextEnd
      <3>2. p = <<p[1], p[2]>>
        BY <1>2, MapFacts
      <3> QED
        BY <3>1, <3>2
    <2> QED
      BY <1>10, <2>1, <2>2
  <1>12. ~Panics(frame)
    BY <1>7 DEF Panics
  <1> QED
    BY <1>3, <1>11, <1>12 DEF Covered, S, frame
-----------------------------------------------------------------------------
(***************************************************************************)
(* The actor.                                                              *)
(***************************************************************************)
\* While every frame had room, the packets not acknowledged are the ones that
\* the wait is for.
Counted ==
  MaxPn < U16 /\ NoAckOnly /\ AlwaysRoom => unacked = (acked + 1)..(acked + waiting)

\* The inductive invariant.
Inv == TypeOK /\ spans \in Maps /\ WaitIsTimed /\ Counted

\* The starts of the ranges lie apart.
LEMMA RoomNow ==
  ASSUME NEW m \in Maps,
         \A apart \in SUBSET Elements(m) :
           (\A x \in apart : x + 1 \notin apart) => Cardinality(apart) <= RangesLimit + 1
  PROVE  Cardinality(m) <= RangesLimit + 1
  <1> DEFINE apart == { p[1] : p \in m }
             start == [p \in m |-> p[1]]
  <1>1. \A x \in apart : x \in Elements(m) /\ x + 1 \notin apart
    <2>1. ASSUME NEW p \in m PROVE p[1] \in Elements(m)
      BY <2>1, MapFacts, HoldsElements
    <2>2. ASSUME NEW p \in m, NEW q \in m, q[1] = p[1] + 1 PROVE FALSE
      <3>1. p[1] < q[1]
        BY <2>2, MapFacts
      <3> QED
        BY <2>2, <3>1, MapFacts
    <2> QED
      BY <2>1, <2>2
  <1>2. apart \in SUBSET Elements(m) /\ \A x \in apart : x + 1 \notin apart
    BY <1>1
  <1>3. Cardinality(apart) <= RangesLimit + 1
    <2> HIDE DEF apart
    <2> QED
      BY <1>2
  <1>4. start \in Bijection(m, apart)
    <2>1. start \in [m -> apart]
      OBVIOUS
    <2>2. \A p, q \in m : start[p] = start[q] => p = q
      BY MapFacts
    <2>3. \A x \in apart : \E p \in m : start[p] = x
      OBVIOUS
    <2> QED
      BY <2>1, <2>2, <2>3 DEF Bijection, Injection, IsInjective, Surjection
  <1>5. ExistsBijection(m, apart)
    BY <1>4 DEF ExistsBijection
  <1>6. Cardinality(apart) = Cardinality(m)
    BY <1>5, FiniteMap, FS_Bijection
  <1> QED
    BY <1>3, <1>6

LEMMA NewestIsAll ==
  ASSUME NEW m \in Maps, Cardinality(m) <= RangesLimit + 1
  PROVE  Newest(m) = m
  <1>1. ASSUME NEW p \in m PROVE Cardinality(Newer(m, p)) <= RangesLimit
    <2>1. Rank(m, p) \in 0..(Cardinality(m) - 1)
      BY RankFacts
    <2> QED
      BY <2>1, FiniteMap, Consts DEF Rank
  <1> QED
    BY <1>1 DEF Newest

\* A frame with room for all ranges covers all that arrived.
LEMMA SendCoversAll ==
  ASSUME MaxPn < U16, spans' \in Maps, AlwaysRoom', NEW pending \in SUBSET Elements(spans'),
         Send(spans', pending)
  PROVE  unacked' = {}
  <1> SUFFICES ASSUME NEW x \in unacked' PROVE FALSE
    OBVIOUS
  <1>1. PICK m \in Maps : m = spans'
    OBVIOUS
  <1>2. x \in pending /\ ~Contains(Covered(ToFrame(m)), x) /\ x \in Elements(m)
    BY <1>1 DEF Send
  <1>3. x \in Int
    BY <1>2 DEF Elements, Span
  <1>4. m # {}
    BY <1>2, <1>3, HoldsElements
  <1>5. Cardinality(m) <= RangesLimit + 1
    <2>1. \A apart \in SUBSET Elements(m) :
            (\A y \in apart : y + 1 \notin apart) => Cardinality(apart) <= RangesLimit + 1
      BY <1>1 DEF AlwaysRoom
    <2> QED
      BY <2>1, RoomNow
  <1>6. Newest(m) = m
    BY <1>5, NewestIsAll
  <1>7. Covered(ToFrame(m)) = m
    BY <1>4, <1>6, DecodesNewestFact
  <1> QED
    BY <1>2, <1>3, <1>7, HoldsElements

LEMMA InitInv == Init => Inv
  <1> SUFFICES ASSUME Init PROVE Inv
    OBVIOUS
  <1>1. spans \in Maps
    BY Consts DEF Init, Maps, R!Maps
  <1>2. TypeOK /\ WaitIsTimed
    BY Consts DEF Init, TypeOK, WaitIsTimed
  <1>3. Counted
    BY DEF Init, Counted
  <1> QED
    BY <1>1, <1>2, <1>3 DEF Inv

\* The branches of Handler<Recv> for an ack-eliciting packet.
LEMMA ElicitingCounted ==
  ASSUME Inv, NEW pn \in Numbers, pn \in eliciting \/ ~Contains(spans, pn),
         spans' = InsertOne(spans, pn), eliciting' = eliciting \union {pn}, RecvEliciting(pn)
  PROVE  Counted'
  <1> SUFFICES ASSUME MaxPn < U16, NoAckOnly', AlwaysRoom'
               PROVE  unacked' = (acked' + 1)..(acked' + waiting')
    BY DEF Counted
  <1>1. /\ spans \in Maps /\ spans' \in Maps /\ Elements(spans') = Elements(spans) \union {pn}
        /\ pn \in Nat /\ eliciting \subseteq Elements(spans) /\ unacked \subseteq eliciting
        /\ waiting \in Nat /\ acked \in Nat
    BY InsertsOne, Consts DEF Inv, TypeOK, Numbers
  <1>2. NoAckOnly
    <2>1. ASSUME NEW x \in Elements(spans) PROVE x \in eliciting
      <3>1. x \in eliciting \union {pn}
        BY <1>1 DEF NoAckOnly
      <3>2. x = pn => Contains(spans, pn)
        BY <1>1, HoldsElements
      <3> QED
        BY <3>1, <3>2
    <2> QED
      BY <1>1, <2>1 DEF NoAckOnly
  <1>3. AlwaysRoom
    BY <1>1 DEF AlwaysRoom
  <1>4. unacked = (acked + 1)..(acked + waiting)
    BY <1>2, <1>3 DEF Inv, Counted
  <1>5. unacked \union {pn} \in SUBSET Elements(spans')
    BY <1>1
  <1>6. CASE StartWait(pn)
    <2>1. waiting = 0 /\ pn = acked + 1 /\ waiting' = 1 /\ acked' = acked /\ unacked' = unacked \union {pn}
      BY <1>6 DEF StartWait
    <2> QED
      BY <1>1, <1>4, <2>1
  <1>7. CASE GoOnWaiting(pn)
    <2>1. /\ pn = acked + waiting + 1 /\ waiting' = waiting + 1 /\ acked' = acked
          /\ unacked' = unacked \union {pn}
      BY <1>7 DEF GoOnWaiting, WaitsOn
    <2> QED
      BY <1>1, <1>4, <2>1
  <1>8. CASE AckAtOnce(pn) \/ EndWait(pn)
    <2>1. waiting' = 0 /\ Send(spans', unacked \union {pn}) /\ acked' \in Nat
      BY <1>1, <1>8 DEF AckAtOnce, EndWait
    <2>2. unacked' = {}
      BY <1>1, <1>5, <2>1, SendCoversAll
    <2>3. \A a \in Nat : (a + 1)..(a + 0) = {}
      OBVIOUS
    <2> QED
      BY <2>1, <2>2, <2>3
  <1> QED
    BY <1>6, <1>7, <1>8 DEF RecvEliciting

LEMMA NextInv == Inv /\ [Next]_avars => Inv'
  <1> SUFFICES ASSUME Inv, [Next]_avars PROVE Inv'
    OBVIOUS
  <1>1. /\ waiting \in 0..WaitCount /\ acked \in Nat /\ stray \in Nat
        /\ handle \in {"none", "armed", "fired"} /\ spans \in Maps
        /\ eliciting \subseteq Elements(spans) /\ unacked \subseteq eliciting
        /\ waiting > 0 => handle = "armed" /\ (waiting = 1 \/ waiting < WaitCount)
    BY DEF Inv, TypeOK, WaitIsTimed
  <1>2. \A m \in Maps : m \subseteq (0..MaxPn) \X (0..MaxPn)
    BY DEF Maps, R!Maps
  <1>3. ASSUME NEW pn \in Numbers, spans' = InsertOne(spans, pn),
               pn \in eliciting \/ ~Contains(spans, pn),
               eliciting' = eliciting \union {pn}, RecvEliciting(pn)
        PROVE  Inv'
    <2>1. spans' \in Maps /\ Elements(spans') = Elements(spans) \union {pn} /\ pn \in Nat
      BY <1>1, <1>3, InsertsOne, Consts DEF Numbers
    <2>2. unacked' \subseteq unacked \union {pn}
      BY <1>3 DEF RecvEliciting, StartWait, AckAtOnce, GoOnWaiting, EndWait, Send
    <2>3. /\ waiting' \in 0..WaitCount /\ acked' \in Nat /\ stray' \in Nat
          /\ handle' \in {"none", "armed", "fired"}
          /\ waiting' > 0 => handle' = "armed" /\ (waiting' = 1 \/ waiting' < WaitCount)
      <3>1. CASE StartWait(pn)
        BY <1>1, <3>1, Consts DEF StartWait, Arm
      <3>2. CASE AckAtOnce(pn)
        BY <1>1, <2>1, <3>2 DEF AckAtOnce
      <3>3. CASE GoOnWaiting(pn)
        BY <1>1, <3>3, Consts DEF GoOnWaiting, WaitsOn
      <3>4. CASE EndWait(pn)
        BY <1>1, <3>4, Consts DEF EndWait, Cancel
      <3> QED
        BY <1>3, <3>1, <3>2, <3>3, <3>4 DEF RecvEliciting
    <2>4. Counted'
      BY <1>3, ElicitingCounted
    <2> QED
      BY <1>1, <1>2, <1>3, <2>1, <2>2, <2>3, <2>4 DEF Inv, TypeOK, WaitIsTimed
  <1>4. ASSUME NEW pn \in Numbers, spans' = InsertOne(spans, pn), pn \notin eliciting,
               UNCHANGED eliciting, RecvAckOnly(pn)
        PROVE  Inv'
    <2>1. spans' \in Maps /\ Elements(spans') = Elements(spans) \union {pn} /\ pn \in Nat
      BY <1>1, <1>4, InsertsOne, Consts DEF Numbers
    <2>2. /\ waiting' = 0 /\ acked' \in Nat /\ UNCHANGED <<handle, stray, unacked>>
      BY <1>1, <1>4, <2>1 DEF RecvAckOnly
    <2>3. ~NoAckOnly'
      BY <1>4, <2>1 DEF NoAckOnly
    <2> QED
      BY <1>1, <1>2, <1>4, <2>1, <2>2, <2>3, Consts DEF Inv, TypeOK, WaitIsTimed, Counted
  <1>5. CASE Timeout
    <2>1. /\ waiting' = 0 /\ UNCHANGED <<acked, spans, eliciting>>
          /\ IF waiting > 0 THEN Send(spans, unacked) ELSE UNCHANGED unacked
          /\ stray' \in Nat /\ handle' \in {"none", "armed", "fired"}
      BY <1>1, <1>5 DEF Timeout, OnTimeout
    <2>2. unacked' \subseteq unacked
      BY <2>1 DEF Send
    <2>3. Counted'
      <3> SUFFICES ASSUME MaxPn < U16, NoAckOnly', AlwaysRoom' PROVE unacked' = {}
        BY <1>1, <2>1 DEF Counted
      <3>1. CASE waiting > 0
        <4>1. Send(spans', unacked) /\ unacked \in SUBSET Elements(spans') /\ spans' \in Maps
          BY <1>1, <2>1, <3>1
        <4> QED
          BY <4>1, SendCoversAll
      <3>2. CASE waiting = 0
        <4>1. NoAckOnly /\ AlwaysRoom
          BY <2>1 DEF NoAckOnly, AlwaysRoom
        <4>2. unacked = (acked + 1)..(acked + 0)
          BY <3>2, <4>1 DEF Inv, Counted
        <4> QED
          BY <1>1, <2>1, <3>2, <4>2
      <3> QED
        BY <1>1, <3>1, <3>2
    <2> QED
      BY <1>1, <1>2, <2>1, <2>2, <2>3, Consts DEF Inv, TypeOK, WaitIsTimed
  <1>6. CASE UNCHANGED avars
    BY <1>6 DEF avars, Inv, TypeOK, WaitIsTimed, Counted, NoAckOnly, AlwaysRoom
  <1> QED
    BY <1>3, <1>4, <1>5, <1>6 DEF Next, Recv

LEMMA InvHolds == Spec => []Inv
  BY InitInv, NextInv, PTL DEF Spec
-----------------------------------------------------------------------------
(***************************************************************************)
(* The theorems.                                                           *)
(***************************************************************************)
\* The types of AckSender: what awaits an ack frame was received.
THEOREM TypesHold == Spec => []TypeOK
  <1>1. Inv => TypeOK
    BY DEF Inv
  <1> QED
    BY <1>1, InvHolds, PTL

\* A wait has its timer, whichever timers were overwritten, cancelled or fired
\* early (Handler<Recv> and Handler<Timeout> of AckSender).
THEOREM WaitsAreTimed == Spec => []WaitIsTimed
  <1>1. Inv => WaitIsTimed
    BY DEF Inv
  <1> QED
    BY <1>1, InvHolds, PTL

\* Into<AckFrame> and From<AckFrame> for AckSpans: the peer decodes the newest
\* ranges, exactly, as long as they fit into the fields of a frame.
THEOREM FramesDecode == MaxPn < U16 => (Spec => []DecodesNewest)
  <1> SUFFICES ASSUME MaxPn < U16 PROVE Spec => []DecodesNewest
    OBVIOUS
  <1>1. Inv => DecodesNewest
    BY DecodesNewestFact DEF Inv, DecodesNewest
  <1> QED
    BY <1>1, InvHolds, PTL

\* The state of AckSender counts exactly what no frame covered yet, while
\* nothing but ack-eliciting packets arrive and every frame has room.
THEOREM StateCounts == MaxPn < U16 => (Spec => []StateCountsUnacked)
  <1> SUFFICES ASSUME MaxPn < U16 PROVE Spec => []StateCountsUnacked
    OBVIOUS
  <1>1. ASSUME Inv PROVE StateCountsUnacked
    <2>1. SUFFICES ASSUME NoAckOnly, AlwaysRoom PROVE Cardinality(unacked) = waiting
      BY DEF StateCountsUnacked
    <2>2. unacked = (acked + 1)..(acked + waiting) /\ acked \in Nat /\ waiting \in Nat
      BY <1>1, <2>1 DEF Inv, Counted, TypeOK
    <2> QED
      BY <2>2, FS_Interval
  <1> QED
    BY <1>1, InvHolds, PTL

\* The claim that the test of the conversion makes holds as long as the numbers
\* fit into the fields: what breaks it is their width and nothing else.
THEOREM ConversionSurvives == MaxPn < U16 => (Spec => []SurvivesConversion)
  <1> SUFFICES ASSUME MaxPn < U16 PROVE Spec => []SurvivesConversion
    OBVIOUS
  <1>1. ASSUME Inv PROVE SurvivesConversion
    <2>1. SUFFICES ASSUME Cardinality(spans) \in 1..RangesLimit
                   PROVE  ~Panics(ToFrame(spans)) /\ FromFrame(ToFrame(spans)) = spans
      BY DEF SurvivesConversion
    <2>2. spans \in Maps
      BY <1>1 DEF Inv
    <2>3. spans # {}
      BY <2>1, FS_EmptySet
    <2>4. Newest(spans) = spans
      BY <2>1, <2>2, NewestIsAll, Consts
    <2>5. Covered(ToFrame(spans)) = spans
      BY <2>2, <2>3, <2>4, DecodesNewestFact
    <2> QED
      BY <2>3, <2>5 DEF Covered
  <1> QED
    BY <1>1, InvHolds, PTL
=============================================================================
