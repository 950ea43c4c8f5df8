--------------------------- MODULE PipelineProofs ---------------------------
(***************************************************************************)
(* What Packetizer, Inflight and the congestion control do with the frames *)
(* of a connection: for every size of a packet and of its frames, every    *)
(* number of them, and every order of sending, delivery, acks and timers.  *)
(***************************************************************************)
EXTENDS Pipeline, FiniteSetTheorems, TLAPS

B == INSTANCE ByteRangesProofs

(***************************************************************************)
(* Sums.                                                                   *)
(***************************************************************************)
Sums(f, n, g) == g = [i \in 0..n |-> IF i = 0 THEN 0 ELSE g[i - 1] + f[i]]

LEMMA SumsFacts ==
  ASSUME NEW f, NEW n \in Nat, NEW g, Sums(f, n, g)
  PROVE  g[0] = 0 /\ \A i \in 1..n : g[i] = g[i - 1] + f[i]
  <1>1. \A i \in 0..n : g[i] = IF i = 0 THEN 0 ELSE g[i - 1] + f[i]
    <2>1. \A h : g = [i \in 0..n |-> IF i = 0 THEN 0 ELSE h[i - 1] + f[i]]
                   => \A i \in 0..n : g[i] = IF i = 0 THEN 0 ELSE h[i - 1] + f[i]
      OBVIOUS
    <2> QED
      BY <2>1, Zenon DEF Sums
  <1> QED
    BY <1>1

LEMMA SumsExist ==
  ASSUME NEW f, NEW n \in Nat
  PROVE  \E g : Sums(f, n, g)
  <1> DEFINE Without == { m \in Nat : ~ \E g : Sums(f, m, g) }
  <1>1. SUFFICES ASSUME Without # {} PROVE FALSE
    OBVIOUS
  <1>2. PICK m \in Without : \A k \in Without : m <= k
    <2>1. Without \in SUBSET Nat
      OBVIOUS
    <2> HIDE DEF Without
    <2> QED
      BY <1>1, <2>1, B!LeastElement
  <1>3. m # 0
    <2>1. Sums(f, 0, [i \in 0..0 |-> 0])
      BY DEF Sums
    <2> QED
      BY <2>1
  <1>4. m \in Nat /\ m - 1 \in Nat /\ m - 1 \notin Without
    BY <1>2, <1>3
  <1>5. PICK g : Sums(f, m - 1, g)
    BY <1>4
  <1> DEFINE h == [i \in 0..m |-> IF i = m THEN g[m - 1] + f[m] ELSE g[i]]
  <1>6. g[0] = 0 /\ \A i \in 1..(m - 1) : g[i] = g[i - 1] + f[i]
    BY <1>4, <1>5, SumsFacts
  <1>7. \A i \in 0..m : h[i] = IF i = 0 THEN 0 ELSE h[i - 1] + f[i]
    BY <1>3, <1>4, <1>6
  <1>8. Sums(f, m, h)
    <2>1. h = [i \in 0..m |-> h[i]]
      OBVIOUS
    <2>2. [i \in 0..m |-> h[i]] = [i \in 0..m |-> IF i = 0 THEN 0 ELSE h[i - 1] + f[i]]
      <3> HIDE DEF h
      <3> QED
        BY <1>7
    <2> HIDE DEF h
    <2> QED
      BY <2>1, <2>2, Zenon DEF Sums
  <1> QED
    BY <1>8

LEMMA TotalSums ==
  ASSUME NEW f, NEW n \in Nat
  PROVE  \E g : Sums(f, n, g) /\ Total(f, n) = g[n]
  <1> DEFINE sum == CHOOSE g : Sums(f, n, g)
  <1>1. Total(f, n) = sum[n]
    BY Zenon DEF Total, Sums
  <1>2. Sums(f, n, sum)
    BY SumsExist, Zenon
  <1> QED
    BY <1>1, <1>2, Zenon

LEMMA SumsAgree ==
  ASSUME NEW f, NEW e, NEW n \in Nat, NEW k \in 0..n, \A i \in 1..k : f[i] = e[i],
         NEW g, Sums(f, n, g), NEW h, Sums(e, k, h)
  PROVE  g[k] = h[k]
  <1> DEFINE Others == { i \in 0..k : g[i] # h[i] }
  <1>1. SUFFICES ASSUME Others # {} PROVE FALSE
    OBVIOUS
  <1>2. PICK i \in Others : \A j \in Others : i <= j
    <2>1. Others \in SUBSET Nat
      OBVIOUS
    <2> HIDE DEF Others
    <2> QED
      BY <1>1, <2>1, B!LeastElement
  <1>3. /\ g[0] = 0 /\ \A j \in 1..n : g[j] = g[j - 1] + f[j]
        /\ h[0] = 0 /\ \A j \in 1..k : h[j] = h[j - 1] + e[j]
    <2>1. k \in Nat
      OBVIOUS
    <2> QED
      BY <2>1, SumsFacts
  <1>4. i # 0
    BY <1>3
  <1>5. i \in 1..k /\ i \in 1..n /\ i - 1 \in 0..k
    BY <1>4
  <1>6. g[i - 1] = h[i - 1]
    BY <1>2, <1>5
  <1> QED
    BY <1>3, <1>5, <1>6

LEMMA TotalAgree ==
  ASSUME NEW n \in Nat, NEW f, NEW e, \A i \in 1..n : f[i] = e[i]
  PROVE  Total(f, n) = Total(e, n)
  <1>1. PICK g : Sums(f, n, g) /\ Total(f, n) = g[n]
    BY TotalSums
  <1>2. PICK h : Sums(e, n, h) /\ Total(e, n) = h[n]
    BY TotalSums
  <1>3. n \in 0..n
    OBVIOUS
  <1> QED
    BY <1>1, <1>2, <1>3, SumsAgree

LEMMA TotalStep ==
  ASSUME NEW f
  PROVE  Total(f, 0) = 0 /\ \A n \in Nat : Total(f, n + 1) = Total(f, n) + f[n + 1]
  <1>1. Total(f, 0) = 0
    BY TotalSums, SumsFacts
  <1>2. ASSUME NEW n \in Nat PROVE Total(f, n + 1) = Total(f, n) + f[n + 1]
    <2>1. PICK g : Sums(f, n + 1, g) /\ Total(f, n + 1) = g[n + 1]
      BY TotalSums
    <2>2. PICK h : Sums(f, n, h) /\ Total(f, n) = h[n]
      BY TotalSums
    <2>3. g[n] = h[n]
      <3>1. n + 1 \in Nat /\ n \in 0..(n + 1) /\ \A i \in 1..n : f[i] = f[i]
        OBVIOUS
      <3> QED
        BY <2>1, <2>2, <3>1, SumsAgree
    <2>4. g[n + 1] = g[(n + 1) - 1] + f[n + 1]
      BY <2>1, SumsFacts
    <2>5. (n + 1) - 1 = n
      OBVIOUS
    <2> QED
      BY <2>1, <2>2, <2>3, <2>4, <2>5
  <1> QED
    BY <1>1, <1>2

LEMMA TotalNat ==
  ASSUME NEW f, NEW n \in Nat, \A i \in 1..n : f[i] \in Nat
  PROVE  Total(f, n) \in Nat
  <1> DEFINE Others == { m \in 0..n : Total(f, m) \notin Nat }
  <1>1. SUFFICES ASSUME Others # {} PROVE FALSE
    OBVIOUS
  <1>2. PICK m \in Others : \A k \in Others : m <= k
    <2>1. Others \in SUBSET Nat
      OBVIOUS
    <2> HIDE DEF Others
    <2> QED
      BY <1>1, <2>1, B!LeastElement
  <1>3. m # 0
    BY TotalStep
  <1>4. m - 1 \in Nat /\ m \in 1..n /\ m - 1 \in 0..n /\ (m - 1) + 1 = m
    BY <1>3
  <1>5. Total(f, m - 1) \in Nat
    BY <1>2, <1>4
  <1>6. Total(f, m) = Total(f, m - 1) + f[m]
    BY <1>4, TotalStep
  <1> QED
    BY <1>4, <1>5, <1>6

\* One summand grows, and so does the sum.
LEMMA TotalGrows ==
  ASSUME NEW f, NEW e, NEW n \in Nat, \A i \in 1..n : f[i] \in Nat,
         NEW j \in 1..n, NEW d \in Nat, e[j] = f[j] + d, \A i \in (1..n) \ {j} : e[i] = f[i]
  PROVE  Total(e, n) = Total(f, n) + d
  <1> DEFINE Others == { m \in j..n : Total(e, m) # Total(f, m) + d }
  <1>1. SUFFICES ASSUME Others # {} PROVE FALSE
    OBVIOUS
  <1>2. PICK m \in Others : \A k \in Others : m <= k
    <2>1. Others \in SUBSET Nat
      OBVIOUS
    <2> HIDE DEF Others
    <2> QED
      BY <1>1, <2>1, B!LeastElement
  <1>3. m - 1 \in Nat /\ m \in 1..n /\ (m - 1) + 1 = m
    OBVIOUS
  <1>4. /\ Total(f, m) = Total(f, m - 1) + f[m]
        /\ Total(e, m) = Total(e, m - 1) + e[m]
    BY <1>3, TotalStep
  <1>5. Total(f, m - 1) \in Nat /\ f[m] \in Nat
    <2>1. \A i \in 1..(m - 1) : f[i] \in Nat
      BY <1>3
    <2> QED
      BY <1>3, <2>1, TotalNat
  <1>6. CASE m = j
    <2>1. Total(e, m - 1) = Total(f, m - 1)
      <3>1. \A i \in 1..(m - 1) : e[i] = f[i]
        BY <1>3, <1>6
      <3> QED
        BY <1>3, <3>1, TotalAgree
    <2> QED
      BY <1>4, <1>5, <1>6, <2>1
  <1>7. CASE m # j
    <2>1. m - 1 \in j..n
      BY <1>3, <1>7
    <2>2. Total(e, m - 1) = Total(f, m - 1) + d
      BY <1>2, <1>3, <2>1
    <2>3. e[m] = f[m]
      BY <1>3, <1>7
    <2> QED
      BY <1>4, <1>5, <2>2, <2>3
  <1> QED
    BY <1>6, <1>7

(***************************************************************************)
(* Frames and packets.                                                     *)
(***************************************************************************)
Kinds == {"data", "empty", "limit", "ack"}

Frame == { f \in [kind : Kinds, lo : Nat, hi : Nat] : f.lo < f.hi }

Packet == [num : Nat, frames : Seq(Frame)]

LEMMA Consts ==
  /\ PacketRoom \in Nat /\ DataHeader \in Nat /\ FullBelow \in Nat
  /\ LimitSize \in Nat /\ AckSize \in Nat /\ HeaderSize \in Nat
  /\ DataHeader < FullBelow /\ FullBelow <= PacketRoom
  /\ LimitSize <= PacketRoom /\ AckSize <= PacketRoom
  /\ InitialWindow \in Nat /\ Mtu \in Nat /\ Mtu > 0 /\ 2 * Mtu <= InitialWindow
  /\ InitialRtt \in Nat /\ InitialRtt > 0 /\ MaxAckDelay \in Nat
  /\ PacketTime \in Nat /\ PacketTime > 0 /\ Lens \subseteq Nat \ {0}
  /\ MaxData \in Nat /\ MaxEmpties \in Nat /\ MaxLimits \in Nat
  /\ MaxAckOf \in Nat /\ MaxPackets \in Nat
  /\ MaxData + MaxEmpties + MaxLimits + MaxAckOf <= MaxPackets
  BY PacketizerConstants, CongestionConstants, EstimatorConstants, PipelineConstants
     DEF PacketizerConstants, CongestionConstants, EstimatorConstants, PipelineConstants

LEMMA FrameFacts ==
  /\ \A lo, hi \in Nat : lo < hi => /\ Data(lo, hi) \in Frame /\ Data(lo, hi).kind = "data"
                                   /\ Data(lo, hi).lo = lo /\ Data(lo, hi).hi = hi
  /\ \A n \in Nat : /\ Empty(n) \in Frame /\ Empty(n).kind = "empty"
                    /\ Empty(n).lo = n /\ Empty(n).hi = n + 1
  /\ \A n \in Nat : /\ Limit(n) \in Frame /\ Limit(n).kind = "limit"
                    /\ Limit(n).lo = n /\ Limit(n).hi = n + 1
  /\ \A n \in Nat : /\ AckOf(n) \in Frame /\ AckOf(n).kind = "ack"
                    /\ AckOf(n).lo = n /\ AckOf(n).hi = n + 1
  BY DEF Data, Empty, Limit, AckOf, Frame, Kinds

LEMMA SizeFacts ==
  ASSUME NEW f \in Frame
  PROVE  /\ Size(f) \in Nat /\ f.lo \in Nat /\ f.hi \in Nat /\ f.lo < f.hi /\ f.kind \in Kinds
         /\ f.kind = "data" => Size(f) = DataHeader + (f.hi - f.lo)
         /\ f.kind # "data" => Size(f) <= PacketRoom
  BY Consts DEF Frame, Size, Kinds

LEMMA SizeOfFacts ==
  /\ SizeOf(<<>>) = 0
  /\ \A frames \in Seq(Frame) :
       /\ SizeOf(frames) \in Nat
       /\ \A f \in Frame : SizeOf(Append(frames, f)) = SizeOf(frames) + Size(f)
  <1>1. SizeOf(<<>>) = 0
    <2>1. Len(<<>>) = 0
      OBVIOUS
    <2> QED
      BY <2>1, TotalStep DEF SizeOf
  <1>2. ASSUME NEW frames \in Seq(Frame)
        PROVE  SizeOf(frames) \in Nat
    <2> DEFINE sizes == [i \in DOMAIN frames |-> Size(frames[i])]
    <2>1. Len(frames) \in Nat /\ \A i \in 1..Len(frames) : sizes[i] \in Nat
      BY SizeFacts
    <2> HIDE DEF sizes
    <2>2. Total(sizes, Len(frames)) \in Nat
      BY <2>1, TotalNat
    <2> QED
      BY <2>2 DEF SizeOf, sizes
  <1>3. ASSUME NEW frames \in Seq(Frame), NEW f \in Frame
        PROVE  SizeOf(Append(frames, f)) = SizeOf(frames) + Size(f)
    <2> DEFINE more  == Append(frames, f)
               n     == Len(frames)
               sizes == [i \in DOMAIN frames |-> Size(frames[i])]
               grown == [i \in DOMAIN more |-> Size(more[i])]
    <2>1. n \in Nat /\ Len(more) = n + 1
      OBVIOUS
    <2>2. grown[n + 1] = Size(f) /\ \A i \in 1..n : grown[i] = sizes[i]
      OBVIOUS
    <2>3. Total(grown, n + 1) = Total(grown, n) + grown[n + 1]
      <3> HIDE DEF grown, n
      <3> QED
        BY <2>1, TotalStep
    <2>4. Total(grown, n) = Total(sizes, n)
      <3> HIDE DEF grown, n, sizes
      <3> QED
        BY <2>1, <2>2, TotalAgree
    <2> QED
      BY <2>1, <2>2, <2>3, <2>4, Zenon DEF SizeOf
  <1> QED
    BY <1>1, <1>2, <1>3

(***************************************************************************)
(* The Packetizer.                                                         *)
(***************************************************************************)
PacketizerState == [frames : Seq(Frame), room : Nat, num : Nat, timers : Nat, out : Seq(Packet)]

\* `base` packets went to the network; the next ones wait in `out`.
Numbered(q, base) ==
  /\ q.num = base + Len(q.out)
  /\ \A i \in 1..Len(q.out) :
       /\ q.out[i].num = base + (i - 1)
       /\ q.out[i].frames # <<>> /\ SizeOf(q.out[i].frames) <= PacketRoom

Loose(q, base) ==
  q \in PacketizerState /\ Numbered(q, base) /\ q.room = PacketRoom - SizeOf(q.frames)

Good(q, base) == Loose(q, base) /\ FullBelow <= q.room

\* The packets begun so far.
Begun(q) == q.num + (IF q.frames = <<>> THEN 0 ELSE 1)

Entry == [num : Nat, at : Nat, frame : Frame]

InPacket(e, p) == e.num = p.num /\ e.at \in DOMAIN p.frames /\ e.frame = p.frames[e.at]

Holds(q, e) == InPacket(e, q) \/ \E i \in 1..Len(q.out) : InPacket(e, q.out[i])

\* From q to r, entries with the units lo..(hi - 1) of a kind came after the others.
Extends(q, r, kind, lo, hi) ==
  /\ \A e \in Entry : Holds(q, e) => Holds(r, e)
  /\ \A e \in Entry : Holds(r, e) /\ ~ Holds(q, e) =>
       /\ e.frame.kind = kind /\ lo <= e.frame.lo /\ e.frame.hi <= hi
       /\ \A d \in Entry : Holds(q, d) => Before(d, e)
       /\ \A d \in Entry : Holds(r, d) /\ ~ Holds(q, d) /\ d # e =>
            \/ Before(d, e) /\ d.frame.hi <= e.frame.lo
            \/ Before(e, d) /\ e.frame.hi <= d.frame.lo
  /\ \A u \in Nat : lo <= u /\ u < hi =>
       \E e \in Entry : Holds(r, e) /\ ~ Holds(q, e) /\ e.frame.lo <= u /\ u < e.frame.hi

LEMMA StateFacts ==
  ASSUME NEW q \in PacketizerState
  PROVE  /\ q.frames \in Seq(Frame) /\ q.room \in Nat /\ q.num \in Nat /\ q.timers \in Nat
         /\ q.out \in Seq(Packet) /\ Len(q.out) \in Nat /\ Len(q.frames) \in Nat
         /\ Begun(q) \in Nat
  BY DEF PacketizerState, Begun

LEMMA FlushFacts ==
  ASSUME NEW base \in Nat, NEW q, Loose(q, base)
  PROVE  /\ Good(Flush(q), base) /\ Begun(Flush(q)) = Begun(q)
         /\ Flush(q).frames = <<>> /\ Flush(q).room = PacketRoom /\ Flush(q).timers = q.timers
         /\ \A e \in Entry : Holds(Flush(q), e) <=> Holds(q, e)
  <1>1. CASE q.frames = <<>>
    <2>1. q.room = PacketRoom
      BY <1>1, SizeOfFacts, Consts DEF Loose
    <2> QED
      BY <1>1, <2>1, Consts DEF Flush, Good, Loose
  <1>2. CASE q.frames # <<>>
    <2> DEFINE p == [num |-> q.num, frames |-> q.frames]
               r == Flush(q)
    <2>1. q \in PacketizerState
      BY DEF Loose
    <2>2. p \in Packet
      BY <2>1, StateFacts DEF Packet
    <2>3. r = [q EXCEPT !.frames = <<>>, !.room = PacketRoom, !.num = q.num + 1,
                        !.out = Append(q.out, p)]
      BY <1>2 DEF Flush
    <2>4. /\ r.frames = <<>> /\ r.room = PacketRoom /\ r.num = q.num + 1
          /\ r.timers = q.timers /\ r.out = Append(q.out, p)
      BY <2>1, <2>3 DEF PacketizerState
    <2>5. r \in PacketizerState
      <3>1. Append(q.out, p) \in Seq(Packet)
        BY <2>1, <2>2, StateFacts
      <3>2. <<>> \in Seq(Frame) /\ PacketRoom \in Nat /\ q.num + 1 \in Nat
        BY <2>1, StateFacts, Consts
      <3> HIDE DEF p
      <3> QED
        BY <2>1, <2>3, <3>1, <3>2 DEF PacketizerState
    <2> HIDE DEF r
    <2>6. Len(r.out) = Len(q.out) + 1
      BY <2>1, <2>4, StateFacts
    <2>7. \A i \in 1..Len(q.out) : r.out[i] = q.out[i]
      BY <2>1, <2>4, StateFacts
    <2>8. r.out[Len(q.out) + 1] = p
      BY <2>1, <2>4, StateFacts
    <2>9. SizeOf(q.frames) <= PacketRoom
      BY <2>1, StateFacts, SizeOfFacts, Consts DEF Loose
    <2>10. Numbered(r, base)
      <3>1. ASSUME NEW i \in 1..Len(r.out)
            PROVE  /\ r.out[i].num = base + (i - 1)
                   /\ r.out[i].frames # <<>> /\ SizeOf(r.out[i].frames) <= PacketRoom
        <4>1. CASE i = Len(q.out) + 1
          <5>1. p.num = base + Len(q.out) /\ p.frames = q.frames
            BY DEF Loose, Numbered
          <5> QED
            BY <1>2, <2>1, <2>8, <2>9, <4>1, <5>1, StateFacts
        <4>2. CASE i # Len(q.out) + 1
          <5>1. i \in 1..Len(q.out)
            BY <2>1, <2>6, <4>2, StateFacts
          <5> QED
            BY <2>7, <5>1 DEF Loose, Numbered
        <4> QED
          BY <4>1, <4>2
      <3>2. r.num = base + Len(r.out)
        BY <2>1, <2>4, <2>6, StateFacts DEF Loose, Numbered
      <3> QED
        BY <3>1, <3>2 DEF Numbered
    <2>11. Good(r, base)
      BY <2>4, <2>5, <2>10, SizeOfFacts, Consts DEF Good, Loose
    <2>12. Begun(r) = Begun(q)
      BY <1>2, <2>1, <2>4, StateFacts DEF Begun
    <2>13. ASSUME NEW e \in Entry
           PROVE  Holds(r, e) <=> Holds(q, e)
      <3>1. ~ InPacket(e, r)
        BY <2>4 DEF InPacket
      <3>2. InPacket(e, q) <=> InPacket(e, p)
        BY DEF InPacket
      <3>3. (\E i \in 1..Len(r.out) : InPacket(e, r.out[i]))
              <=> InPacket(e, p) \/ \E i \in 1..Len(q.out) : InPacket(e, q.out[i])
        <4> HIDE DEF p
        <4>1. ASSUME NEW i \in 1..Len(r.out), InPacket(e, r.out[i])
              PROVE  InPacket(e, p) \/ \E j \in 1..Len(q.out) : InPacket(e, q.out[j])
          <5>1. i = Len(q.out) + 1 \/ i \in 1..Len(q.out)
            BY <2>1, <2>6, StateFacts
          <5> QED
            BY <2>7, <2>8, <4>1, <5>1
        <4>2. ASSUME InPacket(e, p) PROVE \E i \in 1..Len(r.out) : InPacket(e, r.out[i])
          <5>1. Len(q.out) + 1 \in 1..Len(r.out)
            BY <2>1, <2>6, StateFacts
          <5> QED
            BY <2>8, <4>2, <5>1
        <4>3. ASSUME NEW j \in 1..Len(q.out), InPacket(e, q.out[j])
              PROVE  \E i \in 1..Len(r.out) : InPacket(e, r.out[i])
          <5>1. j \in 1..Len(r.out)
            BY <2>1, <2>6, StateFacts
          <5> QED
            BY <2>7, <4>3, <5>1
        <4> QED
          BY <4>1, <4>2, <4>3
      <3> QED
        BY <3>1, <3>2, <3>3 DEF Holds
    <2> QED
      BY <2>4, <2>11, <2>12, <2>13 DEF r
  <1> QED
    BY <1>1, <1>2

LEMMA PushFacts ==
  ASSUME NEW base \in Nat, NEW q, Loose(q, base), NEW f \in Frame, Size(f) <= q.room
  PROVE  /\ Loose(Push(q, f), base)
         /\ Push(q, f).frames # <<>> /\ Begun(Push(q, f)) = q.num + 1
         /\ Extends(q, Push(q, f), f.kind, f.lo, f.hi)
         /\ Push(q, f).room = q.room - Size(f)
  <1> DEFINE r   == Push(q, f)
             n   == Len(q.frames)
             new == [num |-> q.num, at |-> n + 1, frame |-> f]
  <1>1. q \in PacketizerState
    BY DEF Loose
  <1>2. n \in Nat /\ q.room - Size(f) \in Nat
    BY <1>1, StateFacts, SizeFacts
  <1>3. Append(q.frames, f) \in Seq(Frame)
    BY <1>1, StateFacts
  <1>4. /\ r.frames = Append(q.frames, f) /\ r.room = q.room - Size(f)
        /\ r.num = q.num /\ r.out = q.out
    BY <1>1 DEF Push, PacketizerState
  <1>5. r \in PacketizerState
    <2> DEFINE timers == IF q.frames = <<>> THEN q.timers + 1 ELSE q.timers
    <2>1. timers \in Nat
      BY <1>1, StateFacts
    <2>2. r = [q EXCEPT !.frames = Append(q.frames, f), !.room = q.room - Size(f), !.timers = timers]
      BY DEF Push
    <2> HIDE DEF timers, r
    <2> QED
      BY <1>1, <1>2, <1>3, <2>1, <2>2 DEF PacketizerState
  <1> HIDE DEF r
  <1>6. Len(r.frames) = n + 1 /\ r.frames[n + 1] = f /\ \A i \in 1..n : r.frames[i] = q.frames[i]
    BY <1>1, <1>4, StateFacts
  <1>7. Loose(r, base)
    <2>1. SizeOf(r.frames) = SizeOf(q.frames) + Size(f) /\ SizeOf(q.frames) \in Nat /\ Size(f) \in Nat
      BY <1>1, <1>4, StateFacts, SizeOfFacts, SizeFacts
    <2>2. r.room = PacketRoom - SizeOf(r.frames)
      BY <1>4, <2>1, Consts DEF Loose
    <2> QED
      BY <1>4, <1>5, <2>2 DEF Loose, Numbered
  <1>8. r.frames # <<>>
    BY <1>2, <1>6
  <1>9. new \in Entry
    BY <1>1, <1>2, StateFacts DEF Entry
  <1>10. \A e \in Entry : InPacket(e, r) <=> InPacket(e, q) \/ e = new
    <2>1. ASSUME NEW e \in Entry
          PROVE  InPacket(e, r) <=> InPacket(e, q) \/ e = new
      <3>1. /\ DOMAIN r.frames = 1..(n + 1) /\ DOMAIN q.frames = 1..n
        BY <1>1, <1>2, <1>5, <1>6, StateFacts
      <3>2. e = new <=> e.num = q.num /\ e.at = n + 1 /\ e.frame = f
        BY DEF Entry
      <3>3. CASE e.at = n + 1
        <4>1. ~ InPacket(e, q)
          BY <1>2, <3>1, <3>3 DEF InPacket
        <4>2. InPacket(e, r) <=> e.num = q.num /\ e.frame = f
          BY <1>2, <1>4, <1>6, <3>1, <3>3 DEF InPacket
        <4> QED
          BY <3>2, <3>3, <4>1, <4>2
      <3>4. CASE e.at # n + 1
        <4>1. e.at \in 1..(n + 1) <=> e.at \in 1..n
          BY <1>2, <3>4 DEF Entry
        <4>2. InPacket(e, r) <=> InPacket(e, q)
          BY <1>4, <1>6, <3>1, <4>1 DEF InPacket
        <4> QED
          BY <3>2, <3>4, <4>2
      <3> QED
        BY <3>3, <3>4
    <2> QED
      BY <2>1
  <1>11. \A e \in Entry : Holds(r, e) <=> Holds(q, e) \/ e = new
    <2> HIDE DEF new
    <2> QED
      BY <1>4, <1>10 DEF Holds
  <1>12. \A d \in Entry : Holds(q, d) => Before(d, new)
    <2>1. ASSUME NEW d \in Entry, InPacket(d, q)
          PROVE  Before(d, new)
      <3>1. d.at \in 1..n
        BY <1>1, <2>1, StateFacts DEF InPacket
      <3> QED
        BY <1>2, <2>1, <3>1 DEF InPacket, Before
    <2>2. ASSUME NEW d \in Entry, NEW i \in 1..Len(q.out), InPacket(d, q.out[i])
          PROVE  Before(d, new)
      <3>1. d.num = base + (i - 1) /\ q.num = base + Len(q.out) /\ Len(q.out) \in Nat
        BY <1>1, <2>2, StateFacts DEF InPacket, Loose, Numbered
      <3>2. d.num < q.num
        BY <3>1
      <3> QED
        BY <3>2 DEF Before
    <2> QED
      BY <2>1, <2>2 DEF Holds
  <1>13. ~ Holds(q, new)
    BY <1>1, <1>2, <1>9, <1>12, StateFacts DEF Before
  <1>14. f.lo < f.hi /\ f.lo \in Nat /\ f.hi \in Nat /\ new.frame = f
    BY SizeFacts
  <1>15. Extends(q, r, f.kind, f.lo, f.hi)
    <2> HIDE DEF new
    <2>1. \A e \in Entry : Holds(q, e) => Holds(r, e)
      BY <1>11
    <2>2. \A e \in Entry : Holds(r, e) /\ ~ Holds(q, e) <=> e = new
      BY <1>9, <1>11, <1>13
    <2> QED
      BY <1>9, <1>12, <1>14, <2>1, <2>2 DEF Extends
  <1>16. Begun(r) = q.num + 1
    BY <1>4, <1>8 DEF Begun
  <1> QED
    BY <1>4, <1>7, <1>8, <1>15, <1>16 DEF r

LEMMA ExtendsSame ==
  ASSUME NEW q, NEW s, NEW r, NEW t, NEW kind, NEW lo, NEW hi,
         \A e \in Entry : Holds(s, e) <=> Holds(q, e),
         \A e \in Entry : Holds(t, e) <=> Holds(r, e),
         Extends(s, r, kind, lo, hi)
  PROVE  Extends(q, t, kind, lo, hi)
  BY DEF Extends

LEMMA ExtendsTwice ==
  ASSUME NEW q, NEW s, NEW r, NEW kind, NEW lo \in Nat, NEW mid \in Nat, NEW hi \in Nat,
         lo <= mid, mid <= hi,
         Extends(q, s, kind, lo, mid), Extends(s, r, kind, mid, hi)
  PROVE  Extends(q, r, kind, lo, hi)
  <1>1. \A e \in Entry : /\ Holds(q, e) => Holds(s, e)
                         /\ Holds(s, e) => Holds(r, e)
    BY DEF Extends
  <1>2. \A e \in Entry : e.frame.lo \in Nat /\ e.frame.hi \in Nat /\ e.frame.lo < e.frame.hi
    BY SizeFacts DEF Entry
  <1>3. ASSUME NEW e \in Entry, Holds(r, e), ~ Holds(q, e)
        PROVE  /\ e.frame.kind = kind /\ lo <= e.frame.lo /\ e.frame.hi <= hi
               /\ \A d \in Entry : Holds(q, d) => Before(d, e)
               /\ \A d \in Entry : Holds(r, d) /\ ~ Holds(q, d) /\ d # e =>
                    \/ Before(d, e) /\ d.frame.hi <= e.frame.lo
                    \/ Before(e, d) /\ e.frame.hi <= d.frame.lo
    <2>1. CASE Holds(s, e)
      <3>1. e.frame.kind = kind /\ lo <= e.frame.lo /\ e.frame.hi <= mid
        BY <1>3, <2>1 DEF Extends
      <3>2. e.frame.hi <= hi
        BY <1>2, <3>1
      <3>3. \A d \in Entry : Holds(q, d) => Before(d, e)
        BY <1>3, <2>1 DEF Extends
      <3>4. ASSUME NEW d \in Entry, Holds(r, d), ~ Holds(q, d), d # e
            PROVE  \/ Before(d, e) /\ d.frame.hi <= e.frame.lo
                   \/ Before(e, d) /\ e.frame.hi <= d.frame.lo
        <4>1. CASE Holds(s, d)
          BY <1>3, <2>1, <3>4, <4>1 DEF Extends
        <4>2. CASE ~ Holds(s, d)
          <5>1. mid <= d.frame.lo /\ Before(e, d)
            BY <2>1, <3>4, <4>2 DEF Extends
          <5> QED
            BY <1>2, <3>1, <5>1
        <4> QED
          BY <4>1, <4>2
      <3> QED
        BY <3>1, <3>2, <3>3, <3>4
    <2>2. CASE ~ Holds(s, e)
      <3>1. e.frame.kind = kind /\ mid <= e.frame.lo /\ e.frame.hi <= hi
        BY <1>3, <2>2 DEF Extends
      <3>2. lo <= e.frame.lo
        BY <1>2, <3>1
      <3>3. \A d \in Entry : Holds(q, d) => Before(d, e)
        BY <1>1, <1>3, <2>2 DEF Extends
      <3>4. ASSUME NEW d \in Entry, Holds(r, d), ~ Holds(q, d), d # e
            PROVE  \/ Before(d, e) /\ d.frame.hi <= e.frame.lo
                   \/ Before(e, d) /\ e.frame.hi <= d.frame.lo
        <4>1. CASE Holds(s, d)
          <5>1. d.frame.hi <= mid
            BY <3>4, <4>1 DEF Extends
          <5>2. Before(d, e)
            BY <1>3, <2>2, <4>1 DEF Extends
          <5> QED
            BY <1>2, <3>1, <5>1, <5>2
        <4>2. CASE ~ Holds(s, d)
          BY <1>3, <2>2, <3>4, <4>2 DEF Extends
        <4> QED
          BY <4>1, <4>2
      <3> QED
        BY <3>1, <3>2, <3>3, <3>4
    <2> QED
      BY <2>1, <2>2
  <1>4. ASSUME NEW u \in Nat, lo <= u, u < hi
        PROVE  \E e \in Entry : Holds(r, e) /\ ~ Holds(q, e) /\ e.frame.lo <= u /\ u < e.frame.hi
    <2>1. CASE u < mid
      <3>1. PICK e \in Entry : Holds(s, e) /\ ~ Holds(q, e) /\ e.frame.lo <= u /\ u < e.frame.hi
        BY <1>4, <2>1 DEF Extends
      <3> QED
        BY <1>1, <3>1
    <2>2. CASE mid <= u
      <3>1. PICK e \in Entry : Holds(r, e) /\ ~ Holds(s, e) /\ e.frame.lo <= u /\ u < e.frame.hi
        BY <1>4, <2>2 DEF Extends
      <3> QED
        BY <1>1, <3>1
    <2> QED
      BY <2>1, <2>2
  <1> QED
    BY <1>1, <1>3, <1>4 DEF Extends

LEMMA InsertFacts ==
  ASSUME NEW base \in Nat, NEW q, Good(q, base), NEW f \in Frame, Size(f) <= PacketRoom
  PROVE  /\ Good(Insert(q, f), base)
         /\ Begun(Insert(q, f)) <= Begun(q) + 1
         /\ Extends(q, Insert(q, f), f.kind, f.lo, f.hi)
         /\ q.room = Size(f) => Insert(q, f).room = PacketRoom
  <1> DEFINE p == IF Size(f) > q.room THEN Flush(q) ELSE q
             s == Push(p, f)
             r == IF s.room < FullBelow THEN Flush(s) ELSE s
  <1>1. Loose(q, base) /\ q \in PacketizerState /\ q.room \in Nat /\ q.num \in Nat
    BY StateFacts DEF Good, Loose
  <1>2. Insert(q, f) = r
    BY DEF Insert
  <1>3. Size(f) \in Nat
    BY SizeFacts
  <1>4. /\ Loose(p, base) /\ Begun(p) = Begun(q) /\ Size(f) <= p.room
        /\ \A e \in Entry : Holds(p, e) <=> Holds(q, e)
    BY <1>1, <1>3, FlushFacts DEF Good
  <1>5. /\ Loose(s, base) /\ Begun(s) <= Begun(p) + 1
        /\ Extends(p, s, f.kind, f.lo, f.hi) /\ s.room = p.room - Size(f)
    <2>1. p \in PacketizerState
      BY <1>4 DEF Loose
    <2>2. p.num <= Begun(p) /\ p.num \in Nat /\ Begun(p) \in Nat
      BY <2>1, StateFacts DEF Begun
    <2> HIDE DEF p
    <2>3. /\ Loose(s, base) /\ Begun(s) = p.num + 1
          /\ Extends(p, s, f.kind, f.lo, f.hi) /\ s.room = p.room - Size(f)
      BY <1>4, PushFacts
    <2>4. p.num + 1 <= Begun(p) + 1
      BY <2>2
    <2> QED
      BY <2>3, <2>4
  <1>6. s \in PacketizerState
    BY <1>5 DEF Loose
  <1> HIDE DEF s
  <1>7. /\ Good(r, base) /\ Begun(r) = Begun(s)
        /\ \A e \in Entry : Holds(r, e) <=> Holds(s, e)
    <2>1. s.room \in Nat
      BY <1>6, StateFacts
    <2> QED
      BY <1>5, <2>1, FlushFacts, Consts DEF Good
  <1>8. Extends(q, r, f.kind, f.lo, f.hi)
    <2> HIDE DEF p, r
    <2> QED
      BY <1>4, <1>5, <1>7, ExtendsSame
  <1>9. q.room = Size(f) => r.room = PacketRoom
    <2>1. SUFFICES ASSUME q.room = Size(f) PROVE r.room = PacketRoom
      OBVIOUS
    <2>2. s.room = 0
      BY <1>1, <1>3, <1>5, <2>1
    <2>3. 0 < FullBelow
      BY Consts
    <2> QED
      BY <1>5, <2>2, <2>3, FlushFacts
  <1>10. Begun(r) <= Begun(q) + 1
    BY <1>4, <1>5, <1>7
  <1> HIDE DEF r
  <1> QED
    BY <1>2, <1>7, <1>8, <1>9, <1>10

\* What holds of the loop over the stream frame f: what was cut off so far is in
\* its packets, and unless the rest fits, each turn took a byte.
Fits(c) == ~ (DataHeader < c.pz.room /\ c.pz.room < Size(c.rest))

Cutting(c, q, f, base) ==
  /\ Good(c.pz, base)
  /\ c.rest \in Frame /\ c.rest.kind = "data" /\ c.rest.hi = f.hi /\ f.lo <= c.rest.lo
  /\ Begun(c.pz) <= Begun(q) + (c.rest.lo - f.lo)
  /\ Extends(q, c.pz, "data", f.lo, c.rest.lo)

LEMMA CutOffFacts ==
  ASSUME NEW base \in Nat, NEW q, Good(q, base), NEW f \in Frame, f.kind = "data",
         NEW c, Cutting(c, q, f, base), ~ Fits(c)
  PROVE  Cutting(CutOff(c), q, f, base) /\ c.rest.lo < CutOff(c).rest.lo
  <1> DEFINE part == c.pz.room - DataHeader
             mid  == c.rest.lo + part
             head == Data(c.rest.lo, mid)
             r    == Insert(c.pz, head)
  <1>1. /\ c.pz \in PacketizerState /\ c.pz.room \in Nat /\ c.pz.room <= PacketRoom
        /\ c.rest.lo \in Nat /\ c.rest.hi \in Nat /\ c.rest.lo < c.rest.hi
        /\ Size(c.rest) = DataHeader + (c.rest.hi - c.rest.lo)
        /\ f.lo \in Nat /\ f.hi \in Nat
    <2>1. c.pz \in PacketizerState /\ c.pz.room = PacketRoom - SizeOf(c.pz.frames)
      BY DEF Cutting, Good, Loose
    <2>2. c.pz.room \in Nat /\ SizeOf(c.pz.frames) \in Nat
      BY <2>1, StateFacts, SizeOfFacts
    <2>3. c.pz.room <= PacketRoom
      BY <2>1, <2>2, Consts
    <2> QED
      BY <2>1, <2>2, <2>3, SizeFacts DEF Cutting
  <1>2. DataHeader < c.pz.room /\ c.pz.room < Size(c.rest)
    BY DEF Fits
  <1>3. mid \in Nat /\ c.rest.lo < mid /\ mid < c.rest.hi
    BY <1>1, <1>2, Consts
  <1>4. /\ head \in Frame /\ head.kind = "data" /\ head.lo = c.rest.lo /\ head.hi = mid
        /\ Data(mid, c.rest.hi) \in Frame /\ Data(mid, c.rest.hi).kind = "data"
        /\ Data(mid, c.rest.hi).lo = mid /\ Data(mid, c.rest.hi).hi = c.rest.hi
    <2>1. \A lo, hi, m \in Nat : lo < m /\ m < hi =>
            /\ Data(lo, m) \in Frame /\ Data(lo, m).kind = "data"
            /\ Data(lo, m).lo = lo /\ Data(lo, m).hi = m
            /\ Data(m, hi) \in Frame /\ Data(m, hi).kind = "data"
            /\ Data(m, hi).lo = m /\ Data(m, hi).hi = hi
      BY FrameFacts
    <2> HIDE DEF mid, part
    <2> QED
      BY <1>1, <1>3, <2>1
  <1>5. CutOff(c) = [pz |-> r, rest |-> Data(mid, c.rest.hi)]
    BY <1>2 DEF CutOff
  <1>6. CutOff(c).pz = r /\ CutOff(c).rest = Data(mid, c.rest.hi)
    BY <1>5
  <1>7. Size(head) = DataHeader + (mid - c.rest.lo)
    BY <1>4, SizeFacts
  <1>8. Size(head) <= PacketRoom
    BY <1>1, <1>3, <1>7, Consts
  <1> HIDE DEF mid, head, part
  <1>9. /\ Good(r, base) /\ Begun(r) <= Begun(c.pz) + 1
        /\ Extends(c.pz, r, "data", c.rest.lo, mid)
    <2>1. Good(c.pz, base)
      BY DEF Cutting
    <2> QED
      BY <1>4, <1>8, <2>1, InsertFacts
  <1>10. f.lo <= c.rest.lo /\ Begun(c.pz) <= Begun(q) + (c.rest.lo - f.lo)
         /\ Extends(q, c.pz, "data", f.lo, c.rest.lo)
    BY DEF Cutting
  <1>11. Extends(q, r, "data", f.lo, mid)
    <2>1. c.rest.lo <= mid
      BY <1>1, <1>3
    <2> HIDE DEF r
    <2> QED
      BY <1>1, <1>3, <1>9, <1>10, <2>1, ExtendsTwice
  <1>12. Begun(r) \in Nat /\ Begun(c.pz) \in Nat /\ Begun(q) \in Nat
    <2>1. r \in PacketizerState /\ q \in PacketizerState
      BY <1>9 DEF Good, Loose
    <2> QED
      BY <1>1, <2>1, StateFacts
  <1>13. Begun(r) <= Begun(q) + (mid - f.lo)
    <2> HIDE DEF r
    <2> QED
      BY <1>1, <1>3, <1>9, <1>10, <1>12
  <1>14. f.lo <= mid /\ c.rest.hi = f.hi
    BY <1>1, <1>3, <1>10 DEF Cutting
  <1> HIDE DEF r
  <1> QED
    BY <1>3, <1>4, <1>6, <1>9, <1>11, <1>13, <1>14 DEF Cutting

\* The turns of a loop, from c on.
Turns(c, n, g) == g = [i \in 0..n |-> IF i = 0 THEN c ELSE CutOff(g[i - 1])]

LEMMA TurnsFacts ==
  ASSUME NEW c, NEW n \in Nat, NEW g, Turns(c, n, g)
  PROVE  g[0] = c /\ \A i \in 1..n : g[i] = CutOff(g[i - 1])
  <1>1. \A i \in 0..n : g[i] = IF i = 0 THEN c ELSE CutOff(g[i - 1])
    <2>1. \A h : g = [i \in 0..n |-> IF i = 0 THEN c ELSE CutOff(h[i - 1])]
                   => \A i \in 0..n : g[i] = IF i = 0 THEN c ELSE CutOff(h[i - 1])
      OBVIOUS
    <2> QED
      BY <2>1, Zenon DEF Turns
  <1> QED
    BY <1>1

LEMMA TurnsExist ==
  ASSUME NEW c, NEW n \in Nat
  PROVE  \E g : Turns(c, n, g)
  <1> DEFINE Without == { m \in Nat : ~ \E g : Turns(c, m, g) }
  <1>1. SUFFICES ASSUME Without # {} PROVE FALSE
    OBVIOUS
  <1>2. PICK m \in Without : \A k \in Without : m <= k
    <2>1. Without \in SUBSET Nat
      OBVIOUS
    <2> HIDE DEF Without
    <2> QED
      BY <1>1, <2>1, B!LeastElement
  <1>3. m # 0
    <2>1. Turns(c, 0, [i \in 0..0 |-> c])
      BY DEF Turns
    <2> QED
      BY <2>1
  <1>4. m \in Nat /\ m - 1 \in Nat /\ m - 1 \notin Without
    BY <1>2, <1>3
  <1>5. PICK g : Turns(c, m - 1, g)
    BY <1>4
  <1> DEFINE h == [i \in 0..m |-> IF i = m THEN CutOff(g[m - 1]) ELSE g[i]]
  <1>6. g[0] = c /\ \A i \in 1..(m - 1) : g[i] = CutOff(g[i - 1])
    BY <1>4, <1>5, TurnsFacts
  <1>7. \A i \in 0..m : h[i] = IF i = 0 THEN c ELSE CutOff(h[i - 1])
    BY <1>3, <1>4, <1>6
  <1>8. Turns(c, m, h)
    <2>1. h = [i \in 0..m |-> h[i]]
      OBVIOUS
    <2>2. [i \in 0..m |-> h[i]] = [i \in 0..m |-> IF i = 0 THEN c ELSE CutOff(h[i - 1])]
      <3> HIDE DEF h
      <3> QED
        BY <1>7
    <2> HIDE DEF h
    <2> QED
      BY <2>1, <2>2, Zenon DEF Turns
  <1> QED
    BY <1>8

LEMMA InsertDataFacts ==
  ASSUME NEW base \in Nat, NEW q, Good(q, base), NEW f \in Frame, f.kind = "data"
  PROVE  /\ Good(InsertData(q, f), base)
         /\ Begun(InsertData(q, f)) <= Begun(q) + (f.hi - f.lo)
         /\ Extends(q, InsertData(q, f), "data", f.lo, f.hi)
  <1> DEFINE n     == f.hi - f.lo
             start == [pz |-> q, rest |-> f]
             after == CHOOSE g : Turns(start, n, g)
             Reached(i) == Cutting(after[i], q, f, base)
                           /\ (Fits(after[i]) \/ f.lo + i <= after[i].rest.lo)
             end   == after[n]
  <1>1. f.lo \in Nat /\ f.hi \in Nat /\ n \in Nat
    BY SizeFacts
  <1>2. InsertData(q, f) = Insert(end.pz, end.rest)
    BY Zenon DEF InsertData, Turns
  <1>3. Turns(start, n, after)
    <2> HIDE DEF start, n
    <2> QED
      BY <1>1, TurnsExist, Zenon
  <1>4. after[0] = start /\ \A i \in 1..n : after[i] = CutOff(after[i - 1])
    <2> HIDE DEF start, n, after
    <2> QED
      BY <1>1, <1>3, TurnsFacts
  <1> HIDE DEF after
  <1>5. Reached(0)
    <2>1. start.pz = q /\ start.rest = f
      OBVIOUS
    <2>2. Extends(q, q, "data", f.lo, f.lo)
      BY <1>1 DEF Extends
    <2>3. q \in PacketizerState
      BY DEF Good, Loose
    <2>4. Begun(q) <= Begun(q) + (f.lo - f.lo) /\ f.lo <= f.lo /\ f.lo + 0 <= f.lo
      BY <1>1, <2>3, StateFacts
    <2> QED
      BY <1>4, <2>1, <2>2, <2>4 DEF Cutting
  <1>6. \A i \in 0..n : Reached(i)
    <2> DEFINE Others == { i \in 0..n : ~ Reached(i) }
    <2>1. SUFFICES ASSUME Others # {} PROVE FALSE
      OBVIOUS
    <2>2. PICK i \in Others : \A j \in Others : i <= j
      <3>1. Others \in SUBSET Nat
        OBVIOUS
      <3> HIDE DEF Others
      <3> QED
        BY <2>1, <3>1, B!LeastElement
    <2>3. i # 0
      BY <1>5
    <2>4. i \in 1..n /\ i - 1 \in 0..n /\ i \in Nat
      BY <1>1, <2>3
    <2>5. Reached(i - 1)
      <3>1. ~ (i <= i - 1)
        BY <2>4
      <3>2. i - 1 \notin Others
        BY <2>2, <3>1
      <3> QED
        BY <2>4, <3>2
    <2>6. after[i] = CutOff(after[i - 1])
      BY <1>4, <2>4
    <2> DEFINE c == after[i - 1]
    <2>7. CASE Fits(c)
      <3>1. CutOff(c) = c
        BY <2>7 DEF CutOff, Fits
      <3> QED
        BY <2>5, <2>6, <2>7, <3>1
    <2>8. CASE ~ Fits(c)
      <3>1. Cutting(c, q, f, base) /\ f.lo + (i - 1) <= c.rest.lo
        BY <2>5, <2>8
      <3>2. Cutting(after[i], q, f, base) /\ c.rest.lo < after[i].rest.lo
        <4> HIDE DEF c
        <4>1. Cutting(CutOff(c), q, f, base) /\ c.rest.lo < CutOff(c).rest.lo
          BY <2>8, <3>1, CutOffFacts
        <4> QED
          BY <2>6, <4>1 DEF c
      <3>3. c.rest.lo \in Nat /\ after[i].rest.lo \in Nat
        <4>1. c.rest \in Frame /\ after[i].rest \in Frame
          BY <3>1, <3>2 DEF Cutting
        <4> QED
          BY <4>1, SizeFacts
      <3>4. \A a, b \in Nat : f.lo + (i - 1) <= a /\ a < b => f.lo + i <= b
        BY <1>1, <2>4
      <3> QED
        BY <3>1, <3>2, <3>3, <3>4
    <2> QED
      BY <2>7, <2>8
  <1>7. n \in 0..n
    BY <1>1
  <1>8. Reached(n)
    BY <1>6, <1>7
  <1>9. Cutting(end, q, f, base)
    BY <1>8
  <1>10. /\ end.pz \in PacketizerState /\ Good(end.pz, base) /\ end.rest \in Frame
         /\ end.rest.kind = "data" /\ end.rest.hi = f.hi /\ f.lo <= end.rest.lo
         /\ end.rest.lo \in Nat /\ end.rest.lo < f.hi
         /\ Begun(end.pz) <= Begun(q) + (end.rest.lo - f.lo)
         /\ Extends(q, end.pz, "data", f.lo, end.rest.lo)
    <2>1. end.rest \in Frame
      BY <1>9 DEF Cutting
    <2> QED
      BY <1>9, <2>1, SizeFacts DEF Cutting, Good, Loose
  <1> HIDE DEF end
  <1>11. Fits(end)
    <2>1. f.lo + n = f.hi
      BY <1>1
    <2>2. ~ (f.hi <= end.rest.lo)
      BY <1>1, <1>10
    <2> QED
      BY <1>8, <2>1, <2>2 DEF end
  <1>12. Size(end.rest) <= PacketRoom
    <2>1. end.pz.room = PacketRoom - SizeOf(end.pz.frames) /\ FullBelow <= end.pz.room
      BY <1>10 DEF Good, Loose
    <2>2. SizeOf(end.pz.frames) \in Nat /\ end.pz.room \in Nat /\ Size(end.rest) \in Nat
      BY <1>10, StateFacts, SizeOfFacts, SizeFacts
    <2>3. ~ (end.pz.room < Size(end.rest))
      BY <1>11, <2>1, <2>2, Consts DEF Fits
    <2> QED
      BY <2>1, <2>2, <2>3, Consts
  <1> DEFINE r == Insert(end.pz, end.rest)
  <1>13. /\ Good(r, base) /\ Begun(r) <= Begun(end.pz) + 1
         /\ Extends(end.pz, r, "data", end.rest.lo, f.hi)
    BY <1>10, <1>12, InsertFacts
  <1> HIDE DEF r
  <1>14. Extends(q, r, "data", f.lo, f.hi)
    <2>1. end.rest.lo <= f.hi
      BY <1>1, <1>10
    <2> QED
      BY <1>1, <1>10, <1>13, <2>1, ExtendsTwice
  <1>15. Begun(r) <= Begun(q) + (f.hi - f.lo)
    <2>1. r \in PacketizerState /\ q \in PacketizerState
      BY <1>13 DEF Good, Loose
    <2>2. Begun(r) \in Nat /\ Begun(q) \in Nat /\ Begun(end.pz) \in Nat
      BY <1>10, <2>1, StateFacts
    <2> QED
      BY <1>1, <1>10, <1>13, <2>2
  <1> QED
    BY <1>2, <1>13, <1>14, <1>15 DEF r

LEMMA SendFrameFacts ==
  ASSUME NEW base \in Nat, NEW q, Good(q, base), NEW f \in Frame
  PROVE  /\ Good(SendFrame(q, f), base)
         /\ Begun(SendFrame(q, f)) <= Begun(q) + (f.hi - f.lo)
         /\ Extends(q, SendFrame(q, f), f.kind, f.lo, f.hi)
  <1>1. CASE f.kind = "data"
    <2>1. SendFrame(q, f) = InsertData(q, f)
      BY <1>1 DEF SendFrame
    <2> QED
      BY <1>1, <2>1, InsertDataFacts
  <1>2. CASE f.kind # "data"
    <2> DEFINE s == Insert(q, f)
    <2>1. Size(f) <= PacketRoom /\ f.kind \in {"empty", "limit", "ack"} /\ f.hi - f.lo \in Nat /\ 1 <= f.hi - f.lo
      BY <1>2, SizeFacts DEF Kinds
    <2>2. Good(s, base) /\ Begun(s) <= Begun(q) + 1 /\ Extends(q, s, f.kind, f.lo, f.hi)
      BY <2>1, InsertFacts
    <2> HIDE DEF s
    <2>3. Loose(s, base) /\ Begun(s) \in Nat /\ Begun(q) \in Nat
      BY <2>2, StateFacts DEF Good, Loose
    <2>4. /\ Good(Flush(s), base) /\ Begun(Flush(s)) = Begun(s)
          /\ \A e \in Entry : Holds(Flush(s), e) <=> Holds(s, e)
      BY <2>3, FlushFacts
    <2>5. Extends(q, Flush(s), f.kind, f.lo, f.hi)
      BY <2>2, <2>4, ExtendsSame
    <2>6. Begun(s) <= Begun(q) + (f.hi - f.lo)
      BY <2>1, <2>2, <2>3
    <2>7. SendFrame(q, f) = s \/ SendFrame(q, f) = Flush(s)
      BY <2>1 DEF SendFrame, s
    <2> QED
      BY <2>2, <2>4, <2>5, <2>6, <2>7
  <1> QED
    BY <1>1, <1>2

(***************************************************************************)
(* The packets of the Packetizer and those given to the network.           *)
(***************************************************************************)
\* The packets given to the network have the numbers below `base`.
SentOK(s, base) ==
  /\ s \subseteq Packet /\ IsFiniteSet(s) /\ Cardinality(s) = base
  /\ \A p \in s : p.num < base /\ p.frames # <<>> /\ SizeOf(p.frames) <= PacketRoom
  /\ \A p, o \in s : p.num = o.num => p = o
  /\ \A n \in Nat : n < base => \E p \in s : p.num = n

Present(q, s, e) == Holds(q, e) \/ \E p \in s : InPacket(e, p)

PackedFor(q, s, counts) ==
  /\ \A d, e \in Entry :
       Present(q, s, d) /\ Present(q, s, e) /\ d # e /\ d.frame.kind = e.frame.kind =>
         \/ Before(d, e) /\ d.frame.hi <= e.frame.lo
         \/ Before(e, d) /\ e.frame.hi <= d.frame.lo
  /\ \A e \in Entry : Present(q, s, e) => e.frame.hi <= counts[e.frame.kind]
  /\ \A kind \in Kinds : \A u \in Nat : u < counts[kind] =>
       \E e \in Entry : /\ Present(q, s, e) /\ e.frame.kind = kind
                        /\ e.frame.lo <= u /\ u < e.frame.hi

LEMMA EntryFacts ==
  ASSUME NEW e \in Entry
  PROVE  /\ e.num \in Nat /\ e.at \in Nat /\ e.frame \in Frame
         /\ e.frame.lo \in Nat /\ e.frame.hi \in Nat /\ e.frame.lo < e.frame.hi
         /\ e.frame.kind \in Kinds
  BY SizeFacts DEF Entry

LEMMA HeldLater ==
  ASSUME NEW base \in Nat, NEW q, Good(q, base), NEW e \in Entry, Holds(q, e)
  PROVE  base <= e.num
  <1>1. Len(q.out) \in Nat /\ q.num = base + Len(q.out)
    BY StateFacts DEF Good, Loose, Numbered
  <1>2. CASE InPacket(e, q)
    BY <1>1, <1>2 DEF InPacket
  <1>3. CASE \E i \in 1..Len(q.out) : InPacket(e, q.out[i])
    BY <1>1, <1>3 DEF InPacket, Good, Loose, Numbered
  <1> QED
    BY <1>2, <1>3 DEF Holds

LEMMA PackedMore ==
  ASSUME NEW base \in Nat, NEW q, Good(q, base), NEW r, Good(r, base),
         NEW s, SentOK(s, base), NEW counts, PackedFor(q, s, counts),
         NEW kind \in Kinds, NEW hi \in Nat, counts[kind] \in Nat, counts[kind] <= hi,
         Extends(q, r, kind, counts[kind], hi),
         NEW more, more[kind] = hi, \A k \in Kinds : k # kind => more[k] = counts[k]
  PROVE  PackedFor(r, s, more)
  <1> DEFINE New(e) == Holds(r, e) /\ ~ Holds(q, e)
             lo     == counts[kind]
  <1>1. \A e \in Entry : Present(r, s, e) <=> Present(q, s, e) \/ New(e)
    BY DEF Extends, Present
  <1>2. ASSUME NEW e \in Entry, New(e)
        PROVE  /\ e.frame.kind = kind /\ lo <= e.frame.lo /\ e.frame.hi <= hi
               /\ \A d \in Entry : Present(q, s, d) => Before(d, e)
    <2>1. e.frame.kind = kind /\ lo <= e.frame.lo /\ e.frame.hi <= hi
      BY <1>2 DEF Extends
    <2>2. ASSUME NEW d \in Entry, Holds(q, d) PROVE Before(d, e)
      BY <1>2, <2>2 DEF Extends
    <2>3. ASSUME NEW d \in Entry, NEW p \in s, InPacket(d, p) PROVE Before(d, e)
      <3>1. base <= e.num
        BY <1>2, HeldLater
      <3>2. d.num < base
        BY <2>3 DEF SentOK, InPacket
      <3> QED
        BY <3>1, <3>2, EntryFacts DEF Before
    <2> QED
      BY <2>1, <2>2, <2>3 DEF Present
  <1>3. ASSUME NEW d \in Entry, NEW e \in Entry, Present(r, s, d), Present(r, s, e),
               d # e, d.frame.kind = e.frame.kind
        PROVE  \/ Before(d, e) /\ d.frame.hi <= e.frame.lo
               \/ Before(e, d) /\ e.frame.hi <= d.frame.lo
    <2>1. CASE New(d) /\ New(e)
      BY <1>3, <2>1 DEF Extends
    <2>2. CASE ~ New(d) /\ ~ New(e)
      BY <1>1, <1>3, <2>2 DEF PackedFor
    <2>3. CASE ~ New(d) /\ New(e)
      <3>1. Present(q, s, d) /\ Before(d, e) /\ lo <= e.frame.lo /\ d.frame.kind = kind
        BY <1>1, <1>2, <1>3, <2>3
      <3>2. d.frame.hi <= lo
        BY <3>1 DEF PackedFor
      <3> HIDE DEF New
      <3> QED
        BY <3>1, <3>2, EntryFacts
    <2>4. CASE New(d) /\ ~ New(e)
      <3>1. Present(q, s, e) /\ Before(e, d) /\ lo <= d.frame.lo /\ e.frame.kind = kind
        BY <1>1, <1>2, <1>3, <2>4
      <3>2. e.frame.hi <= lo
        BY <3>1 DEF PackedFor
      <3> HIDE DEF New
      <3> QED
        BY <3>1, <3>2, EntryFacts
    <2> QED
      BY <2>1, <2>2, <2>3, <2>4
  <1>4. ASSUME NEW e \in Entry, Present(r, s, e)
        PROVE  e.frame.hi <= more[e.frame.kind]
    <2>1. CASE New(e)
      BY <1>2, <2>1
    <2>2. CASE ~ New(e)
      <3>1. e.frame.hi <= counts[e.frame.kind]
        BY <1>1, <1>4, <2>2 DEF PackedFor
      <3>2. e.frame.hi \in Nat /\ e.frame.kind \in Kinds
        BY EntryFacts
      <3>3. e.frame.kind = kind => e.frame.hi <= hi
        BY <3>1, <3>2
      <3> QED
        BY <3>1, <3>2, <3>3
    <2> QED
      BY <2>1, <2>2
  <1>5. ASSUME NEW k \in Kinds, NEW u \in Nat, u < more[k]
        PROVE  \E e \in Entry : /\ Present(r, s, e) /\ e.frame.kind = k
                                /\ e.frame.lo <= u /\ u < e.frame.hi
    <2>1. CASE u < counts[k]
      <3>1. PICK e \in Entry : /\ Present(q, s, e) /\ e.frame.kind = k
                               /\ e.frame.lo <= u /\ u < e.frame.hi
        BY <2>1 DEF PackedFor
      <3> QED
        BY <1>1, <3>1
    <2>2. CASE ~ (u < counts[k])
      <3>1. k = kind /\ lo <= u /\ u < hi
        BY <1>5, <2>2
      <3>2. PICK e \in Entry : New(e) /\ e.frame.lo <= u /\ u < e.frame.hi
        BY <3>1 DEF Extends
      <3> QED
        BY <1>1, <1>2, <3>1, <3>2
    <2> QED
      BY <2>1, <2>2
  <1> QED
    BY <1>3, <1>4, <1>5 DEF PackedFor

LEMMA PackedSame ==
  ASSUME NEW q, NEW s, NEW r, NEW t, NEW counts, PackedFor(q, s, counts),
         \A e \in Entry : Present(r, t, e) <=> Present(q, s, e)
  PROVE  PackedFor(r, t, counts)
  BY DEF PackedFor

\* Sender takes the first packet that waits.
LEMMA TakeFacts ==
  ASSUME NEW base \in Nat, NEW q, Good(q, base), NEW s, SentOK(s, base), q.out # <<>>,
         NEW r, r = [q EXCEPT !.out = Tail(q.out)]
  PROVE  /\ Head(q.out) \in Packet /\ Head(q.out).num = base
         /\ Good(r, base + 1) /\ Begun(r) = Begun(q)
         /\ SentOK(s \union {Head(q.out)}, base + 1)
         /\ \A e \in Entry : Present(r, s \union {Head(q.out)}, e) <=> Present(q, s, e)
  <1> DEFINE p == Head(q.out)
             n == Len(q.out)
  <1>1. q \in PacketizerState
    BY DEF Good, Loose
  <1>2. q.out \in Seq(Packet) /\ n \in Nat /\ n # 0
    BY <1>1, StateFacts
  <1>3. p = q.out[1] /\ 1 \in 1..n
    BY <1>2
  <1>4. /\ p \in Packet /\ p.num = base
        /\ p.frames # <<>> /\ SizeOf(p.frames) <= PacketRoom
    <2>1. q.out[1] \in Packet
      BY <1>2, <1>3
    <2>2. base + (1 - 1) = base
      OBVIOUS
    <2> QED
      BY <1>3, <2>1, <2>2 DEF Good, Loose, Numbered
  <1>5. /\ Tail(q.out) \in Seq(Packet) /\ Len(Tail(q.out)) = n - 1
        /\ \A i \in 1..(n - 1) : Tail(q.out)[i] = q.out[i + 1]
    BY <1>2
  <1>6. /\ r.frames = q.frames /\ r.room = q.room /\ r.num = q.num /\ r.out = Tail(q.out)
        /\ r \in PacketizerState
    BY <1>1, <1>5 DEF PacketizerState
  <1>7. Good(r, base + 1)
    <2>1. r.num = (base + 1) + Len(r.out)
      BY <1>2, <1>5, <1>6 DEF Good, Loose, Numbered
    <2>2. ASSUME NEW i \in 1..Len(r.out)
          PROVE  /\ r.out[i].num = (base + 1) + (i - 1)
                 /\ r.out[i].frames # <<>> /\ SizeOf(r.out[i].frames) <= PacketRoom
      <3>1. i + 1 \in 1..n /\ r.out[i] = q.out[i + 1]
        BY <1>2, <1>5, <1>6
      <3>2. base + ((i + 1) - 1) = (base + 1) + (i - 1)
        OBVIOUS
      <3>3. /\ q.out[i + 1].num = base + ((i + 1) - 1)
            /\ q.out[i + 1].frames # <<>> /\ SizeOf(q.out[i + 1].frames) <= PacketRoom
        BY <3>1 DEF Good, Loose, Numbered
      <3> QED
        BY <3>1, <3>2, <3>3
    <2> QED
      BY <1>6, <2>1, <2>2 DEF Good, Loose, Numbered
  <1>8. Begun(r) = Begun(q)
    BY <1>6 DEF Begun
  <1>9. SentOK(s \union {p}, base + 1)
    <2> HIDE DEF p
    <2>1. p \notin s /\ \A o \in s : o.num # p.num /\ o.num \in Nat /\ o.num < base
      BY <1>4 DEF SentOK, Packet
    <2>2. IsFiniteSet(s \union {p}) /\ Cardinality(s \union {p}) = base + 1
      BY <2>1, FS_AddElement DEF SentOK
    <2>3. \A o \in s \union {p} : o.num < base + 1 /\ o.frames # <<>> /\ SizeOf(o.frames) <= PacketRoom
      BY <1>4, <2>1 DEF SentOK
    <2>4. \A o, m \in s \union {p} : o.num = m.num => o = m
      BY <2>1 DEF SentOK
    <2>5. ASSUME NEW k \in Nat, k < base + 1 PROVE \E o \in s \union {p} : o.num = k
      <3>1. k = base \/ k < base
        BY <2>5
      <3> QED
        BY <1>4, <3>1 DEF SentOK
    <2> QED
      BY <1>4, <2>2, <2>3, <2>4, <2>5 DEF SentOK
  <1>10. ASSUME NEW e \in Entry
         PROVE  Present(r, s \union {p}, e) <=> Present(q, s, e)
    <2>1. InPacket(e, r) <=> InPacket(e, q)
      BY <1>6 DEF InPacket
    <2>2. (\E i \in 1..Len(q.out) : InPacket(e, q.out[i]))
            <=> InPacket(e, p) \/ \E i \in 1..Len(r.out) : InPacket(e, r.out[i])
      <3>1. ASSUME NEW i \in 1..Len(q.out), InPacket(e, q.out[i])
            PROVE  InPacket(e, p) \/ \E j \in 1..Len(r.out) : InPacket(e, r.out[j])
        <4>1. CASE i = 1
          BY <1>3, <3>1, <4>1
        <4>2. CASE i # 1
          <5>1. i - 1 \in 1..(n - 1) /\ (i - 1) + 1 = i
            BY <1>2, <4>2
          <5>2. i - 1 \in 1..Len(r.out) /\ r.out[i - 1] = q.out[i]
            BY <1>5, <1>6, <5>1
          <5> QED
            BY <3>1, <5>2
        <4> QED
          BY <4>1, <4>2
      <3>2. ASSUME NEW j \in 1..Len(r.out), InPacket(e, r.out[j])
            PROVE  \E i \in 1..Len(q.out) : InPacket(e, q.out[i])
        <4>1. j + 1 \in 1..n /\ r.out[j] = q.out[j + 1]
          BY <1>2, <1>5, <1>6
        <4> QED
          BY <3>2, <4>1
      <3> QED
        BY <1>3, <3>1, <3>2
    <2>3. (\E o \in s \union {p} : InPacket(e, o)) <=> InPacket(e, p) \/ \E o \in s : InPacket(e, o)
      OBVIOUS
    <2> QED
      BY <2>1, <2>2, <2>3 DEF Present, Holds
  <1> QED
    BY <1>4, <1>7, <1>8, <1>9, <1>10

(***************************************************************************)
(* Congestion control.                                                     *)
(***************************************************************************)
CongestionState ==
  [window : Nat, ssthresh : Nat \union {Unlimited}, recovery : Nat, bytesAcked : Nat]

\* When `total` bytes were acknowledged.  What was counted for the next growth
\* of the window (bytesAcked) is not in the growth so far.
CongestionFor(c, total, base) ==
  /\ c \in CongestionState /\ c.recovery <= base /\ MinimumWindow <= c.window
  /\ c.bytesAcked <= total
  /\ c.ssthresh = Unlimited => c.recovery = 0 /\ c.window = InitialWindow + total
  /\ c.ssthresh # Unlimited =>
       /\ c.ssthresh <= c.window
       /\ (c.window - c.ssthresh) * c.ssthresh + Mtu * c.bytesAcked <= Mtu * total

LEMMA OnAckFacts ==
  ASSUME NEW base \in Nat, NEW total \in Nat, NEW c, CongestionFor(c, total, base),
         NEW num \in Nat, NEW bytes \in Nat
  PROVE  /\ CongestionFor(OnAck(c, num, bytes), total + bytes, base)
         /\ c.window <= OnAck(c, num, bytes).window
  <1> DEFINE r == OnAck(c, num, bytes)
  <1>1. /\ c \in CongestionState /\ c.window \in Nat /\ c.recovery \in Nat /\ c.bytesAcked \in Nat
        /\ c.ssthresh = Unlimited \/ c.ssthresh \in Nat
    BY DEF CongestionFor, CongestionState
  <1>2. \A a, b \in Nat : a <= b => Mtu * a <= Mtu * b
    BY Consts
  <1>3. /\ Mtu * total \in Nat /\ Mtu * bytes \in Nat /\ Mtu * (total + bytes) = Mtu * total + Mtu * bytes
    BY Consts
  <1>4. CASE num < c.recovery
    <2>1. r = c /\ c.ssthresh # Unlimited
      BY <1>1, <1>4 DEF OnAck, CongestionFor
    <2>2. c.bytesAcked <= total + bytes
      BY <1>1 DEF CongestionFor
    <2>3. (c.window - c.ssthresh) * c.ssthresh + Mtu * c.bytesAcked <= Mtu * total
      BY <2>1 DEF CongestionFor
    <2>4. (c.window - c.ssthresh) * c.ssthresh + Mtu * c.bytesAcked \in Int
      BY <1>1, <2>1, Consts
    <2>5. (c.window - c.ssthresh) * c.ssthresh + Mtu * c.bytesAcked <= Mtu * (total + bytes)
      <3>1. \A x, y, z \in Int : x <= y /\ z \in Nat => x <= y + z
        OBVIOUS
      <3> QED
        BY <1>3, <2>3, <2>4, <3>1
    <2>6. c.window <= c.window
      BY <1>1
    <2> QED
      BY <2>1, <2>2, <2>5, <2>6 DEF CongestionFor
  <1>5. CASE num >= c.recovery /\ SlowStart(c)
    <2>1. c.ssthresh = Unlimited
      BY <1>1, <1>5 DEF SlowStart, CongestionFor
    <2>2. ~ (num < c.recovery)
      BY <1>1, <1>5
    <2>3. r = [c EXCEPT !.window = c.window + bytes, !.bytesAcked = c.bytesAcked]
      BY <1>5, <2>1, <2>2 DEF OnAck
    <2>4. /\ r.window = c.window + bytes /\ r.bytesAcked = c.bytesAcked
          /\ r.ssthresh = c.ssthresh /\ r.recovery = c.recovery /\ r \in CongestionState
      <3>1. c.window + bytes \in Nat
        BY <1>1
      <3> QED
        BY <1>1, <2>3, <3>1 DEF CongestionState
    <2> HIDE DEF r
    <2>5. MinimumWindow <= r.window /\ c.window <= r.window
      BY <1>1, <2>4, Consts DEF CongestionFor, MinimumWindow
    <2>6. r.bytesAcked <= total + bytes /\ r.window = InitialWindow + (total + bytes)
      BY <1>1, <2>1, <2>4, Consts DEF CongestionFor
    <2>7. CongestionFor(r, total + bytes, base)
      BY <2>1, <2>4, <2>5, <2>6 DEF CongestionFor
    <2> QED
      BY <2>5, <2>7 DEF r
  <1>6. CASE ~ (num < c.recovery) /\ ~ SlowStart(c)
    <2> DEFINE s   == c.ssthresh
               sum == c.bytesAcked + bytes
               grown == (c.window - s) * s
    <2>1. s # Unlimited /\ s \in Nat
      BY <1>1, <1>6 DEF SlowStart
    <2>2. s <= c.window /\ grown + Mtu * c.bytesAcked <= Mtu * total /\ grown \in Int
      BY <1>1, <2>1 DEF CongestionFor
    <2>3. Mtu * c.bytesAcked \in Nat /\ Mtu * sum = Mtu * c.bytesAcked + Mtu * bytes
      BY <1>1, Consts
    <2>4. grown + Mtu * sum <= Mtu * (total + bytes)
      <3> HIDE DEF grown, sum
      <3> QED
        BY <1>3, <2>2, <2>3
    <2>5. c.bytesAcked <= total /\ sum \in Nat /\ sum <= total + bytes
      BY <1>1 DEF CongestionFor
    <2>6. CASE sum >= c.window
      <3>1. r = [c EXCEPT !.bytesAcked = sum - c.window, !.window = c.window + Mtu]
        BY <1>1, <1>6, <2>6 DEF OnAck
      <3>2. sum - c.window \in Nat /\ c.window + Mtu \in Nat
        BY <1>1, <2>5, <2>6, Consts
      <3>3. /\ r.window = c.window + Mtu /\ r.bytesAcked = sum - c.window
            /\ r.ssthresh = s /\ r.recovery = c.recovery /\ r \in CongestionState
        <4> HIDE DEF sum
        <4> QED
          BY <1>1, <3>1, <3>2 DEF CongestionState
      <3> HIDE DEF r
      <3>4. (r.window - s) * s = grown + Mtu * s
        BY <1>1, <2>1, <3>3, Consts
      <3>5. Mtu * r.bytesAcked = Mtu * sum - Mtu * c.window
        <4> HIDE DEF sum
        <4> QED
          BY <1>1, <2>5, <3>3, Consts
      <3>6. Mtu * s <= Mtu * c.window /\ Mtu * s \in Nat /\ Mtu * c.window \in Nat /\ Mtu * sum \in Nat
        <4>1. Mtu \in Nat /\ s \in Nat /\ c.window \in Nat /\ sum \in Nat /\ s <= c.window
          BY <1>1, <2>1, <2>2, <2>5, Consts
        <4> HIDE DEF s, sum
        <4> QED
          BY <1>2, <4>1
      <3>7. (r.window - s) * s + Mtu * r.bytesAcked <= Mtu * (total + bytes)
        <4>1. Mtu * (total + bytes) \in Nat
          BY Consts
        <4>2. \A g, ms, mw, b, t \in Int : g + b <= t /\ ms <= mw => (g + ms) + (b - mw) <= t
          OBVIOUS
        <4> HIDE DEF grown, sum, s
        <4> QED
          BY <2>2, <2>4, <3>4, <3>5, <3>6, <4>1, <4>2
      <3>8. /\ MinimumWindow <= r.window /\ c.window <= r.window /\ s <= r.window
        BY <1>1, <2>1, <2>2, <3>3, Consts DEF CongestionFor, MinimumWindow
      <3>9. r.bytesAcked <= total + bytes
        BY <1>1, <2>5, <3>3
      <3>10. r.recovery <= base
        BY <3>3 DEF CongestionFor
      <3>11. CongestionFor(r, total + bytes, base)
        BY <2>1, <3>3, <3>7, <3>8, <3>9, <3>10 DEF CongestionFor
      <3> QED
        BY <3>8, <3>11 DEF r
    <2>7. CASE ~ (sum >= c.window)
      <3>1. r = [c EXCEPT !.bytesAcked = sum]
        BY <1>1, <1>6, <2>7 DEF OnAck
      <3>2. /\ r.window = c.window /\ r.bytesAcked = sum
            /\ r.ssthresh = s /\ r.recovery = c.recovery /\ r \in CongestionState
        <4> HIDE DEF sum
        <4> QED
          BY <1>1, <2>5, <3>1 DEF CongestionState
      <3> HIDE DEF r
      <3>3. c.window <= r.window
        BY <1>1, <3>2
      <3>4. CongestionFor(r, total + bytes, base)
        <4> HIDE DEF sum
        <4> QED
          BY <2>1, <2>2, <2>4, <2>5, <3>2 DEF CongestionFor
      <3> QED
        BY <3>3, <3>4 DEF r
    <2> QED
      BY <2>6, <2>7
  <1>7. num < c.recovery \/ num >= c.recovery
    BY <1>1
  <1> QED
    BY <1>4, <1>5, <1>6, <1>7

LEMMA OnLossFacts ==
  ASSUME NEW base \in Nat, NEW total \in Nat, NEW c, CongestionFor(c, total, base),
         NEW num \in Nat, num < base
  PROVE  /\ CongestionFor(OnLoss(c, num, base), total, base)
         /\ OnLoss(c, num, base) # c => c.recovery < OnLoss(c, num, base).recovery
  <1> DEFINE r == OnLoss(c, num, base)
  <1>1. /\ c \in CongestionState /\ c.window \in Nat /\ c.recovery \in Nat /\ c.bytesAcked \in Nat
    BY DEF CongestionFor, CongestionState
  <1>2. CASE num < c.recovery
    BY <1>2 DEF OnLoss
  <1>3. CASE ~ (num < c.recovery)
    <2> DEFINE halved  == c.window \div 2
               reduced == IF halved < MinimumWindow THEN MinimumWindow ELSE halved
    <2>1. r = [c EXCEPT !.recovery = base, !.window = reduced, !.ssthresh = reduced]
      BY <1>3 DEF OnLoss
    <2>2. halved \in Nat /\ MinimumWindow \in Nat
      BY <1>1, Consts DEF MinimumWindow
    <2>3. reduced \in Nat /\ MinimumWindow <= reduced
      <3> HIDE DEF halved
      <3> QED
        BY <2>2
    <2> HIDE DEF reduced
    <2>4. /\ r.window = reduced /\ r.ssthresh = reduced /\ r.recovery = base
          /\ r.bytesAcked = c.bytesAcked /\ r \in CongestionState
      BY <1>1, <2>1, <2>3 DEF CongestionState
    <2> HIDE DEF r
    <2>5. (r.window - r.ssthresh) * r.ssthresh = 0
      BY <2>3, <2>4
    <2>6. Mtu * r.bytesAcked <= Mtu * total /\ Mtu * r.bytesAcked \in Nat /\ c.bytesAcked <= total
      <3>1. c.bytesAcked <= total
        BY DEF CongestionFor
      <3>2. \A a, b \in Nat : a <= b => Mtu * a <= Mtu * b /\ Mtu * a \in Nat
        BY Consts
      <3> QED
        BY <1>1, <2>4, <3>1, <3>2
    <2>7. (r.window - r.ssthresh) * r.ssthresh + Mtu * r.bytesAcked <= Mtu * total
      BY <2>5, <2>6
    <2>8. r.ssthresh # Unlimited
      BY <2>3, <2>4 DEF Unlimited
    <2>9. r.ssthresh <= r.window /\ r.recovery <= base /\ c.recovery < r.recovery
      BY <1>1, <1>3, <2>3, <2>4
    <2>10. CongestionFor(r, total, base)
      BY <2>3, <2>4, <2>6, <2>7, <2>8, <2>9 DEF CongestionFor
    <2> QED
      BY <2>9, <2>10 DEF r
  <1> QED
    BY <1>2, <1>3

(***************************************************************************)
(* The RTT estimate.                                                       *)
(***************************************************************************)
EstimatorFor(e, longest) ==
  /\ e \in [smoothed : Nat \union {NoRtt}, var : Nat, min : Nat]
  /\ IF e.smoothed = NoRtt THEN e = NewEstimator
     ELSE /\ PacketTime <= e.min /\ e.min <= e.smoothed
          /\ e.smoothed <= longest /\ e.var <= longest

LEMMA UpdateFacts ==
  ASSUME NEW longest \in Nat, NEW e, EstimatorFor(e, longest),
         NEW delay \in Nat, NEW sample \in Nat, PacketTime <= sample, sample <= longest
  PROVE  EstimatorFor(Update(e, delay, sample), longest)
  <1> DEFINE min  == IF sample < e.min THEN sample ELSE e.min
             adj  == Adjusted(min, delay, sample)
             diff == IF e.smoothed > adj THEN e.smoothed - adj ELSE adj - e.smoothed
             r    == Update(e, delay, sample)
  <1>1. e.smoothed \in Nat \union {NoRtt} /\ e.var \in Nat /\ e.min \in Nat
    BY DEF EstimatorFor
  <1>2. CASE e.smoothed = NoRtt
    <2>1. r = [smoothed |-> sample, var |-> sample \div 2, min |-> sample]
      BY <1>2 DEF Update
    <2>2. sample \div 2 \in Nat /\ sample \div 2 <= longest /\ sample # NoRtt /\ sample <= sample
      BY DEF NoRtt
    <2> QED
      BY <2>1, <2>2 DEF EstimatorFor
  <1>3. CASE e.smoothed # NoRtt
    <2>1. /\ e.smoothed \in Nat /\ PacketTime <= e.min /\ e.min <= e.smoothed
          /\ e.smoothed <= longest /\ e.var <= longest
      BY <1>1, <1>3 DEF EstimatorFor
    <2>2. r = [smoothed |-> (7 * e.smoothed + adj) \div 8,
               var |-> (3 * e.var + diff) \div 4, min |-> min]
      BY <1>3 DEF Update
    <2>3. min \in Nat /\ PacketTime <= min /\ min <= e.smoothed /\ min <= sample
      BY <1>1, <2>1, Consts
    <2> HIDE DEF min
    <2>4. adj \in Nat /\ min <= adj /\ adj <= sample
      BY <2>3 DEF Adjusted
    <2> HIDE DEF adj
    <2>5. diff \in Nat /\ diff <= longest
      BY <2>1, <2>4
    <2> HIDE DEF diff
    <2>6. \A a, b, l, m \in Nat : m <= a /\ m <= b /\ a <= l /\ b <= l =>
            /\ (7 * a + b) \div 8 \in Nat /\ m <= (7 * a + b) \div 8 /\ (7 * a + b) \div 8 <= l
      OBVIOUS
    <2>7. \A a, b, l \in Nat : a <= l /\ b <= l =>
            /\ (3 * a + b) \div 4 \in Nat /\ (3 * a + b) \div 4 <= l
      OBVIOUS
    <2>8. /\ (7 * e.smoothed + adj) \div 8 \in Nat /\ min <= (7 * e.smoothed + adj) \div 8
          /\ (7 * e.smoothed + adj) \div 8 <= longest
      <3>1. adj <= longest
        BY <2>4
      <3> QED
        BY <2>1, <2>3, <2>4, <2>6, <3>1
    <2>9. (3 * e.var + diff) \div 4 \in Nat /\ (3 * e.var + diff) \div 4 <= longest
      BY <1>1, <2>1, <2>5, <2>7
    <2>10. \A x \in Nat : x # NoRtt
      BY DEF NoRtt
    <2> QED
      BY <2>2, <2>3, <2>8, <2>9, <2>10 DEF EstimatorFor
  <1> QED
    BY <1>2, <1>3

(***************************************************************************)
(* The bytes of the packets that were acknowledged.                        *)
(***************************************************************************)
Counts == [0..(MaxPackets - 1) -> Nat]

PacketAt(s, n) == CHOOSE p \in s : p.num = n

BytesFor(s, base, a) == Total([i \in 1..base |-> a[i - 1] * BytesOf(PacketAt(s, i - 1))], base)

LEMMA BytesOfNat ==
  ASSUME NEW p \in Packet
  PROVE  p.num \in Nat /\ p.frames \in Seq(Frame) /\ BytesOf(p) \in Nat
  BY SizeOfFacts, Consts DEF Packet, BytesOf

LEMMA PacketAtFacts ==
  ASSUME NEW base \in Nat, NEW s, SentOK(s, base), NEW n \in Nat, n < base
  PROVE  PacketAt(s, n) \in s /\ PacketAt(s, n).num = n
  <1>1. \E p \in s : p.num = n
    BY DEF SentOK
  <1> QED
    BY <1>1, Zenon DEF PacketAt

LEMMA OnceFacts ==
  ASSUME NEW a \in Counts, NEW nums
  PROVE  /\ Once(a, nums) \in Counts
         /\ \A n \in 0..(MaxPackets - 1) : Once(a, nums)[n] = IF n \in nums THEN a[n] + 1 ELSE a[n]
  BY DEF Once, Counts

LEMMA BytesGrow ==
  ASSUME NEW base \in Nat, base <= MaxPackets, NEW s, SentOK(s, base), NEW a \in Counts,
         NEW p \in s
  PROVE  BytesFor(s, base, Once(a, {p.num})) = BytesFor(s, base, a) + BytesOf(p)
  <1> DEFINE b == Once(a, {p.num})
             f == [i \in 1..base |-> a[i - 1] * BytesOf(PacketAt(s, i - 1))]
             e == [i \in 1..base |-> b[i - 1] * BytesOf(PacketAt(s, i - 1))]
             j == p.num + 1
  <1>1. p \in Packet /\ p.num \in Nat /\ p.num < base /\ BytesOf(p) \in Nat
    BY BytesOfNat DEF SentOK
  <1>2. \A i \in 1..base : /\ i - 1 \in Nat /\ i - 1 < base /\ i - 1 \in 0..(MaxPackets - 1)
                           /\ a[i - 1] \in Nat
    BY Consts DEF Counts
  <1>3. \A i \in 1..base : BytesOf(PacketAt(s, i - 1)) \in Nat
    <2>1. ASSUME NEW i \in 1..base PROVE BytesOf(PacketAt(s, i - 1)) \in Nat
      <3>1. PacketAt(s, i - 1) \in s
        BY <1>2, PacketAtFacts
      <3>2. PacketAt(s, i - 1) \in Packet
        BY <3>1 DEF SentOK
      <3> QED
        BY <3>2, BytesOfNat
    <2> QED
      BY <2>1
  <1>4. \A i \in 1..base : f[i] \in Nat
    BY <1>2, <1>3
  <1>5. j \in 1..base /\ j - 1 = p.num
    BY <1>1
  <1>6. PacketAt(s, p.num) = p
    <2>1. PacketAt(s, p.num) \in s /\ PacketAt(s, p.num).num = p.num
      BY <1>1, PacketAtFacts
    <2> QED
      BY <2>1 DEF SentOK
  <1>7. e[j] = f[j] + BytesOf(p)
    <2>1. b[p.num] = a[p.num] + 1 /\ a[p.num] \in Nat
      <3>1. p.num \in 0..(MaxPackets - 1)
        BY <1>2, <1>5
      <3> QED
        BY <3>1, OnceFacts DEF Counts
    <2>2. e[j] = b[p.num] * BytesOf(p) /\ f[j] = a[p.num] * BytesOf(p)
      BY <1>5, <1>6
    <2>3. \A x, y \in Nat : (x + 1) * y = x * y + y
      OBVIOUS
    <2> HIDE DEF b
    <2> QED
      BY <1>1, <2>1, <2>2, <2>3
  <1>8. \A i \in (1..base) \ {j} : e[i] = f[i]
    <2>1. ASSUME NEW i \in (1..base) \ {j} PROVE b[i - 1] = a[i - 1]
      <3>1. i - 1 # p.num
        BY <1>1
      <3> QED
        BY <1>2, <3>1, OnceFacts
    <2> QED
      BY <2>1
  <1> HIDE DEF e, f, j, b
  <1>9. Total(e, base) = Total(f, base) + BytesOf(p)
    BY <1>1, <1>4, <1>5, <1>7, <1>8, TotalGrows
  <1> QED
    BY <1>9 DEF BytesFor, e, f, b

\* A packet that goes out and is not acknowledged.
LEMMA BytesSent ==
  ASSUME NEW base \in Nat, base < MaxPackets, NEW s, SentOK(s, base), NEW a \in Counts,
         NEW p \in Packet, p.num = base, SentOK(s \union {p}, base + 1), a[base] = 0
  PROVE  BytesFor(s \union {p}, base + 1, a) = BytesFor(s, base, a)
  <1> DEFINE t == s \union {p}
             f == [i \in 1..base |-> a[i - 1] * BytesOf(PacketAt(s, i - 1))]
             e == [i \in 1..(base + 1) |-> a[i - 1] * BytesOf(PacketAt(t, i - 1))]
  <1>1. \A n \in Nat : n < base => PacketAt(t, n) = PacketAt(s, n)
    <2>1. ASSUME NEW n \in Nat, n < base PROVE PacketAt(t, n) = PacketAt(s, n)
      <3>1. PacketAt(s, n) \in s /\ PacketAt(s, n).num = n
        BY <2>1, PacketAtFacts
      <3>2. n < base + 1
        BY <2>1
      <3>3. PacketAt(t, n) \in t /\ PacketAt(t, n).num = n
        <4> HIDE DEF t
        <4>1. SentOK(t, base + 1) /\ base + 1 \in Nat
          BY DEF t
        <4> QED
          BY <3>2, <4>1, PacketAtFacts
      <3> QED
        BY <3>1, <3>3 DEF SentOK
    <2> QED
      BY <2>1
  <1>2. \A i \in 1..base : e[i] = f[i]
    <2>1. \A i \in 1..base : i - 1 \in Nat /\ i - 1 < base /\ i \in 1..(base + 1)
      OBVIOUS
    <2> HIDE DEF t
    <2> QED
      BY <1>1, <2>1
  <1>3. e[base + 1] = 0
    <2>1. PacketAt(t, base) \in Packet
      <3> HIDE DEF t
      <3>1. SentOK(t, base + 1) /\ base + 1 \in Nat /\ base < base + 1
        BY DEF t
      <3>2. PacketAt(t, base) \in t
        BY <3>1, PacketAtFacts
      <3> QED
        BY <3>1, <3>2 DEF SentOK
    <2>2. BytesOf(PacketAt(t, base)) \in Nat
      BY <2>1, BytesOfNat
    <2>3. base + 1 \in 1..(base + 1) /\ (base + 1) - 1 = base
      OBVIOUS
    <2>4. e[base + 1] = a[base] * BytesOf(PacketAt(t, base))
      <3> HIDE DEF t
      <3> QED
        BY <2>3
    <2>5. \A x \in Nat : 0 * x = 0
      OBVIOUS
    <2> HIDE DEF e, t
    <2> QED
      BY <2>2, <2>4, <2>5
  <1> HIDE DEF e, f
  <1>4. Total(e, base + 1) = Total(e, base) + e[base + 1]
    BY TotalStep
  <1>5. Total(e, base) = Total(f, base)
    BY <1>2, TotalAgree
  <1>6. Total(f, base) \in Nat
    <2>1. \A i \in 1..base : f[i] \in Nat
      <3>1. ASSUME NEW i \in 1..base PROVE a[i - 1] * BytesOf(PacketAt(s, i - 1)) \in Nat
        <4>1. i - 1 \in Nat /\ i - 1 < base /\ a[i - 1] \in Nat
          BY Consts DEF Counts
        <4>2. PacketAt(s, i - 1) \in Packet
          BY <4>1, PacketAtFacts DEF SentOK
        <4> QED
          BY <4>1, <4>2, BytesOfNat
      <3> QED
        BY <3>1 DEF f
    <2> QED
      BY <2>1, TotalNat
  <1>7. Total(e, base + 1) = Total(f, base)
    BY <1>3, <1>4, <1>5, <1>6
  <1> QED
    BY <1>7 DEF BytesFor, e, f, t

LEMMA BytesNat ==
  ASSUME NEW base \in Nat, base <= MaxPackets, NEW s, SentOK(s, base), NEW a \in Counts
  PROVE  BytesFor(s, base, a) \in Nat
  <1> DEFINE f == [i \in 1..base |-> a[i - 1] * BytesOf(PacketAt(s, i - 1))]
  <1>1. ASSUME NEW i \in 1..base PROVE a[i - 1] * BytesOf(PacketAt(s, i - 1)) \in Nat
    <2>1. i - 1 \in Nat /\ i - 1 < base /\ a[i - 1] \in Nat
      BY Consts DEF Counts
    <2>2. PacketAt(s, i - 1) \in Packet
      BY <2>1, PacketAtFacts DEF SentOK
    <2> QED
      BY <2>1, <2>2, BytesOfNat
  <1>2. \A i \in 1..base : f[i] \in Nat
    BY <1>1
  <1> HIDE DEF f
  <1>3. Total(f, base) \in Nat
    BY <1>2, TotalNat
  <1> QED
    BY <1>3 DEF BytesFor, f

(***************************************************************************)
(* Several packets acknowledged one after the other.                       *)
(***************************************************************************)
Acks(c, order, n, g) ==
  g = [i \in 0..n |-> IF i = 0 THEN c ELSE OnAck(g[i - 1], order[i].num, BytesOf(order[i]))]

LEMMA AcksFacts ==
  ASSUME NEW c, NEW order, NEW n \in Nat, NEW g, Acks(c, order, n, g)
  PROVE  /\ g[0] = c
         /\ \A i \in 1..n : g[i] = OnAck(g[i - 1], order[i].num, BytesOf(order[i]))
  <1> DEFINE Turn(h, i) == OnAck(h[i - 1], order[i].num, BytesOf(order[i]))
  <1>1. \A i \in 0..n : g[i] = IF i = 0 THEN c ELSE Turn(g, i)
    <2>1. g = [i \in 0..n |-> IF i = 0 THEN c ELSE Turn(g, i)]
      BY DEF Acks
    <2> HIDE DEF Turn
    <2>2. \A h : g = [i \in 0..n |-> IF i = 0 THEN c ELSE Turn(h, i)]
                   => \A i \in 0..n : g[i] = IF i = 0 THEN c ELSE Turn(h, i)
      OBVIOUS
    <2> QED
      BY <2>1, <2>2, Zenon
  <1>2. g[0] = c /\ \A i \in 1..n : g[i] = Turn(g, i)
    <2> HIDE DEF Turn
    <2> QED
      BY <1>1
  <1> QED
    BY <1>2

LEMMA AcksExist ==
  ASSUME NEW c, NEW order, NEW n \in Nat
  PROVE  \E g : Acks(c, order, n, g)
  <1> DEFINE Turn(h, i) == OnAck(h[i - 1], order[i].num, BytesOf(order[i]))
             Without == { m \in Nat : ~ \E g : Acks(c, order, m, g) }
  <1>1. SUFFICES ASSUME Without # {} PROVE FALSE
    OBVIOUS
  <1>2. PICK m \in Without : \A k \in Without : m <= k
    <2>1. Without \in SUBSET Nat
      OBVIOUS
    <2> HIDE DEF Without
    <2> QED
      BY <1>1, <2>1, B!LeastElement
  <1>3. m # 0
    <2>1. Acks(c, order, 0, [i \in 0..0 |-> c])
      BY DEF Acks
    <2> QED
      BY <2>1
  <1>4. m \in Nat /\ m - 1 \in Nat /\ m - 1 \notin Without
    BY <1>2, <1>3
  <1>5. PICK g : Acks(c, order, m - 1, g)
    BY <1>4
  <1> DEFINE h == [i \in 0..m |-> IF i = m THEN Turn(g, m) ELSE g[i]]
  <1>6. g[0] = c /\ \A i \in 1..(m - 1) : g[i] = Turn(g, i)
    BY <1>4, <1>5, AcksFacts
  <1>7. \A i \in 1..m : Turn(h, i) = Turn(g, i)
    <2>1. \A i \in 1..m : h[i - 1] = g[i - 1]
      <3> HIDE DEF Turn
      <3> QED
        BY <1>4
    <2> HIDE DEF h
    <2> QED
      BY <2>1
  <1>8. \A i \in 0..m : h[i] = IF i = 0 THEN c ELSE Turn(h, i)
    <2>1. \A i \in 0..m : h[i] = IF i = 0 THEN c ELSE Turn(g, i)
      <3> HIDE DEF Turn
      <3> QED
        BY <1>3, <1>4, <1>6
    <2>2. \A i \in 0..m : i # 0 => i \in 1..m
      BY <1>4
    <2> HIDE DEF h, Turn
    <2> QED
      BY <1>7, <2>1, <2>2
  <1>9. Acks(c, order, m, h)
    <2>1. h = [i \in 0..m |-> h[i]]
      <3> HIDE DEF Turn
      <3> QED
        OBVIOUS
    <2>2. [i \in 0..m |-> h[i]] = [i \in 0..m |-> IF i = 0 THEN c ELSE Turn(h, i)]
      <3> HIDE DEF h, Turn
      <3> QED
        BY <1>8
    <2> HIDE DEF h
    <2> QED
      BY <2>1, <2>2, Zenon DEF Acks
  <1> QED
    BY <1>9

LEMMA CongestionAckedFacts ==
  ASSUME NEW base \in Nat, base <= MaxPackets, SentOK(sent, base), acked \in Counts,
         CongestionFor(cc, BytesFor(sent, base, acked), base),
         NEW ps \in SUBSET sent, CongestionAcked(ps)
  PROVE  /\ CongestionFor(cc', BytesFor(sent, base, Once(acked, Numbers(ps))), base)
         /\ cc.window <= cc'.window
  <1> DEFINE n == Cardinality(ps)
  <1>1. IsFiniteSet(ps) /\ n \in Nat
    BY FS_Subset, FS_CardinalityType DEF SentOK
  <1>2. PICK order \in Bijection(1..n, ps) :
          cc' = (CHOOSE g : Acks(cc, order, n, g))[n]
    BY Zenon DEF CongestionAcked, Acks
  <1> DEFINE after == CHOOSE g : Acks(cc, order, n, g)
             nums(i) == { order[j].num : j \in 1..i }
             Reached(i) == /\ CongestionFor(after[i], BytesFor(sent, base, Once(acked, nums(i))), base)
                           /\ cc.window <= after[i].window
  <1>3. /\ order \in [1..n -> ps]
        /\ \A i, j \in 1..n : order[i] = order[j] => i = j
        /\ \A p \in ps : \E i \in 1..n : order[i] = p
    BY DEF Bijection, Injection, Surjection, IsInjective
  <1>4. Acks(cc, order, n, after)
    <2> HIDE DEF n
    <2> QED
      BY <1>1, AcksExist, Zenon
  <1>5. /\ after[0] = cc
        /\ \A i \in 1..n : after[i] = OnAck(after[i - 1], order[i].num, BytesOf(order[i]))
    <2> HIDE DEF n, after
    <2> QED
      BY <1>1, <1>4, AcksFacts
  <1>6. cc' = after[n]
    BY <1>2
  <1> HIDE DEF after, n
  <1>7. \A i \in 1..n : order[i] \in sent /\ order[i] \in Packet
    BY <1>3 DEF SentOK
  <1>8. Reached(0)
    <2>1. Once(acked, nums(0)) = acked
      <3>1. nums(0) = {}
        OBVIOUS
      <3> HIDE DEF nums
      <3>2. Once(acked, {}) = [m \in DOMAIN acked |-> acked[m]]
        BY DEF Once
      <3> QED
        BY <3>1, <3>2 DEF Counts
    <2>2. cc.window <= cc.window
      BY DEF CongestionFor, CongestionState
    <2> QED
      BY <1>5, <2>1, <2>2
  <1>9. \A i \in 0..n : Reached(i)
    <2> DEFINE Others == { i \in 0..n : ~ Reached(i) }
    <2>1. SUFFICES ASSUME Others # {} PROVE FALSE
      OBVIOUS
    <2>2. PICK i \in Others : \A j \in Others : i <= j
      <3>1. Others \in SUBSET Nat
        OBVIOUS
      <3> HIDE DEF Others
      <3> QED
        BY <2>1, <3>1, B!LeastElement
    <2>3. i # 0
      BY <1>8
    <2>4. i \in 1..n /\ i - 1 \in 0..n /\ i \in Nat /\ i - 1 \in Nat
      BY <1>1, <2>3
    <2>5. Reached(i - 1)
      <3>1. ~ (i <= i - 1)
        BY <2>4
      <3>2. i - 1 \notin Others
        BY <2>2, <3>1
      <3> QED
        BY <2>4, <3>2
    <2> DEFINE p == order[i]
               a == Once(acked, nums(i - 1))
    <2>6. p \in sent /\ p \in Packet /\ p.num \in Nat /\ BytesOf(p) \in Nat
      BY <1>7, <2>4, BytesOfNat
    <2>7. p.num \notin nums(i - 1)
      <3>1. ASSUME NEW j \in 1..(i - 1), order[j].num = p.num PROVE FALSE
        <4>1. j \in 1..n /\ j # i
          BY <1>1, <2>4
        <4>2. order[j] = p
          BY <1>7, <2>6, <3>1, <4>1 DEF SentOK
        <4> QED
          BY <1>3, <2>4, <4>1, <4>2
      <3> QED
        BY <3>1
    <2>8. nums(i) = nums(i - 1) \union {p.num}
      <3>1. \A j : j \in 1..i <=> j \in 1..(i - 1) \/ j = i
        BY <2>4
      <3> QED
        BY <3>1
    <2>9. Once(acked, nums(i)) = Once(a, {p.num})
      <3> HIDE DEF nums
      <3>1. \A m \in DOMAIN acked : (IF m \in nums(i) THEN acked[m] + 1 ELSE acked[m])
              = IF m \in {p.num} THEN a[m] + 1 ELSE a[m]
        BY <2>7, <2>8 DEF Once
      <3>2. DOMAIN a = DOMAIN acked
        BY DEF Once
      <3> HIDE DEF a, p
      <3> QED
        BY <3>1, <3>2 DEF Once
    <2>10. a \in Counts
      BY OnceFacts
    <2> HIDE DEF nums, a, p
    <2>11. /\ CongestionFor(after[i - 1], BytesFor(sent, base, a), base)
           /\ cc.window <= after[i - 1].window
      BY <2>5 DEF a
    <2>12. BytesFor(sent, base, Once(a, {p.num})) = BytesFor(sent, base, a) + BytesOf(p)
      BY <2>6, <2>10, BytesGrow
    <2>13. BytesFor(sent, base, a) \in Nat
      BY <2>10, BytesNat
    <2>14. after[i] = OnAck(after[i - 1], p.num, BytesOf(p))
      BY <1>5, <2>4 DEF p
    <2>15. /\ CongestionFor(after[i], BytesFor(sent, base, a) + BytesOf(p), base)
           /\ after[i - 1].window <= after[i].window
      BY <2>6, <2>11, <2>13, <2>14, OnAckFacts
    <2>16. cc.window \in Nat /\ after[i - 1].window \in Nat /\ after[i].window \in Nat
      BY <2>11, <2>15 DEF CongestionFor, CongestionState
    <2>17. cc.window <= after[i].window
      BY <2>11, <2>15, <2>16
    <2> QED
      BY <2>9, <2>12, <2>15, <2>17
  <1>10. nums(n) = Numbers(ps)
    BY <1>3 DEF Numbers
  <1>11. n \in 0..n
    BY <1>1
  <1> HIDE DEF nums
  <1> QED
    BY <1>6, <1>9, <1>10, <1>11

(***************************************************************************)
(* What Inflight reports: ps are its packets, fs the timers that fired,    *)
(* oks and losses count the reports, and rs is what the peer received.     *)
(***************************************************************************)
PacketNumbers == 0..(MaxPackets - 1)

Reports(s, base, ps, fs, oks, losses, rs) ==
  /\ ps \subseteq s /\ (\A p \in ps : Eliciting(p.frames))
  /\ fs \subseteq Numbers(ps) /\ rs \subseteq Numbers(s)
  /\ oks \in Counts /\ losses \in Counts
  /\ \A n \in PacketNumbers : oks[n] + losses[n] <= 1 /\ (oks[n] > 0 => n \in rs)
  /\ \A n \in PacketNumbers : base <= n => oks[n] = 0 /\ losses[n] = 0
  /\ \A p \in s : oks[p.num] + losses[p.num] = 0 <=> ~ Eliciting(p.frames) \/ (p \in ps /\ p.num \notin fs)

LEMMA NumberFacts ==
  ASSUME NEW base \in Nat, base <= MaxPackets, NEW s, SentOK(s, base), NEW p \in s
  PROVE  p \in Packet /\ p.num \in Nat /\ p.num < base /\ p.num \in PacketNumbers
  <1>1. p \in Packet /\ p.num < base
    BY DEF SentOK
  <1>2. p.num \in Nat
    BY <1>1 DEF Packet
  <1> QED
    BY <1>1, <1>2, Consts DEF PacketNumbers

LEMMA ReportsSent ==
  ASSUME NEW base \in Nat, base < MaxPackets, NEW s, SentOK(s, base),
         NEW ps, NEW fs, NEW oks, NEW losses, NEW rs, Reports(s, base, ps, fs, oks, losses, rs),
         NEW p \in Packet, p.num = base,
         NEW qs, qs = ps \union (IF Eliciting(p.frames) THEN {p} ELSE {})
  PROVE  Reports(s \union {p}, base + 1, qs, fs, oks, losses, rs) /\ oks[base] = 0
  <1> DEFINE t == s \union {p}
  <1>1. p \notin s /\ base \in PacketNumbers
    BY NumberFacts, Consts DEF PacketNumbers
  <1>2. oks[base] = 0 /\ losses[base] = 0
    BY <1>1 DEF Reports
  <1>3. qs \subseteq t /\ \A o \in qs : Eliciting(o.frames)
    BY DEF Reports
  <1>4. fs \subseteq Numbers(qs) /\ rs \subseteq Numbers(t)
    BY DEF Reports, Numbers
  <1>5. base \notin fs
    <2>1. ASSUME NEW o \in ps PROVE o.num # base
      <3>1. o \in s
        BY DEF Reports
      <3>2. base <= MaxPackets
        BY Consts
      <3> QED
        BY <3>1, <3>2, NumberFacts
    <2> QED
      BY <2>1 DEF Reports, Numbers
  <1>6. \A n \in PacketNumbers : base + 1 <= n => oks[n] = 0 /\ losses[n] = 0
    <2>1. \A n \in PacketNumbers : base + 1 <= n => base <= n
      BY Consts DEF PacketNumbers
    <2> QED
      BY <2>1 DEF Reports
  <1>7. ASSUME NEW o \in t
        PROVE  oks[o.num] + losses[o.num] = 0 <=> ~ Eliciting(o.frames) \/ (o \in qs /\ o.num \notin fs)
    <2>1. CASE o \in s
      <3>1. o \in qs <=> o \in ps
        BY <1>1, <2>1
      <3> QED
        BY <2>1, <3>1 DEF Reports
    <2>2. CASE o = p
      <3>1. o \in qs <=> Eliciting(p.frames)
        BY <1>1, <2>2 DEF Reports
      <3>2. oks[o.num] + losses[o.num] = 0
        BY <1>2, <2>2
      <3> QED
        BY <1>5, <2>2, <3>1, <3>2
    <2> QED
      BY <2>1, <2>2
  <1> QED
    BY <1>2, <1>3, <1>4, <1>6, <1>7 DEF Reports

LEMMA ReportsDelivered ==
  ASSUME NEW base, NEW s, NEW ps, NEW fs, NEW oks, NEW losses, NEW rs,
         Reports(s, base, ps, fs, oks, losses, rs), NEW p \in s
  PROVE  Reports(s, base, ps, fs, oks, losses, rs \union {p.num})
  <1>1. rs \union {p.num} \subseteq Numbers(s)
    BY DEF Reports, Numbers
  <1>2. \A n \in PacketNumbers :
          oks[n] + losses[n] <= 1 /\ (oks[n] > 0 => n \in rs \union {p.num})
    BY DEF Reports
  <1> QED
    BY <1>1, <1>2 DEF Reports

LEMMA ReportsLost ==
  ASSUME NEW base \in Nat, base <= MaxPackets, NEW s, SentOK(s, base),
         NEW ps, NEW fs, NEW oks, NEW losses, NEW rs, Reports(s, base, ps, fs, oks, losses, rs),
         NEW p \in ps, p.num \notin fs,
         NEW more, more = Once(losses, {p.num})
  PROVE  Reports(s, base, ps, fs \union {p.num}, oks, more, rs)
  <1>1. p \in s /\ p.num \in PacketNumbers /\ p.num < base
    <2>1. p \in s
      BY DEF Reports
    <2> QED
      BY <2>1, NumberFacts
  <1>2. oks \in Counts /\ losses \in Counts
    BY DEF Reports
  <1>3. /\ more \in Counts
        /\ \A n \in PacketNumbers : more[n] = IF n = p.num THEN losses[n] + 1 ELSE losses[n]
    BY <1>2, OnceFacts DEF PacketNumbers
  <1>4. oks[p.num] + losses[p.num] = 0 /\ oks[p.num] \in Nat /\ losses[p.num] \in Nat
    BY <1>1, <1>2 DEF Reports, Counts, PacketNumbers
  <1>5. oks[p.num] = 0 /\ more[p.num] = 1
    <2>1. more[p.num] = losses[p.num] + 1
      BY <1>1, <1>3
    <2> QED
      BY <1>4, <2>1
  <1>6. ASSUME NEW n \in PacketNumbers
        PROVE  oks[n] + more[n] <= 1 /\ (oks[n] > 0 => n \in rs) /\ (base <= n => oks[n] = 0 /\ more[n] = 0)
    <2>1. CASE n = p.num
      BY <1>1, <1>5, <2>1 DEF PacketNumbers
    <2>2. CASE n # p.num
      BY <1>3, <2>2 DEF Reports
    <2> QED
      BY <2>1, <2>2
  <1>7. ASSUME NEW o \in s
        PROVE  oks[o.num] + more[o.num] = 0
                 <=> ~ Eliciting(o.frames) \/ (o \in ps /\ o.num \notin fs \union {p.num})
    <2>1. CASE o = p
      <3>1. oks[o.num] + more[o.num] # 0 /\ Eliciting(o.frames)
        BY <1>5, <2>1 DEF Reports
      <3> QED
        BY <2>1, <3>1
    <2>2. CASE o # p
      <3>1. o.num # p.num
        BY <1>1, <2>2 DEF SentOK
      <3>2. more[o.num] = losses[o.num]
        BY <1>3, <3>1, NumberFacts
      <3> QED
        BY <3>1, <3>2 DEF Reports
    <2> QED
      BY <2>1, <2>2
  <1>8. fs \union {p.num} \subseteq Numbers(ps)
    BY DEF Reports, Numbers
  <1> QED
    BY <1>3, <1>6, <1>7, <1>8 DEF Reports

LEMMA ReportsAcked ==
  ASSUME NEW base \in Nat, base <= MaxPackets, NEW s, SentOK(s, base),
         NEW ps, NEW fs, NEW oks, NEW losses, NEW rs, Reports(s, base, ps, fs, oks, losses, rs),
         NEW nums \in SUBSET rs,
         NEW open, open \subseteq ps, \A p \in ps : p \in open <=> p.num \notin fs,
         NEW covered, covered \subseteq open, \A p \in open : p \in covered <=> p.num \in nums,
         NEW more, more = Once(oks, Numbers(covered)),
         NEW left, left = fs \intersect Numbers(open \ covered)
  PROVE  Reports(s, base, open \ covered, left, more, losses, rs)
  <1>1. oks \in Counts /\ losses \in Counts /\ covered \subseteq open /\ open \subseteq ps /\ ps \subseteq s
    BY DEF Reports
  <1>2. /\ more \in Counts
        /\ \A n \in PacketNumbers : more[n] = IF n \in Numbers(covered) THEN oks[n] + 1 ELSE oks[n]
    BY <1>1, OnceFacts DEF PacketNumbers
  <1>3. \A o \in s : o.num \in Numbers(covered) <=> o \in covered
    BY <1>1 DEF Numbers, SentOK
  <1>4. left = {}
    <2>1. \A p \in open : p.num \notin fs
      OBVIOUS
    <2> QED
      BY <2>1 DEF Numbers
  <1>5. \A p \in covered : /\ oks[p.num] = 0 /\ losses[p.num] = 0 /\ p.num < base
                           /\ p.num \in nums /\ p.num \in PacketNumbers
    <2>1. ASSUME NEW p \in covered
          PROVE  oks[p.num] = 0 /\ losses[p.num] = 0 /\ p.num < base /\ p.num \in PacketNumbers
      <3>1. p \in s /\ p \in ps /\ p.num \notin fs
        BY <1>1
      <3>2. p.num \in PacketNumbers /\ p.num < base
        BY <3>1, NumberFacts
      <3>3. oks[p.num] + losses[p.num] = 0
        BY <3>1 DEF Reports
      <3>4. oks[p.num] \in Nat /\ losses[p.num] \in Nat
        BY <1>1, <3>2 DEF Counts, PacketNumbers
      <3> QED
        BY <3>2, <3>3, <3>4
    <2> QED
      BY <2>1
  <1>6. ASSUME NEW n \in PacketNumbers
        PROVE  more[n] + losses[n] <= 1 /\ (more[n] > 0 => n \in rs) /\ (base <= n => more[n] = 0 /\ losses[n] = 0)
    <2>1. CASE n \in Numbers(covered)
      <3>1. PICK p \in covered : p.num = n
        BY <2>1 DEF Numbers
      <3>2. oks[n] = 0 /\ losses[n] = 0 /\ n < base /\ n \in rs
        BY <1>5, <3>1
      <3>3. ~ (base <= n)
        BY <3>2 DEF PacketNumbers
      <3> QED
        BY <1>2, <2>1, <3>2, <3>3
    <2>2. CASE n \notin Numbers(covered)
      BY <1>2, <2>2 DEF Reports
    <2> QED
      BY <2>1, <2>2
  <1>7. ASSUME NEW o \in s
        PROVE  more[o.num] + losses[o.num] = 0
                 <=> ~ Eliciting(o.frames) \/ (o \in open \ covered /\ o.num \notin left)
    <2>1. o.num \in PacketNumbers
      BY NumberFacts
    <2>2. CASE o \in covered
      <3>1. more[o.num] = 1 /\ losses[o.num] = 0 /\ Eliciting(o.frames)
        BY <1>1, <1>2, <1>3, <1>5, <2>1, <2>2 DEF Reports
      <3> QED
        BY <2>2, <3>1
    <2>3. CASE o \notin covered
      <3>1. more[o.num] = oks[o.num]
        BY <1>2, <1>3, <2>1, <2>3
      <3>2. oks[o.num] + losses[o.num] = 0 <=> ~ Eliciting(o.frames) \/ o \in open
        BY DEF Reports
      <3> QED
        BY <1>4, <2>3, <3>1, <3>2
    <2> QED
      BY <2>2, <2>3
  <1>8. /\ open \ covered \subseteq s
        /\ \A p \in open \ covered : Eliciting(p.frames)
        /\ rs \subseteq Numbers(s)
    BY <1>1 DEF Reports
  <1>9. left \subseteq Numbers(open \ covered)
    BY <1>4
  <1> HIDE DEF Reports
  <1> QED
    BY <1>1, <1>2, <1>6, <1>7, <1>8, <1>9 DEF Reports

------------------------------------------------------------------------------
(***************************************************************************)
(* The inductive invariant.                                                *)
(***************************************************************************)
Base == Cardinality(sent)

\* Each packet has a frame, and each frame a byte or a number of its own: the
\* bound on what is handed over is one on packets.
Counted ==
  /\ handed \in Nat /\ empties \in Nat /\ limits \in Nat /\ acksOf \in Nat
  /\ handed <= MaxData /\ empties <= MaxEmpties /\ limits <= MaxLimits /\ acksOf <= MaxAckOf
  /\ Begun(pz) <= handed + empties + limits + acksOf

Packaged ==
  Good(pz, Base) /\ SentOK(sent, Base) /\ PackedFor(pz, sent, HandedOver)

Inv ==
  /\ Counted /\ Packaged
  /\ Reports(sent, Base, packets, fired, acked, lost, received)
  /\ CongestionFor(cc, BytesFor(sent, Base, acked), Base)
  /\ EstimatorFor(est, PacketTime * Base)

LEMMA BaseFacts ==
  ASSUME Counted, Packaged
  PROVE  /\ Base \in Nat /\ Base <= MaxPackets /\ (pz.out # <<>> => Base < MaxPackets)
         /\ Begun(pz) \in Nat /\ pz.num <= MaxPackets
  <1>1. IsFiniteSet(sent)
    BY DEF Packaged, SentOK
  <1>2. Base \in Nat
    BY <1>1, FS_CardinalityType DEF Base
  <1>3. pz \in PacketizerState /\ pz.num = Base + Len(pz.out)
    BY DEF Packaged, Good, Loose, Numbered
  <1>4. /\ Len(pz.out) \in Nat /\ (pz.out # <<>> => Len(pz.out) # 0)
        /\ pz.num \in Nat /\ Begun(pz) \in Nat /\ pz.num <= Begun(pz)
    <2>1. pz.out \in Seq(Packet) /\ pz.num \in Nat /\ Begun(pz) \in Nat
      BY <1>3, StateFacts
    <2>2. pz.num <= Begun(pz)
      BY <2>1 DEF Begun
    <2> QED
      BY <2>1, <2>2
  <1>5. Begun(pz) <= MaxPackets
    BY <1>4, Consts DEF Counted
  <1> QED
    BY <1>2, <1>3, <1>4, <1>5, Consts

LEMMA HandedFacts ==
  /\ HandedOver["data"] = handed /\ HandedOver["empty"] = empties
  /\ HandedOver["limit"] = limits /\ HandedOver["ack"] = acksOf
  /\ DOMAIN HandedOver = Kinds
  BY DEF HandedOver, Kinds

LEMMA InitInv == Init => Inv
  <1> SUFFICES ASSUME Init PROVE Inv
    OBVIOUS
  <1>1. sent = {} /\ Base = 0 /\ handed = 0 /\ empties = 0 /\ limits = 0 /\ acksOf = 0
    BY FS_EmptySet DEF Init, Base
  <1>2. /\ pz.frames = <<>> /\ pz.room = PacketRoom /\ pz.num = 0 /\ pz.timers = 0 /\ pz.out = <<>>
        /\ pz \in PacketizerState
    BY Consts DEF Init, NewPacketizer, PacketizerState
  <1>3. Counted
    BY <1>1, <1>2, Consts DEF Counted, Begun
  <1>4. Good(pz, 0)
    BY <1>2, SizeOfFacts, Consts DEF Good, Loose, Numbered
  <1>5. SentOK({}, 0)
    BY FS_EmptySet DEF SentOK
  <1>6. \A e \in Entry : ~ Present(pz, {}, e)
    BY <1>2 DEF Present, Holds, InPacket
  <1>7. \A kind \in Kinds : HandedOver[kind] = 0
    BY <1>1, HandedFacts DEF Kinds
  <1>8. PackedFor(pz, {}, HandedOver)
    BY <1>6, <1>7 DEF PackedFor
  <1>9. acked \in Counts /\ lost \in Counts /\ \A n \in PacketNumbers : acked[n] = 0 /\ lost[n] = 0
    BY DEF Init, InflightInit, Counts, PacketNumbers
  <1>10. Reports({}, 0, packets, fired, acked, lost, received)
    <2>1. packets = {} /\ fired = {} /\ received = {}
      BY DEF Init, InflightInit
    <2>2. \A n \in PacketNumbers : acked[n] + lost[n] <= 1 /\ ~ (acked[n] > 0)
      BY <1>9
    <2> QED
      BY <1>9, <2>1, <2>2 DEF Reports, Numbers
  <1>11. BytesFor({}, 0, acked) = 0
    BY TotalStep DEF BytesFor
  <1>12. CongestionFor(cc, 0, 0)
    BY Consts DEF Init, NewReno, CongestionFor, CongestionState, MinimumWindow
  <1>13. EstimatorFor(est, PacketTime * 0)
    <2>1. InitialRtt \div 2 \in Nat
      BY Consts
    <2> QED
      BY <2>1, Consts DEF Init, InflightInit, NewEstimator, EstimatorFor, NoRtt
  <1> QED
    BY <1>1, <1>3, <1>4, <1>5, <1>8, <1>10, <1>11, <1>12, <1>13 DEF Inv, Packaged

\* What all handlers of Packetizer do with a frame.
LEMMA HandFacts ==
  ASSUME Counted, Packaged, NEW f \in Frame, HandedOver[f.kind] = f.lo,
         NEW r, r = SendFrame(pz, f),
         NEW more, more[f.kind] = f.hi, \A k \in Kinds : k # f.kind => more[k] = HandedOver[k]
  PROVE  /\ Good(r, Base) /\ PackedFor(r, sent, more)
         /\ Begun(r) \in Nat /\ Begun(r) <= Begun(pz) + (f.hi - f.lo)
  <1>1. Base \in Nat /\ Good(pz, Base) /\ SentOK(sent, Base) /\ PackedFor(pz, sent, HandedOver)
    BY BaseFacts DEF Packaged
  <1>2. /\ Good(r, Base) /\ Begun(r) <= Begun(pz) + (f.hi - f.lo)
        /\ Extends(pz, r, f.kind, f.lo, f.hi)
    BY <1>1, SendFrameFacts
  <1>3. f.kind \in Kinds /\ f.lo \in Nat /\ f.hi \in Nat /\ f.lo <= f.hi
    BY SizeFacts
  <1>4. PackedFor(r, sent, more)
    BY <1>1, <1>2, <1>3, PackedMore
  <1>5. Begun(r) \in Nat
    BY <1>2, StateFacts DEF Good, Loose
  <1> QED
    BY <1>2, <1>4, <1>5

\* Steps of Packetizer leave the rest alone.
LEMMA OthersSame ==
  ASSUME Inv, UNCHANGED <<cc, sent, received, ivars>>
  PROVE  /\ Base' = Base
         /\ Reports(sent, Base, packets, fired, acked, lost, received)'
         /\ CongestionFor(cc, BytesFor(sent, Base, acked), Base)'
         /\ EstimatorFor(est, PacketTime * Base)'
  <1>1. /\ cc' = cc /\ sent' = sent /\ received' = received /\ packets' = packets
        /\ fired' = fired /\ acked' = acked /\ lost' = lost /\ est' = est
    BY DEF ivars
  <1>2. Base' = Base
    BY <1>1 DEF Base
  <1> QED
    BY <1>1, <1>2 DEF Inv

LEMMA HandDataInv == Inv /\ HandData => Inv'
  <1> SUFFICES ASSUME Inv, HandData PROVE Inv'
    OBVIOUS
  <1>1. UNCHANGED <<cc, sent, received, ivars>>
        /\ empties' = empties /\ limits' = limits /\ acksOf' = acksOf
    BY DEF HandData
  <1>2. PICK len \in Lens : /\ handed + len <= MaxData
                            /\ pz' = SendFrame(pz, Data(handed, handed + len))
                            /\ handed' = handed + len
    BY DEF HandData
  <1>3. Counted /\ Packaged /\ handed \in Nat /\ empties \in Nat /\ limits \in Nat /\ acksOf \in Nat
        /\ len \in Nat /\ len > 0
    BY Consts DEF Inv, Counted
  <1> DEFINE f == Data(handed, handed + len)
  <1>4. f \in Frame /\ f.kind = "data" /\ f.lo = handed /\ f.hi = handed + len
    BY <1>3, FrameFacts
  <1>5. /\ HandedOver["data"] = handed /\ HandedOver'["data"] = handed + len
        /\ \A k \in Kinds : k # "data" => HandedOver'[k] = HandedOver[k]
    BY <1>1, <1>2 DEF HandedOver, Kinds
  <1> HIDE DEF f
  <1>6. /\ Good(pz', Base) /\ PackedFor(pz', sent, HandedOver')
        /\ Begun(pz') \in Nat /\ Begun(pz') <= Begun(pz) + (f.hi - f.lo)
    BY <1>2, <1>3, <1>4, <1>5, HandFacts DEF f
  <1>7. Begun(pz') <= (handed + len) + empties + limits + acksOf
    <2>1. Begun(pz) <= handed + empties + limits + acksOf /\ Begun(pz) \in Nat
      BY <1>3, BaseFacts DEF Counted
    <2>2. f.hi - f.lo = len
      BY <1>3, <1>4
    <2>3. \A b, c, h, e, l, a \in Nat : c <= b + len /\ b <= h + e + l + a => c <= (h + len) + e + l + a
      BY <1>3
    <2> QED
      BY <1>3, <1>6, <2>1, <2>2, <2>3
  <1>8. Counted'
    <2>1. handed + len \in Nat
      BY <1>3
    <2> QED
      BY <1>1, <1>2, <1>3, <1>7, <2>1 DEF Counted
  <1>9. Packaged'
    <2>1. sent' = sent /\ Base' = Base
      BY <1>1, OthersSame
    <2> QED
      BY <1>3, <1>6, <2>1 DEF Packaged
  <1> QED
    BY <1>1, <1>8, <1>9, OthersSame DEF Inv

LEMMA HandEmptyInv == Inv /\ HandEmpty => Inv'
  <1> SUFFICES ASSUME Inv, HandEmpty PROVE Inv'
    OBVIOUS
  <1>1. /\ UNCHANGED <<cc, sent, received, ivars>> /\ handed' = handed
        /\ limits' = limits /\ acksOf' = acksOf
        /\ empties < MaxEmpties /\ empties' = empties + 1 /\ pz' = SendFrame(pz, Empty(empties))
    BY DEF HandEmpty
  <1>2. Counted /\ Packaged /\ handed \in Nat /\ empties \in Nat /\ limits \in Nat /\ acksOf \in Nat
    BY DEF Inv, Counted
  <1> DEFINE f == Empty(empties)
  <1>3. f \in Frame /\ f.kind = "empty" /\ f.lo = empties /\ f.hi = empties + 1
    BY <1>2, FrameFacts
  <1>4. /\ HandedOver["empty"] = empties /\ HandedOver'["empty"] = empties + 1
        /\ \A k \in Kinds : k # "empty" => HandedOver'[k] = HandedOver[k]
    BY <1>1 DEF HandedOver, Kinds
  <1> HIDE DEF f
  <1>5. /\ Good(pz', Base) /\ PackedFor(pz', sent, HandedOver')
        /\ Begun(pz') \in Nat /\ Begun(pz') <= Begun(pz) + (f.hi - f.lo)
    BY <1>1, <1>2, <1>3, <1>4, HandFacts DEF f
  <1>6. Begun(pz') <= handed + (empties + 1) + limits + acksOf
    <2>1. Begun(pz) <= handed + empties + limits + acksOf /\ Begun(pz) \in Nat
      BY <1>2, BaseFacts DEF Counted
    <2>2. f.hi - f.lo = 1
      BY <1>2, <1>3
    <2>3. \A b, c, h, e, l, a \in Nat : c <= b + 1 /\ b <= h + e + l + a => c <= h + (e + 1) + l + a
      OBVIOUS
    <2> QED
      BY <1>2, <1>5, <2>1, <2>2, <2>3
  <1>7. Counted'
    <2>1. empties + 1 \in Nat /\ empties + 1 <= MaxEmpties
      BY <1>1, <1>2, Consts
    <2> QED
      BY <1>1, <1>2, <1>6, <2>1 DEF Counted
  <1>8. Packaged'
    <2>1. sent' = sent /\ Base' = Base
      BY <1>1, OthersSame
    <2> QED
      BY <1>2, <1>5, <2>1 DEF Packaged
  <1> QED
    BY <1>1, <1>7, <1>8, OthersSame DEF Inv

LEMMA HandLimitInv == Inv /\ HandLimit => Inv'
  <1> SUFFICES ASSUME Inv, HandLimit PROVE Inv'
    OBVIOUS
  <1>1. /\ UNCHANGED <<cc, sent, received, ivars>> /\ handed' = handed
        /\ empties' = empties /\ acksOf' = acksOf
        /\ limits < MaxLimits /\ limits' = limits + 1 /\ pz' = SendFrame(pz, Limit(limits))
    BY DEF HandLimit
  <1>2. Counted /\ Packaged /\ handed \in Nat /\ empties \in Nat /\ limits \in Nat /\ acksOf \in Nat
    BY DEF Inv, Counted
  <1> DEFINE f == Limit(limits)
  <1>3. f \in Frame /\ f.kind = "limit" /\ f.lo = limits /\ f.hi = limits + 1
    BY <1>2, FrameFacts
  <1>4. /\ HandedOver["limit"] = limits /\ HandedOver'["limit"] = limits + 1
        /\ \A k \in Kinds : k # "limit" => HandedOver'[k] = HandedOver[k]
    BY <1>1 DEF HandedOver, Kinds
  <1> HIDE DEF f
  <1>5. /\ Good(pz', Base) /\ PackedFor(pz', sent, HandedOver')
        /\ Begun(pz') \in Nat /\ Begun(pz') <= Begun(pz) + (f.hi - f.lo)
    BY <1>1, <1>2, <1>3, <1>4, HandFacts DEF f
  <1>6. Begun(pz') <= handed + empties + (limits + 1) + acksOf
    <2>1. Begun(pz) <= handed + empties + limits + acksOf /\ Begun(pz) \in Nat
      BY <1>2, BaseFacts DEF Counted
    <2>2. f.hi - f.lo = 1
      BY <1>2, <1>3
    <2>3. \A b, c, h, e, l, a \in Nat : c <= b + 1 /\ b <= h + e + l + a => c <= h + e + (l + 1) + a
      OBVIOUS
    <2> QED
      BY <1>2, <1>5, <2>1, <2>2, <2>3
  <1>7. Counted'
    <2>1. limits + 1 \in Nat /\ limits + 1 <= MaxLimits
      BY <1>1, <1>2, Consts
    <2> QED
      BY <1>1, <1>2, <1>6, <2>1 DEF Counted
  <1>8. Packaged'
    <2>1. sent' = sent /\ Base' = Base
      BY <1>1, OthersSame
    <2> QED
      BY <1>2, <1>5, <2>1 DEF Packaged
  <1> QED
    BY <1>1, <1>7, <1>8, OthersSame DEF Inv

LEMMA HandAckInv == Inv /\ HandAck => Inv'
  <1> SUFFICES ASSUME Inv, HandAck PROVE Inv'
    OBVIOUS
  <1>1. /\ UNCHANGED <<cc, sent, received, ivars>> /\ handed' = handed
        /\ empties' = empties /\ limits' = limits
        /\ acksOf < MaxAckOf /\ acksOf' = acksOf + 1 /\ pz' = SendFrame(pz, AckOf(acksOf))
    BY DEF HandAck
  <1>2. Counted /\ Packaged /\ handed \in Nat /\ empties \in Nat /\ limits \in Nat /\ acksOf \in Nat
    BY DEF Inv, Counted
  <1> DEFINE f == AckOf(acksOf)
  <1>3. f \in Frame /\ f.kind = "ack" /\ f.lo = acksOf /\ f.hi = acksOf + 1
    BY <1>2, FrameFacts
  <1>4. /\ HandedOver["ack"] = acksOf /\ HandedOver'["ack"] = acksOf + 1
        /\ \A k \in Kinds : k # "ack" => HandedOver'[k] = HandedOver[k]
    BY <1>1 DEF HandedOver, Kinds
  <1> HIDE DEF f
  <1>5. /\ Good(pz', Base) /\ PackedFor(pz', sent, HandedOver')
        /\ Begun(pz') \in Nat /\ Begun(pz') <= Begun(pz) + (f.hi - f.lo)
    BY <1>1, <1>2, <1>3, <1>4, HandFacts DEF f
  <1>6. Begun(pz') <= handed + empties + limits + (acksOf + 1)
    <2>1. Begun(pz) <= handed + empties + limits + acksOf /\ Begun(pz) \in Nat
      BY <1>2, BaseFacts DEF Counted
    <2>2. f.hi - f.lo = 1
      BY <1>2, <1>3
    <2>3. \A b, c, h, e, l, a \in Nat : c <= b + 1 /\ b <= h + e + l + a => c <= h + e + l + (a + 1)
      OBVIOUS
    <2> QED
      BY <1>2, <1>5, <2>1, <2>2, <2>3
  <1>7. Counted'
    <2>1. acksOf + 1 \in Nat /\ acksOf + 1 <= MaxAckOf
      BY <1>1, <1>2, Consts
    <2> QED
      BY <1>1, <1>2, <1>6, <2>1 DEF Counted
  <1>8. Packaged'
    <2>1. sent' = sent /\ Base' = Base
      BY <1>1, OthersSame
    <2> QED
      BY <1>2, <1>5, <2>1 DEF Packaged
  <1> QED
    BY <1>1, <1>7, <1>8, OthersSame DEF Inv

LEMMA PacketTimeoutInv == Inv /\ PacketTimeout => Inv'
  <1> SUFFICES ASSUME Inv, PacketTimeout PROVE Inv'
    OBVIOUS
  <1>1. /\ UNCHANGED <<cc, sent, received, ivars>>
        /\ handed' = handed /\ empties' = empties
        /\ limits' = limits /\ acksOf' = acksOf
        /\ pz.timers > 0 /\ pz' = OnTimeout(pz)
    BY DEF PacketTimeout
  <1>2. /\ Counted /\ Packaged /\ Base \in Nat /\ Good(pz, Base) /\ pz \in PacketizerState
        /\ pz.timers \in Nat
    BY BaseFacts, StateFacts DEF Inv, Packaged, Good, Loose
  <1> DEFINE q == [pz EXCEPT !.timers = pz.timers - 1]
             r == Flush(q)
  <1>3. /\ q \in PacketizerState /\ q.frames = pz.frames /\ q.room = pz.room
        /\ q.num = pz.num /\ q.out = pz.out
    <2>1. pz.timers - 1 \in Nat
      BY <1>1, <1>2
    <2> QED
      BY <1>2, <2>1 DEF PacketizerState
  <1>4. pz' = r
    BY <1>1 DEF OnTimeout
  <1> HIDE DEF q
  <1>5. Loose(q, Base) /\ Begun(q) = Begun(pz)
    BY <1>2, <1>3 DEF Good, Loose, Numbered, Begun
  <1>6. \A e \in Entry : Holds(q, e) <=> Holds(pz, e)
    BY <1>3 DEF Holds, InPacket
  <1>7. /\ Good(r, Base) /\ Begun(r) = Begun(q)
        /\ \A e \in Entry : Holds(r, e) <=> Holds(q, e)
    BY <1>2, <1>5, FlushFacts
  <1> HIDE DEF r
  <1>8. PackedFor(r, sent, HandedOver)
    <2>1. \A e \in Entry : Present(r, sent, e) <=> Present(pz, sent, e)
      BY <1>6, <1>7 DEF Present
    <2>2. PackedFor(pz, sent, HandedOver)
      BY <1>2 DEF Packaged
    <2> QED
      BY <2>1, <2>2, PackedSame
  <1>9. HandedOver' = HandedOver
    BY <1>1 DEF HandedOver
  <1>10. Counted'
    BY <1>1, <1>2, <1>4, <1>5, <1>7 DEF Counted
  <1>11. Packaged'
    <2>1. sent' = sent /\ Base' = Base
      BY <1>1, OthersSame
    <2> QED
      BY <1>2, <1>4, <1>7, <1>8, <1>9, <2>1 DEF Packaged
  <1> QED
    BY <1>1, <1>10, <1>11, OthersSame DEF Inv

LEMMA SendPacketInv == Inv /\ SendPacket => Inv'
  <1> SUFFICES ASSUME Inv, SendPacket PROVE Inv'
    OBVIOUS
  <1> DEFINE p == Head(pz.out)
  <1>1. /\ pz.out # <<>> /\ pz' = [pz EXCEPT !.out = Tail(pz.out)]
        /\ packets' = packets \union (IF Eliciting(p.frames) THEN {p} ELSE {})
        /\ fired' = fired /\ acked' = acked /\ lost' = lost /\ est' = est
        /\ sent' = sent \union {p}
        /\ cc' = cc /\ handed' = handed /\ empties' = empties
        /\ limits' = limits /\ acksOf' = acksOf
        /\ received' = received
    BY DEF SendPacket, Sent
  <1>2. /\ Counted /\ Packaged /\ Base \in Nat /\ Base < MaxPackets /\ Base <= MaxPackets
        /\ Good(pz, Base) /\ SentOK(sent, Base) /\ PackedFor(pz, sent, HandedOver)
    BY <1>1, BaseFacts DEF Inv, Packaged
  <1> HIDE DEF p
  <1>3. /\ p \in Packet /\ p.num = Base
        /\ Good(pz', Base + 1) /\ Begun(pz') = Begun(pz)
        /\ SentOK(sent', Base + 1)
        /\ \A e \in Entry : Present(pz', sent', e) <=> Present(pz, sent, e)
    BY <1>1, <1>2, TakeFacts DEF p
  <1>4. Base' = Base + 1
    BY <1>3 DEF Base, SentOK
  <1>5. HandedOver' = HandedOver
    BY <1>1 DEF HandedOver
  <1>6. Counted'
    BY <1>1, <1>2, <1>3 DEF Counted
  <1>7. Packaged'
    <2>1. PackedFor(pz', sent', HandedOver)
      BY <1>2, <1>3, PackedSame
    <2> QED
      BY <1>3, <1>4, <1>5, <2>1 DEF Packaged
  <1>8. Reports(sent', Base + 1, packets', fired, acked, lost, received) /\ acked[Base] = 0
    <2>1. Reports(sent, Base, packets, fired, acked, lost, received)
      BY DEF Inv
    <2> QED
      BY <1>1, <1>2, <1>3, <2>1, ReportsSent
  <1>9. BytesFor(sent', Base + 1, acked) = BytesFor(sent, Base, acked)
    <2>1. acked \in Counts
      BY DEF Inv, Reports
    <2> QED
      BY <1>1, <1>2, <1>3, <1>8, <2>1, BytesSent
  <1>10. CongestionFor(cc, BytesFor(sent, Base, acked), Base + 1)
    <2>1. CongestionFor(cc, BytesFor(sent, Base, acked), Base)
      BY DEF Inv
    <2>2. cc.recovery <= Base /\ cc.recovery \in Nat
      BY <2>1 DEF CongestionFor, CongestionState
    <2>3. cc.recovery <= Base + 1
      BY <1>2, <2>2
    <2> QED
      BY <2>1, <2>3 DEF CongestionFor
  <1>11. EstimatorFor(est, PacketTime * (Base + 1))
    <2>1. EstimatorFor(est, PacketTime * Base)
      BY DEF Inv
    <2>2. PacketTime * Base \in Nat /\ PacketTime * (Base + 1) \in Nat
          /\ PacketTime * Base <= PacketTime * (Base + 1)
      BY <1>2, Consts
    <2>3. est.smoothed \in Nat \union {NoRtt} /\ est.var \in Nat
      BY <2>1 DEF EstimatorFor
    <2> DEFINE before == PacketTime * Base
               after  == PacketTime * (Base + 1)
    <2> HIDE DEF before, after
    <2>4. before \in Nat /\ after \in Nat /\ before <= after
      BY <2>2 DEF before, after
    <2>5. EstimatorFor(est, before) => EstimatorFor(est, after)
      BY <2>3, <2>4 DEF EstimatorFor
    <2> QED
      BY <2>1, <2>5 DEF before, after
  <1>12. Reports(sent, Base, packets, fired, acked, lost, received)'
    BY <1>1, <1>4, <1>8
  <1>13. CongestionFor(cc, BytesFor(sent, Base, acked), Base)'
    BY <1>1, <1>4, <1>9, <1>10
  <1>14. EstimatorFor(est, PacketTime * Base)'
    BY <1>1, <1>4, <1>11
  <1> QED
    BY <1>6, <1>7, <1>12, <1>13, <1>14 DEF Inv

LEMMA DeliverInv == Inv /\ Deliver => Inv'
  <1> SUFFICES ASSUME Inv, Deliver PROVE Inv'
    OBVIOUS
  <1>1. /\ pz' = pz /\ cc' = cc /\ handed' = handed /\ empties' = empties
        /\ limits' = limits /\ acksOf' = acksOf
        /\ sent' = sent /\ packets' = packets /\ fired' = fired /\ acked' = acked
        /\ lost' = lost /\ est' = est
    BY DEF Deliver, ivars
  <1>2. PICK p \in sent : received' = received \union {p.num}
    BY DEF Deliver
  <1>3. Base' = Base /\ HandedOver' = HandedOver
    BY <1>1 DEF Base, HandedOver
  <1>4. Counted' /\ Packaged'
    BY <1>1, <1>3 DEF Inv, Counted, Packaged
  <1>5. Reports(sent, Base, packets, fired, acked, lost, received \union {p.num})
    BY ReportsDelivered DEF Inv
  <1>6. Reports(sent, Base, packets, fired, acked, lost, received)'
    BY <1>1, <1>2, <1>3, <1>5
  <1> QED
    BY <1>1, <1>3, <1>4, <1>6 DEF Inv

\* The part of the state that only acks and timers change.
LEMMA PacketizerSame ==
  ASSUME Inv, UNCHANGED <<pz, handed, empties, limits, acksOf, sent, received>>
  PROVE  Counted' /\ Packaged' /\ Base' = Base
  <1>1. /\ pz' = pz /\ handed' = handed /\ empties' = empties
        /\ limits' = limits /\ acksOf' = acksOf
        /\ sent' = sent
    OBVIOUS
  <1>2. Base' = Base /\ HandedOver' = HandedOver
    BY <1>1 DEF Base, HandedOver
  <1> QED
    BY <1>1, <1>2 DEF Inv, Counted, Packaged

LEMMA AckArrivesInv == Inv /\ AckArrives => Inv' /\ cc.window <= cc'.window
  <1> SUFFICES ASSUME Inv, AckArrives PROVE Inv' /\ cc.window <= cc'.window
    OBVIOUS
  <1>1. UNCHANGED <<pz, handed, empties, limits, acksOf, sent, received>>
    BY DEF AckArrives
  <1>2. PICK nums \in SUBSET received \ {{}}, delay \in {0, MaxAckDelay} :
          /\ Ack(nums, delay, [n \in nums |-> PacketTime * (Base - n)])
          /\ CongestionAcked(Covered(nums))
    BY DEF AckArrives, Base
  <1> DEFINE ages    == [n \in nums |-> PacketTime * (Base - n)]
             open    == Unresolved
             covered == Covered(nums)
  <1>3. /\ packets' = open \ covered
        /\ fired' = fired \intersect Numbers(packets')
        /\ acked' = Once(acked, Numbers(covered))
        /\ est' = IF Sampled(nums) = {} THEN est
                  ELSE Update(est, delay, ages[(CHOOSE p \in Sampled(nums) : TRUE).num])
        /\ lost' = lost
    BY <1>2 DEF Ack
  <1>4. /\ Base \in Nat /\ Base <= MaxPackets /\ SentOK(sent, Base)
    BY BaseFacts DEF Inv, Packaged
  <1>5. Reports(sent, Base, packets, fired, acked, lost, received)
    BY DEF Inv
  <1>6. /\ open = { p \in packets : p.num \notin fired }
        /\ covered = { p \in open : p.num \in nums }
    BY DEF Unresolved, Covered
  <1>7. covered \subseteq packets /\ packets \subseteq sent /\ acked \in Counts
    BY <1>5, <1>6 DEF Reports
  <1> HIDE DEF ages, open, covered
  <1>8. Counted' /\ Packaged' /\ Base' = Base
    BY <1>1, PacketizerSame
  <1>9. Reports(sent, Base, packets', fired', acked', lost, received)
    <2>1. nums \in SUBSET received
      OBVIOUS
    <2>2. PICK more, left :
            /\ more = acked' /\ more = Once(acked, Numbers(covered))
            /\ left = fired' /\ left = fired \intersect Numbers(open \ covered)
      BY <1>3
    <2>3. Base \in Nat /\ Base <= MaxPackets /\ SentOK(sent, Base)
      BY <1>4
    <2>4. /\ open \subseteq packets /\ \A p \in packets : p \in open <=> p.num \notin fired
          /\ covered \subseteq open /\ \A p \in open : p \in covered <=> p.num \in nums
      BY <1>6
    <2>5. more = Once(acked, Numbers(covered)) /\ left = fired \intersect Numbers(open \ covered)
      BY <2>2
    <2>6. Reports(sent, Base, open \ covered, left, more, lost, received)
      BY <1>5, <2>1, <2>3, <2>4, <2>5, ReportsAcked
    <2> QED
      BY <1>3, <2>2, <2>6
  <1>10. /\ CongestionFor(cc', BytesFor(sent, Base, acked'), Base)
         /\ cc.window <= cc'.window
    <2>1. CongestionFor(cc, BytesFor(sent, Base, acked), Base)
      BY DEF Inv
    <2>2. covered \in SUBSET sent /\ CongestionAcked(covered)
      BY <1>2, <1>7 DEF covered
    <2> QED
      BY <1>3, <1>4, <1>7, <2>1, <2>2, CongestionAckedFacts
  <1>11. EstimatorFor(est', PacketTime * Base)
    <2>1. EstimatorFor(est, PacketTime * Base) /\ PacketTime * Base \in Nat
      BY <1>4, Consts DEF Inv
    <2>2. CASE Sampled(nums) = {}
      BY <1>3, <2>1, <2>2
    <2>3. CASE Sampled(nums) # {}
      <3> DEFINE p == CHOOSE o \in Sampled(nums) : TRUE
      <3>1. p \in Sampled(nums)
        BY <2>3
      <3> HIDE DEF p
      <3>2. p \in sent /\ p.num \in nums
        BY <1>6, <1>7, <3>1 DEF Sampled, covered
      <3>3. p.num \in Nat /\ p.num < Base
        BY <1>4, <3>2, NumberFacts
      <3>4. ages[p.num] = PacketTime * (Base - p.num)
        BY <3>2 DEF ages
      <3>5. \A n \in Nat : n < Base =>
              /\ PacketTime * (Base - n) \in Nat /\ PacketTime <= PacketTime * (Base - n)
              /\ PacketTime * (Base - n) <= PacketTime * Base
        <4>1. ASSUME NEW n \in Nat, n < Base
              PROVE  /\ PacketTime * (Base - n) \in Nat /\ PacketTime <= PacketTime * (Base - n)
                     /\ PacketTime * (Base - n) <= PacketTime * Base
          <5> DEFINE k == Base - n
          <5>1. k \in Nat /\ k >= 1 /\ k <= Base
            BY <1>4, <4>1
          <5> HIDE DEF k
          <5>2. \A a, b \in Nat : a <= b => PacketTime * a <= PacketTime * b
            BY Consts
          <5>3. PacketTime * 1 = PacketTime
            BY Consts
          <5>4. PacketTime * k \in Nat /\ PacketTime <= PacketTime * k /\ PacketTime * k <= PacketTime * Base
            BY <1>4, <5>1, <5>2, <5>3, Consts
          <5> QED
            BY <5>4 DEF k
        <4> QED
          BY <4>1
      <3>6. delay \in Nat
        BY Consts
      <3>7. est' = Update(est, delay, ages[p.num])
        BY <1>3, <2>3 DEF p
      <3>8. /\ ages[p.num] \in Nat /\ PacketTime <= ages[p.num]
            /\ ages[p.num] <= PacketTime * Base
        BY <3>3, <3>4, <3>5
      <3> QED
        BY <2>1, <3>6, <3>7, <3>8, UpdateFacts
    <2> QED
      BY <2>2, <2>3
  <1>12. sent' = sent /\ received' = received
    BY <1>1
  <1> QED
    BY <1>3, <1>8, <1>9, <1>10, <1>11, <1>12 DEF Inv

LEMMA RetransmissionInv ==
  ASSUME Inv, NEW p \in packets, RetransmissionTimeout(p)
  PROVE  Inv' /\ (cc' # cc => cc.recovery < cc'.recovery)
  <1>1. UNCHANGED <<pz, handed, empties, limits, acksOf, sent, received>>
    BY DEF RetransmissionTimeout
  <1>2. /\ p.num \notin fired /\ fired' = fired \union {p.num} /\ lost' = Once(lost, {p.num})
        /\ packets' = packets /\ acked' = acked /\ est' = est
        /\ cc' = OnLoss(cc, p.num, Base) /\ sent' = sent /\ received' = received
    BY DEF RetransmissionTimeout, TimerFires, Base
  <1>3. Counted' /\ Packaged' /\ Base' = Base
    BY <1>1, PacketizerSame
  <1>4. Base \in Nat /\ Base <= MaxPackets /\ SentOK(sent, Base)
    BY BaseFacts DEF Inv, Packaged
  <1>5. Reports(sent, Base, packets, fired, acked, lost, received)
    BY DEF Inv
  <1>6. Reports(sent, Base, packets, fired', acked, lost', received)
    BY <1>2, <1>4, <1>5, ReportsLost
  <1>7. p \in sent /\ acked \in Counts
    BY <1>5 DEF Reports
  <1>8. p.num \in Nat /\ p.num < Base
    BY <1>4, <1>7, NumberFacts
  <1>9. BytesFor(sent, Base, acked) \in Nat
    BY <1>4, <1>7, BytesNat
  <1>10. /\ CongestionFor(cc', BytesFor(sent, Base, acked), Base)
         /\ cc' # cc => cc.recovery < cc'.recovery
    <2>1. CongestionFor(cc, BytesFor(sent, Base, acked), Base)
      BY DEF Inv
    <2> QED
      BY <1>2, <1>4, <1>8, <1>9, <2>1, OnLossFacts
  <1> QED
    BY <1>2, <1>3, <1>6, <1>10 DEF Inv

LEMMA StutterInv == Inv /\ UNCHANGED pvars => Inv'
  <1> SUFFICES ASSUME Inv, UNCHANGED pvars PROVE Inv'
    OBVIOUS
  <1>1. UNCHANGED <<pz, handed, empties, limits, acksOf, sent, received>>
        /\ UNCHANGED <<cc, sent, received, ivars>>
    BY DEF pvars
  <1> QED
    BY <1>1, OthersSame, PacketizerSame DEF Inv

LEMMA NextInv == Inv /\ [Next]_pvars => Inv'
  <1> SUFFICES ASSUME Inv, [Next]_pvars PROVE Inv'
    OBVIOUS
  <1>1. CASE HandData
    BY <1>1, HandDataInv
  <1>2. CASE HandLimit
    BY <1>2, HandLimitInv
  <1>3. CASE HandAck
    BY <1>3, HandAckInv
  <1>4. CASE PacketTimeout
    BY <1>4, PacketTimeoutInv
  <1>5. CASE SendPacket
    BY <1>5, SendPacketInv
  <1>6. CASE Deliver
    BY <1>6, DeliverInv
  <1>7. CASE AckArrives
    BY <1>7, AckArrivesInv
  <1>8. ASSUME NEW p \in packets, RetransmissionTimeout(p) PROVE Inv'
    BY <1>8, RetransmissionInv
  <1>9. CASE HandEmpty
    BY <1>9, HandEmptyInv
  <1>10. CASE UNCHANGED pvars
    BY <1>10, StutterInv
  <1> QED
    BY <1>1, <1>2, <1>3, <1>4, <1>5, <1>6, <1>7, <1>8, <1>9, <1>10 DEF Next

LEMMA InvHolds == Spec => []Inv
  <1>1. Init => Inv
    BY InitInv
  <1>2. Inv /\ [Next]_pvars => Inv'
    BY NextInv
  <1> QED
    BY <1>1, <1>2, PTL DEF Spec

------------------------------------------------------------------------------
(***************************************************************************)
(* The theorems.                                                           *)
(***************************************************************************)
LEMMA InvParts ==
  ASSUME Inv
  PROVE  /\ Base \in Nat /\ Base <= MaxPackets
         /\ pz \in PacketizerState /\ pz.num = Base + Len(pz.out) /\ pz.num <= MaxPackets
         /\ SentOK(sent, Base)
         /\ Reports(sent, Base, packets, fired, acked, lost, received)
         /\ acked \in Counts /\ lost \in Counts
         /\ BytesFor(sent, Base, acked) = AckedBytes /\ AckedBytes \in Nat
  <1>1. Counted /\ Packaged /\ SentOK(sent, Base)
        /\ Reports(sent, Base, packets, fired, acked, lost, received)
    BY DEF Inv, Packaged
  <1>2. Base \in Nat /\ Base <= MaxPackets /\ pz.num <= MaxPackets
    BY <1>1, BaseFacts
  <1>3. pz \in PacketizerState /\ pz.num = Base + Len(pz.out)
    BY <1>1 DEF Packaged, Good, Loose, Numbered
  <1>4. BytesFor(sent, Base, acked) = AckedBytes
    BY Zenon DEF BytesFor, AckedBytes, PacketAt, Base
  <1>5. acked \in Counts /\ lost \in Counts
    BY <1>1 DEF Reports
  <1> QED
    BY <1>1, <1>2, <1>3, <1>4, <1>5, BytesNat

\* The types of the pipeline: packets are numbered without gaps, and those that
\* Inflight keeps and those the peer received were sent.
THEOREM TypesHold == Spec => []TypeOK
  <1>1. Inv => TypeOK
    <2> SUFFICES ASSUME Inv PROVE TypeOK
      OBVIOUS
    <2>1. pz.room \in 0..PacketRoom /\ pz.timers \in Nat
      <3>1. pz.room \in Nat /\ pz.timers \in Nat /\ SizeOf(pz.frames) \in Nat
        BY InvParts, StateFacts, SizeOfFacts
      <3>2. pz.room = PacketRoom - SizeOf(pz.frames)
        BY DEF Inv, Packaged, Good, Loose
      <3> QED
        BY <3>1, <3>2, Consts
    <2>2. pz.num = Cardinality(sent) + Len(pz.out) /\ pz.num <= MaxPackets
      BY InvParts DEF Base
    <2>3. packets \subseteq sent /\ fired \subseteq Numbers(packets) /\ received \subseteq Numbers(sent)
      BY InvParts DEF Reports
    <2>4. cc.window \in Nat /\ cc.bytesAcked \in Nat /\ cc.recovery \in 0..Cardinality(sent)
      <3>1. CongestionFor(cc, BytesFor(sent, Base, acked), Base) /\ Base \in Nat
        BY InvParts DEF Inv
      <3> QED
        BY <3>1 DEF CongestionFor, CongestionState, Base
    <2>5. est.smoothed \in Nat \union {NoRtt} /\ est.var \in Nat /\ est.min \in Nat
      BY DEF Inv, EstimatorFor
    <2> QED
      BY <2>1, <2>2, <2>3, <2>4, <2>5 DEF TypeOK
  <1> QED
    BY <1>1, InvHolds, PTL

\* No packet is empty or longer than a datagram may be, for every size of the
\* frames and of their headers, and the room left in the packet is known.
THEOREM PacketsFitHolds == Spec => []PacketsFit
  <1>1. Inv => PacketsFit
    <2> SUFFICES ASSUME Inv PROVE PacketsFit
      OBVIOUS
    <2>1. Good(pz, Base) /\ SentOK(sent, Base)
      BY DEF Inv, Packaged
    <2>2. pz.out \in Seq(Packet)
      BY InvParts, StateFacts
    <2>3. \A p \in Packets : p.frames # <<>> /\ SizeOf(p.frames) <= PacketRoom
      BY <2>1, <2>2 DEF Packets, SentOK, Good, Loose, Numbered
    <2>4. pz.room = PacketRoom - SizeOf(pz.frames) /\ pz.room >= FullBelow
      <3>1. pz.room = PacketRoom - SizeOf(pz.frames) /\ FullBelow <= pz.room
        BY <2>1 DEF Good, Loose
      <3>2. pz.room \in Nat
        BY InvParts, StateFacts
      <3> QED
        BY <3>1, <3>2, Consts
    <2> QED
      BY <2>3, <2>4 DEF PacketsFit
  <1> QED
    BY <1>1, InvHolds, PTL

LEMMA EntriesFacts ==
  ASSUME Inv
  PROVE  \A e : e \in Entries <=> e \in Entry /\ Present(pz, sent, e)
  <1> DEFINE current == [num |-> pz.num, frames |-> pz.frames]
             all     == Packets \union {current}
  <1>1. /\ pz.frames \in Seq(Frame) /\ pz.num \in Nat /\ pz.out \in Seq(Packet)
        /\ sent \subseteq Packet
    BY InvParts, StateFacts DEF SentOK
  <1>2. all \subseteq Packet
    <2>1. current \in Packet
      BY <1>1 DEF Packet
    <2>2. \A i \in DOMAIN pz.out : pz.out[i] \in Packet
      BY <1>1
    <2> HIDE DEF current
    <2> QED
      BY <1>1, <2>1, <2>2 DEF Packets
  <1>3. \A e : InPacket(e, current) <=> InPacket(e, pz)
    BY DEF InPacket
  <1>4. \A e \in Entry : (\E p \in all : InPacket(e, p)) <=> Present(pz, sent, e)
    <2>1. DOMAIN pz.out = 1..Len(pz.out)
      BY <1>1
    <2>2. \A p : p \in all <=> p \in sent \/ p = current \/ \E i \in 1..Len(pz.out) : p = pz.out[i]
      <3> HIDE DEF current
      <3> QED
        BY <2>1 DEF Packets
    <2> HIDE DEF all, current
    <2> QED
      BY <1>3, <2>2 DEF Present, Holds
  <1>5. ASSUME NEW e, e \in Entries
        PROVE  e \in Entry /\ \E p \in all : InPacket(e, p)
    <2>1. PICK p \in all : \E i \in DOMAIN p.frames :
                             e = [num |-> p.num, at |-> i, frame |-> p.frames[i]]
      <3> HIDE DEF current
      <3> QED
        BY <1>5 DEF Entries, current
    <2>2. PICK i \in DOMAIN p.frames : e = [num |-> p.num, at |-> i, frame |-> p.frames[i]]
      BY <2>1
    <2> HIDE DEF all, current
    <2>3. p \in Packet
      BY <1>2
    <2>4. p.num \in Nat /\ p.frames \in Seq(Frame)
      BY <2>3 DEF Packet
    <2>5. i \in Nat /\ p.frames[i] \in Frame
      BY <2>4
    <2> QED
      BY <2>2, <2>4, <2>5 DEF Entry, InPacket
  <1>6. ASSUME NEW e \in Entry, NEW p \in all, InPacket(e, p)
        PROVE  e \in Entries
    <2>1. e = [num |-> p.num, at |-> e.at, frame |-> p.frames[e.at]] /\ e.at \in DOMAIN p.frames
      BY <1>6 DEF Entry, InPacket
    <2> DEFINE places(o) == { [num |-> o.num, at |-> i, frame |-> o.frames[i]] : i \in DOMAIN o.frames }
    <2>2. e \in places(p)
      <3> HIDE DEF all
      <3> QED
        BY <2>1
    <2>3. Entries = UNION { places(o) : o \in all }
      BY Zenon DEF Entries
    <2> HIDE DEF places, all
    <2> QED
      BY <2>2, <2>3
  <1> QED
    BY <1>4, <1>5, <1>6

\* Whatever frames are handed over in whatever order, each is in one packet, in
\* order, and a stream frame that was cut is there without a gap or an overlap.
THEOREM PackedOnceHolds == Spec => []PackedOnce
  <1>1. Inv => PackedOnce
    <2> SUFFICES ASSUME Inv PROVE PackedOnce
      OBVIOUS
    <2>1. \A e : e \in Entries <=> e \in Entry /\ Present(pz, sent, e)
      BY EntriesFacts
    <2>2. PackedFor(pz, sent, HandedOver)
      BY DEF Inv, Packaged
    <2>3. \A e \in Entries : e.frame.lo < e.frame.hi
      BY <2>1, EntryFacts
    <2>4. \A d, e \in Entries :
            d # e /\ d.frame.kind = e.frame.kind =>
              \/ Before(d, e) /\ d.frame.hi <= e.frame.lo
              \/ Before(e, d) /\ e.frame.hi <= d.frame.lo
      BY <2>1, <2>2 DEF PackedFor
    <2>5. ASSUME NEW kind \in DOMAIN HandedOver
          PROVE  UNION { e.frame.lo..(e.frame.hi - 1) :
                           e \in { d \in Entries : d.frame.kind = kind } }
                   = 0..(HandedOver[kind] - 1)
      <3>1. kind \in Kinds /\ HandedOver[kind] \in Nat
        BY HandedFacts DEF Inv, Counted, Kinds
      <3> DEFINE mine    == { d \in Entries : d.frame.kind = kind }
                 units   == UNION { e.frame.lo..(e.frame.hi - 1) : e \in mine }
      <3>2. ASSUME NEW u \in units PROVE u \in 0..(HandedOver[kind] - 1)
        <4>1. PICK e \in mine : u \in e.frame.lo..(e.frame.hi - 1)
          <5> HIDE DEF mine
          <5> QED
            BY <3>2
        <4>2. e \in Entry /\ Present(pz, sent, e) /\ e.frame.kind = kind
          BY <2>1
        <4>3. e.frame.hi <= HandedOver[kind]
          BY <2>2, <4>2 DEF PackedFor
        <4>4. e.frame.lo \in Nat /\ e.frame.hi \in Nat
          BY <4>2, EntryFacts
        <4> HIDE DEF mine, units
        <4> QED
          BY <3>1, <4>1, <4>3, <4>4
      <3>3. ASSUME NEW u \in 0..(HandedOver[kind] - 1) PROVE u \in units
        <4>1. u \in Nat /\ u < HandedOver[kind]
          BY <3>1
        <4>2. PICK e \in Entry : /\ Present(pz, sent, e) /\ e.frame.kind = kind
                                 /\ e.frame.lo <= u /\ u < e.frame.hi
          BY <2>2, <3>1, <4>1 DEF PackedFor
        <4>3. e \in mine
          BY <2>1, <4>2
        <4>4. u \in e.frame.lo..(e.frame.hi - 1)
          BY <4>1, <4>2, EntryFacts
        <4> HIDE DEF mine
        <4> QED
          BY <4>3, <4>4
      <3> HIDE DEF mine, units
      <3>4. units = 0..(HandedOver[kind] - 1)
        BY <3>2, <3>3
      <3> QED
        BY <3>4 DEF units, mine
    <2> QED
      BY <2>3, <2>4, <2>5 DEF PackedOnce
  <1> QED
    BY <1>1, InvHolds, PTL

\* Each packet is reported once, as acknowledged or as lost, although its timer
\* and its ack race.
THEOREM ResolvedOnceHolds == Spec => []ResolvedOnce
  <1>1. Inv => ResolvedOnce
    <2> SUFFICES ASSUME Inv PROVE ResolvedOnce
      OBVIOUS
    <2>1. Reports(sent, Base, packets, fired, acked, lost, received) /\ acked \in Counts
      BY InvParts
    <2>2. \A n \in DOMAIN acked : acked[n] + lost[n] <= 1
      BY <2>1 DEF Reports, Counts, PacketNumbers
    <2>3. \A p \in sent :
            acked[p.num] + lost[p.num] = 0 <=> ~ Eliciting(p.frames) \/ p \in Unresolved
      BY <2>1 DEF Reports, Unresolved
    <2> QED
      BY <2>2, <2>3 DEF ResolvedOnce
  <1> QED
    BY <1>1, InvHolds, PTL

\* The window is what was acknowledged in slow start, and grows by at most one
\* datagram for each window after a loss, in whatever order acks and losses come.
THEOREM WindowJustifiedHolds == Spec => []WindowJustified
  <1>1. Inv => WindowJustified
    <2> SUFFICES ASSUME Inv PROVE WindowJustified
      OBVIOUS
    <2>1. CongestionFor(cc, AckedBytes, Base) /\ AckedBytes \in Nat
      BY InvParts DEF Inv
    <2>2. MinimumWindow <= cc.window /\ (cc.ssthresh = Unlimited => cc.window = InitialWindow + AckedBytes)
      BY <2>1 DEF CongestionFor
    <2>3. ASSUME cc.ssthresh # Unlimited
          PROVE  (cc.window - cc.ssthresh) * cc.ssthresh <= Mtu * AckedBytes
      <3> DEFINE grown == (cc.window - cc.ssthresh) * cc.ssthresh
                 extra == Mtu * cc.bytesAcked
                 total == Mtu * AckedBytes
      <3>1. grown + extra <= total
        BY <2>1, <2>3 DEF CongestionFor
      <3>2. grown \in Int /\ extra \in Nat /\ total \in Nat
        <4>1. cc.window \in Nat /\ cc.ssthresh \in Nat /\ cc.bytesAcked \in Nat
          BY <2>1, <2>3 DEF CongestionFor, CongestionState
        <4> QED
          BY <2>1, <4>1, Consts
      <3> HIDE DEF grown, extra, total
      <3>3. grown <= total
        BY <3>1, <3>2
      <3> QED
        BY <3>3 DEF grown, total
    <2> QED
      BY <2>2, <2>3 DEF WindowJustified
  <1> QED
    BY <1>1, InvHolds, PTL

\* The estimate stays between the shortest and the longest time that an ack
\* took, whatever delay the peer reports.
THEOREM RttJustifiedHolds == Spec => []RttJustified
  <1>1. Inv => RttJustified
    BY DEF Inv, EstimatorFor, RttJustified, Base
  <1> QED
    BY <1>1, InvHolds, PTL

\* The window is reduced once for all the losses of one flight.
THEOREM ReducedOnce == Spec => ReducedOncePerFlight
  <1>1. Inv /\ [Next]_pvars => [cc'.window < cc.window => cc'.recovery > cc.recovery]_pvars
    <2> SUFFICES ASSUME Inv, [Next]_pvars, cc'.window < cc.window
                 PROVE  cc'.recovery > cc.recovery
      OBVIOUS
    <2>1. cc.window \in Nat /\ cc.recovery \in Nat
      BY DEF Inv, CongestionFor, CongestionState
    <2>2. ~ (cc.window < cc.window)
      BY <2>1
    <2>3. cc' # cc
      BY <2>2
    <2>4. ~ AckArrives
      <3>1. SUFFICES ASSUME AckArrives PROVE FALSE
        OBVIOUS
      <3>2. Inv' /\ cc.window <= cc'.window
        BY <3>1, AckArrivesInv
      <3>3. cc'.window \in Nat
        BY <3>2 DEF Inv, CongestionFor, CongestionState
      <3> QED
        BY <2>1, <3>2, <3>3
    <2>5. PICK p \in packets : RetransmissionTimeout(p)
      BY <2>3, <2>4 DEF Next, HandData, HandEmpty, HandLimit, HandAck, PacketTimeout, SendPacket,
                        Deliver, pvars
    <2>6. Inv' /\ cc.recovery < cc'.recovery
      BY <2>3, <2>5, RetransmissionInv
    <2>7. cc'.recovery \in Nat
      BY <2>6 DEF Inv, CongestionFor, CongestionState
    <2> QED
      BY <2>1, <2>6, <2>7
  <1> QED
    BY <1>1, InvHolds, PTL DEF Spec, ReducedOncePerFlight
=============================================================================
