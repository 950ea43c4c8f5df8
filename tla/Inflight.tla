------------------------------ MODULE Inflight ------------------------------
(***************************************************************************)
(* rrdt-lib/src/connection/inflight.rs: the packets sent and not yet known *)
(* to be received or lost.  Each ack-eliciting packet has a timer task of  *)
(* its own; the task broadcasts the loss and ends, and its entry stays in  *)
(* the map until the next ack frame sweeps it out.                         *)
(***************************************************************************)
EXTENDS Packetizer, RttEstimator

VARIABLES
  packets,   \* Inflight.packets: the packets registered
  fired,     \* numbers of those whose timer task is finished
  acked,     \* how often each number was in an AckedBcast
  lost,      \* how often each number was in a LostBcast
  est        \* the RTT estimator

ivars == <<packets, fired, acked, lost, est>>

Once(times, nums) == [n \in DOMAIN times |-> IF n \in nums THEN times[n] + 1 ELSE times[n]]

Numbers(ps) == { p.num : p \in ps }

InflightInit(nums) ==
  /\ packets = {} /\ fired = {}
  /\ acked = [n \in nums |-> 0] /\ lost = [n \in nums |-> 0]
  /\ est = NewEstimator

\* Handler<Sent>
Sent(p) ==
  /\ packets' = packets \union (IF Eliciting(p.frames) THEN {p} ELSE {})
  /\ UNCHANGED <<fired, acked, lost, est>>

\* Mutant: the timer task ends without a broadcast.
MutantTimerFires(p) ==
  /\ p.num \notin fired
  /\ fired' = fired \union {p.num}
  /\ UNCHANGED <<packets, acked, lost, est>>

\* The timer task of p.
TimerFires(p) ==
  /\ p.num \notin fired
  /\ fired' = fired \union {p.num}
  /\ lost' = Once(lost, {p.num})
  /\ UNCHANGED <<packets, acked, est>>

\* Mutant: packets whose timer fired are not swept out first.
MutantUnresolved == packets

\* The packets that Handler<Ack> keeps before it looks at the frame.
Unresolved == { p \in packets : p.num \notin fired }

\* Those that an ack frame covers: AckedBcast names them.
Covered(nums) == { p \in Unresolved : p.num \in nums }

\* Only the packet with the largest number of the frame gives a sample, and
\* only if it is new; packet n was sent ages[n] ago, and the peer reports a delay.
Sampled(nums) == { p \in Covered(nums) : \A n \in nums : n <= p.num }

\* Handler<Ack>, for a frame that covers nums; their timers are aborted.
Ack(nums, delay, ages) ==
  /\ packets' = Unresolved \ Covered(nums)
  /\ fired' = fired \intersect Numbers(packets')
  /\ acked' = Once(acked, Numbers(Covered(nums)))
  /\ est' = IF Sampled(nums) = {} THEN est
            ELSE Update(est, delay, ages[(CHOOSE p \in Sampled(nums) : TRUE).num])
  /\ UNCHANGED lost

=============================================================================
