---------------------------- MODULE RttEstimator ----------------------------
(***************************************************************************)
(* rrdt-lib/src/congestion/rtt_estimator.rs, as operators on its state;    *)
(* durations are numbers, and divisions of durations round down.           *)
(***************************************************************************)
EXTENDS Integers

CONSTANTS
  InitialRtt,    \* INITIAL_RTT
  MaxAckDelay    \* max_ack_delay, which the peer also reports as its delay

ASSUME EstimatorConstants == InitialRtt \in Nat \ {0} /\ MaxAckDelay \in Nat

NoRtt == -1   \* smoothed before the first sample

NewEstimator == [smoothed |-> NoRtt, var |-> InitialRtt \div 2, min |-> InitialRtt]

\* RttEstimator::rtt; `latest` is still the initial value if there was no sample.
Rtt(est) == IF est.smoothed = NoRtt THEN InitialRtt ELSE est.smoothed

\* Mutant: the delay that the peer reports is always taken off.
MutantAdjusted(min, delay, sample) == sample - delay

\* The sample without the delay at the peer, unless it would be too small.
Adjusted(min, delay, sample) == IF min + delay <= sample THEN sample - delay ELSE sample

\* RttEstimator::update
Update(est, delay, sample) ==
  LET min  == IF sample < est.min THEN sample ELSE est.min
      adj  == Adjusted(min, delay, sample)
      diff == IF est.smoothed > adj THEN est.smoothed - adj ELSE adj - est.smoothed
  IN IF est.smoothed = NoRtt
     THEN [smoothed |-> sample, var |-> sample \div 2, min |-> sample]
     ELSE [smoothed |-> (7 * est.smoothed + adj) \div 8,
           var |-> (3 * est.var + diff) \div 4, min |-> min]

=============================================================================
