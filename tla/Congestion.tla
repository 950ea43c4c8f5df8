----------------------------- MODULE Congestion -----------------------------
(***************************************************************************)
(* rrdt-lib/src/congestion/mod.rs: NewReno, as operators on its state.     *)
(* Packets are stamped in the order of their numbers, so that an instant   *)
(* is compared with another by the number of packets sent before it:       *)
(* `recovery` is the number of packets sent when the last recovery began.  *)
(***************************************************************************)
EXTENDS Integers

CONSTANTS
  InitialWindow,   \* NewRenoConfig.initial_window
  Mtu              \* NewReno.current_mtu

ASSUME CongestionConstants ==
  /\ InitialWindow \in Nat /\ Mtu \in Nat \ {0}
  /\ 2 * Mtu <= InitialWindow

Unlimited == -1   \* ssthresh before the first loss, u64::MAX

NewReno == [window |-> InitialWindow, ssthresh |-> Unlimited, recovery |-> 0, bytesAcked |-> 0]

MinimumWindow == 2 * Mtu

SlowStart(cc) == cc.ssthresh = Unlimited \/ cc.window < cc.ssthresh

\* Mutant: after a loss the window grows with every ack.
MutantOnAck(cc, num, bytes) ==
  IF num < cc.recovery THEN cc
  ELSE [cc EXCEPT !.window = cc.window + (IF SlowStart(cc) THEN bytes ELSE Mtu)]

\* NewReno::on_ack of packet number num.
OnAck(cc, num, bytes) ==
  CASE num < cc.recovery -> cc
    [] num >= cc.recovery /\ SlowStart(cc) ->
         LET grown == cc.window + bytes
         IN [cc EXCEPT !.window = grown,
                       !.bytesAcked = IF cc.ssthresh # Unlimited /\ grown >= cc.ssthresh
                                      THEN grown - cc.ssthresh ELSE cc.bytesAcked]
    [] OTHER ->
         LET total == cc.bytesAcked + bytes
         IN IF total >= cc.window
            THEN [cc EXCEPT !.bytesAcked = total - cc.window, !.window = cc.window + Mtu]
            ELSE [cc EXCEPT !.bytesAcked = total]

\* Mutant: the bound of two packets is forgotten.
MutantOnLoss(cc, num, sent) ==
  IF num < cc.recovery THEN cc
  ELSE [cc EXCEPT !.recovery = sent, !.window = cc.window \div 2, !.ssthresh = cc.window \div 2]

\* Mutant: every loss counts, whenever its packet was sent.
MutantEveryLoss(cc, num, sent) ==
  LET halved  == cc.window \div 2
      reduced == IF halved < MinimumWindow THEN MinimumWindow ELSE halved
  IN [cc EXCEPT !.recovery = sent, !.window = reduced, !.ssthresh = reduced]

\* NewReno::on_loss of packet number num, `sent` packets having been sent.
OnLoss(cc, num, sent) ==
  IF num < cc.recovery THEN cc
  ELSE LET halved  == cc.window \div 2
           reduced == IF halved < MinimumWindow THEN MinimumWindow ELSE halved
       IN [cc EXCEPT !.recovery = sent, !.window = reduced, !.ssthresh = reduced]

=============================================================================
