----------------------------- MODULE MCEstimator -----------------------------
(* The estimator with bandwidths divided by 100 (5 MB/s initially) and a   *)
(* learning rate of 1/100.  An int holds -32..31: a burst of 900 crosses   *)
(* its range, one of 500 does not.  With a u64 of nine bits one halving    *)
(* is enough for a second wrapped difference to be learned from.           *)
EXTENDS Estimator

(* In an interval of 1 ms 500 events are worth 31 MB/s, 50 are worth 4 and *)
(* 900 are worth 55; in one of 2 ms it is about half of that.              *)
MCBursts == {[read |-> 500, write |-> 50], [read |-> 0, write |-> 900]}
=============================================================================
